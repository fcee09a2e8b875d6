--------------------------- MODULE CanonicalProofs ---------------------------
(***************************************************************************)
(* Proofs about CanonicalSync, for any number of processes, syncs and      *)
(* events.                                                                 *)
(*                                                                         *)
(* The properties follow from what one sync knows of the host (Sound), and *)
(* from more that it knows as long as it is alone (Faithful).  Each step   *)
(* of a sync is first brought to what it changes in its own state          *)
(* (Walks, Ends) and on the host.                                          *)
(***************************************************************************)
EXTENDS MCCanonical, TLAPS, SequenceTheorems, WellFoundedInduction

\* The round trips of a sync that renders, in their order.
Writing == {"write config", "push", "restart", "verify", "pair"}
Preparing == {"gitconfig", "gh login", "setup-git", "write env"}
Tooling == {"plugins", "onboard", "herdr", "slack"} \cup Preparing

\* What a sync knows of the host when nothing has disturbed it: what it reads is still so,
\* and what it has done is there.
RenderingOf(s) == [blocks |-> BlocksOf(s.inputs), sections |-> s.sections]
Compared(s) ==
  /\ s.at \in {"diff config"} \cup Tooling => ("env" \in s.drift <=> env # EnvOf(s.inputs))
  /\ s.at \in {"write config"} \cup Tooling => ("config" \in s.drift <=> config # RenderingOf(s))
Delivered(s) ==
  /\ s.at \in Writing => env = EnvOf(s.inputs)
  /\ s.at \in Writing \ {"write config"} => config = RenderingOf(s)
  /\ s.at \in Writing \cup {"gh login", "setup-git", "write env"} =>
       ("git" \in s.inputs => "user" \in gitconfig)
  /\ s.at \in Writing \cup {"write env"} => ("github" \in s.inputs => "helper" \in gitconfig)
Faithful(s) ==
  /\ s.at # "idle" /\ s.inputs = attached
  /\ s.before => config.sections
  /\ s.before /\ s.at \in {"diff env", "diff config", "write config"} \cup Tooling => s.sections
  /\ Compared(s)
  /\ s.kind # "workspace only" => Delivered(s)
  /\ s.at \in {"restart", "verify", "pair"} => workspace \in {"none", overlay}

\* What a sync knows whatever happens besides: the tools its files need are on the host
\* before it writes them, and what it saw of a hermes agent it has not set out to remove.
Sound(s) ==
  /\ s.inputs \subseteq Attachable
  /\ s.at \in {"onboard", "herdr", "slack"} \cup Preparing \cup {"write config"} =>
       s.inputs \cap {"brave"} \subseteq installed
  /\ s.at \in Preparing \cup {"write config"} => s.inputs \cap {"slack"} \subseteq installed
  /\ s.wrote => s.at \in Writing
  /\ s.at = "diff config" => "config" \notin s.drift
  /\ type # "zeroclaw" => ~ s.sections /\ ~ s.before
  /\ type = "hermes" /\ s.at \in Tooling => s.seen \subseteq EnvOf(s.inputs)
  /\ s.alone => Faithful(s)

AllSound == \A p \in Procs : Sound(sync[p])
\* A sync is alone only while the others are idle, and none runs when one has just ended well.
Aloof == \A p, q \in Procs : sync[p].alone /\ q # p => At(q, "idle")
Quiet == last # "none" => \A p \in Procs : At(p, "idle")
Bearer == type # "zeroclaw" => paired

Inv ==
  /\ TypeOK /\ AllSound /\ Aloof /\ Quiet /\ Bearer
  /\ ToolsBeforeRestart /\ HostCurrent

(***************************************************************************)
(* What a step changes.                                                    *)
(***************************************************************************)
\* p moves, and no other sync does.
Moves(p) ==
  /\ sync' \in [Procs -> Session]
  /\ \A q \in Procs \ {p} : sync'[q] = sync[q]
\* p goes to another round trip, with what it remembers of the ones before.
Walks(p, at, sections, seen, drift, wrote) ==
  /\ Moves(p)
  /\ sync'[p].at = at /\ sync'[p].sections = sections /\ sync'[p].seen = seen
  /\ sync'[p].drift = drift /\ sync'[p].wrote = wrote
  /\ sync'[p].kind = sync[p].kind /\ sync'[p].inputs = sync[p].inputs
  /\ sync'[p].before = sync[p].before /\ sync'[p].alone = sync[p].alone
Steps(p, at) == Walks(p, at, sync[p].sections, sync[p].seen, sync[p].drift, sync[p].wrote)
Ends(p) == Moves(p) /\ sync'[p] = Idle

\* Idle is a session.
LEMMA IdleSession == Idle \in Session
  BY DEF Idle, Session, Labels, Kinds, Integrations, Secrets

\* A sync is a session.
LEMMA Typed == ASSUME TypeOK, NEW p \in Procs
               PROVE  sync \in [Procs -> Session] /\ sync[p] \in Session
  BY DEF TypeOK

\* Go changes the round trip and no more.
LEMMA GoSteps == ASSUME TypeOK, NEW p \in Procs, NEW at \in Labels, Go(p, at)
                 PROVE  Steps(p, at)
<1>1. sync \in [Procs -> Session] /\ sync[p] \in Session BY Typed
<1>2. [sync[p] EXCEPT !.at = at] \in Session BY <1>1 DEF Session
<1>3. sync' = [sync EXCEPT ![p] = [sync[p] EXCEPT !.at = at]] BY <1>1 DEF Go
<1>4. sync'[p] = [sync[p] EXCEPT !.at = at] BY <1>1, <1>3
<1>5. Moves(p) BY <1>1, <1>2, <1>3 DEF Moves
<1>6. QED BY <1>1, <1>4, <1>5 DEF Steps, Walks, Session

\* End leaves p idle.
LEMMA EndEnds == ASSUME TypeOK, NEW p \in Procs, End(p)
                 PROVE  Ends(p)
  BY Typed, IdleSession DEF End, Ends, Moves

\* Succeed leaves p idle.
LEMMA SucceedEnds == ASSUME TypeOK, NEW p \in Procs, Succeed(p)
                     PROVE  Ends(p)
  BY Typed, IdleSession DEF Succeed, Ends, Moves

\* ReadSections: p has read what the daemon completed.
LEMMA ReadWalks == ASSUME TypeOK, NEW p \in Procs, ReadSections(p)
                   PROVE  Walks(p, "diff env", config.sections, sync[p].seen, sync[p].drift,
                                sync[p].wrote)
<1>1. sync \in [Procs -> Session] /\ sync[p] \in Session /\ config.sections \in BOOLEAN
  BY Typed DEF TypeOK, Configs
<1> DEFINE s == [sync[p] EXCEPT !.sections = config.sections, !.at = "diff env"]
<1>2. s \in Session BY <1>1 DEF Session, Labels
<1>3. sync' = [sync EXCEPT ![p] = s] BY <1>1 DEF ReadSections
<1>4. sync'[p] = s BY <1>1, <1>3
<1>5. Moves(p) BY <1>1, <1>2, <1>3 DEF Moves
<1>6. QED BY <1>1, <1>4, <1>5 DEF Walks, Session

\* DiffEnv: p has seen the environment file, and whether it is the rendering.
LEMMA DiffEnvWalks == ASSUME TypeOK, NEW p \in Procs, DiffEnv(p)
                      PROVE  Walks(p, "diff config", sync[p].sections, env,
                                   IF env = EnvOf(sync[p].inputs) THEN {} ELSE {"env"},
                                   sync[p].wrote)
<1>1. sync \in [Procs -> Session] /\ sync[p] \in Session /\ env \subseteq Secrets
  BY Typed DEF TypeOK
<1> DEFINE d == IF env = EnvOf(sync[p].inputs) THEN {} ELSE {"env"}
<1> DEFINE s == [sync[p] EXCEPT !.seen = env, !.drift = d, !.at = "diff config"]
<1>2. d \in SUBSET {"env", "config"} OBVIOUS
<1>3. s \in Session BY <1>1, <1>2 DEF Session, Labels
<1>4. sync' = [sync EXCEPT ![p] = s] BY <1>1 DEF DiffEnv
<1>5. sync'[p] = s BY <1>1, <1>4
<1>6. Moves(p) BY <1>1, <1>3, <1>4 DEF Moves
<1>7. QED BY <1>1, <1>5, <1>6 DEF Walks, Session

\* The tools come next, by the type of the agent.
AfterDiff == CASE type = "openclaw" -> "plugins" [] type = "hermes" -> "herdr" [] OTHER -> "slack"
\* DiffConfig: p goes on to the tools, knowing whether the config file is the rendering.
LEMMA DiffConfigWalks == ASSUME TypeOK, NEW p \in Procs, DiffConfig(p), ~ RemovesSecrets(p)
                         PROVE  Walks(p, AfterDiff, sync[p].sections, sync[p].seen,
                                      IF config = Rendered(p) THEN sync[p].drift
                                      ELSE sync[p].drift \cup {"config"},
                                      sync[p].wrote)
<1>1. sync \in [Procs -> Session] /\ sync[p] \in Session BY Typed
<1> DEFINE d == IF config = Rendered(p) THEN sync[p].drift ELSE sync[p].drift \cup {"config"}
<1> DEFINE s == [sync[p] EXCEPT !.drift = d, !.at = AfterDiff]
<1>2. d \in SUBSET {"env", "config"} /\ AfterDiff \in Labels BY <1>1 DEF Session, Labels, AfterDiff
<1>3. s \in Session BY <1>1, <1>2 DEF Session
<1>4. sync' = [sync EXCEPT ![p] = s] BY <1>1 DEF DiffConfig, AfterDiff
<1>5. sync'[p] = s BY <1>1, <1>4
<1>6. Moves(p) BY <1>1, <1>3, <1>4 DEF Moves
<1>7. QED BY <1>1, <1>5, <1>6 DEF Walks, Session

\* The writes move p on, and p knows whether one of them wrote.
LEMMA WriteWalks ==
  ASSUME TypeOK, NEW p \in Procs
  PROVE  /\ WriteEnv(p) => Walks(p, "write config", sync[p].sections, sync[p].seen,
                                 sync[p].drift, "env" \in sync[p].drift)
         /\ WriteConfig(p) => Walks(p, "push", sync[p].sections, sync[p].seen, sync[p].drift,
                                    sync[p].wrote \/ "config" \in sync[p].drift)
<1>1. sync \in [Procs -> Session] /\ sync[p] \in Session BY Typed
<1> DEFINE s(w, at) == [sync[p] EXCEPT !.wrote = w, !.at = at]
<1>2. \A w \in BOOLEAN, at \in Labels :
        sync' = [sync EXCEPT ![p] = s(w, at)] =>
          Walks(p, at, sync[p].sections, sync[p].seen, sync[p].drift, w)
  <2> SUFFICES ASSUME NEW w \in BOOLEAN, NEW at \in Labels, sync' = [sync EXCEPT ![p] = s(w, at)]
               PROVE  Walks(p, at, sync[p].sections, sync[p].seen, sync[p].drift, w)
    OBVIOUS
  <2>1. s(w, at) \in Session BY <1>1 DEF Session
  <2>2. sync'[p] = s(w, at) BY <1>1
  <2>3. Moves(p) BY <1>1, <2>1 DEF Moves
  <2>4. QED BY <1>1, <2>2, <2>3 DEF Walks, Session
<1>3. WriteEnv(p) => sync' = [sync EXCEPT ![p] = s("env" \in sync[p].drift, "write config")]
  BY <1>1 DEF WriteEnv
<1>4. WriteConfig(p) =>
        sync' = [sync EXCEPT ![p] = s(sync[p].wrote \/ "config" \in sync[p].drift, "push")]
  BY <1>1 DEF WriteConfig
<1>5. QED
  <2>1. {"write config", "push"} \subseteq Labels BY DEF Labels
  <2>2. sync[p].wrote \in BOOLEAN BY <1>1 DEF Session
  <2>3. ("env" \in sync[p].drift) \in BOOLEAN
        /\ (sync[p].wrote \/ "config" \in sync[p].drift) \in BOOLEAN
    BY <2>2
  <2> HIDE DEF s
  <2>4. QED BY <1>2, <1>3, <1>4, <2>1, <2>3

(***************************************************************************)
(* What follows for the invariant whichever step p takes.                  *)
(***************************************************************************)
\* What any step of a sync under way leaves alone.
Kept == type' = type /\ attached' = attached /\ workspace' = workspace
        /\ begun' = begun /\ events' = events /\ installed \subseteq installed'

\* The types of what is on the host.
HostTyped ==
  /\ env \subseteq Secrets /\ config \in Configs
  /\ type # "zeroclaw" => ~ config.sections
  /\ installed \subseteq Tools /\ gitconfig \subseteq {"user", "helper"}
  /\ overlay \in Overlays \cup {"half"}
  /\ daemon \in [up : BOOLEAN, env : SUBSET Secrets, blocks : SUBSET {"slack"},
                 overlay : Overlays \cup {"half"}]
  /\ paired \in BOOLEAN

\* While p is not idle, no other sync is alone, and none has just ended well.
LEMMA Busy == ASSUME Inv, NEW p \in Procs, ~ At(p, "idle")
              PROVE  last = "none" /\ \A q \in Procs \ {p} : ~ sync[q].alone
  BY DEF Inv, Quiet, Aloof, At

\* A sync that is not alone stays sound whatever another does.
LEMMA OthersSound == ASSUME Inv, NEW q \in Procs, sync'[q] = sync[q], ~ sync[q].alone,
                            type' = type, installed \subseteq installed'
                     PROVE  Sound(sync[q])'
<1>1. Sound(sync[q]) BY DEF Inv, AllSound
<1>2. QED BY <1>1 DEF Sound, Attachable, EnvOf

\* An idle sync is sound.
LEMMA IdleSound == ASSUME NEW q \in Procs, sync'[q] = Idle
                   PROVE  Sound(sync[q])'
  BY DEF Sound, Idle, Preparing, Writing, Tooling

\* What has to be shown of a step that moves p on ...
LEMMA WalkKeeps == ASSUME Inv, NEW p \in Procs, ~ At(p, "idle"), Kept, Moves(p), last' = last,
                          sync'[p].alone => sync[p].alone,
                          Sound(sync[p])', sync'[p].wrote => sync'[p].drift # {},
                          HostTyped', ToolsBeforeRestart', Bearer'
                   PROVE  Inv'
<1>1. last' = "none" /\ \A q \in Procs \ {p} : ~ sync[q].alone BY Busy
<1>2. TypeOK'
  <2>1. TypeOK BY DEF Inv
  <2>2. \A q \in Procs : sync'[q].wrote => sync'[q].drift # {} BY <2>1 DEF TypeOK, Moves
  <2>3. QED BY <1>1, <2>1, <2>2 DEF TypeOK, HostTyped, Kept, Moves, Attachable
<1>3. AllSound'
  <2>1. \A q \in Procs \ {p} : Sound(sync[q])' BY <1>1, OthersSound DEF Moves, Kept
  <2>2. QED BY <2>1 DEF AllSound
<1>4. Aloof' BY <1>1 DEF Inv, Aloof, At, Moves
<1>5. QED BY <1>1, <1>2, <1>3, <1>4 DEF Inv, Quiet, HostCurrent

\* ... and of one that ends it badly.
LEMMA EndKeeps == ASSUME Inv, NEW p \in Procs, ~ At(p, "idle"), Kept, Ends(p), last' = last,
                         HostTyped', ToolsBeforeRestart', Bearer'
                  PROVE  Inv'
<1>1. Moves(p) /\ ~ sync'[p].alone /\ ~ sync'[p].wrote BY DEF Ends, Idle
<1>2. Sound(sync[p])' BY IdleSound DEF Ends
<1>3. QED BY <1>1, <1>2, WalkKeeps

\* A sync that ends well leaves the host current, if it was alone.
LEMMA SucceedKeeps == ASSUME Inv, NEW p \in Procs, ~ At(p, "idle"), Kept, Succeed(p),
                             HostTyped', ToolsBeforeRestart', Bearer',
                             sync[p].alone => HostCurrent'
                      PROVE  Inv'
<1>1. last = "none" /\ \A q \in Procs \ {p} : ~ sync[q].alone BY Busy
<1>2. Ends(p) BY SucceedEnds DEF Inv
<1>3. sync[p].kind \in Kinds BY Typed DEF Inv, Session
<1>4. CASE sync[p].alone
  <2>1. last' = sync[p].kind BY <1>4 DEF Succeed
  <2>2. \A q \in Procs \ {p} : sync[q].at = "idle" BY <1>4 DEF Inv, Aloof, At
  <2>3. \A q \in Procs : sync'[q].at = "idle" /\ ~ sync'[q].alone
    BY <1>1, <1>2, <2>2 DEF Ends, Moves, Idle
  <2>4. TypeOK'
    <3>1. TypeOK BY DEF Inv
    <3>2. \A q \in Procs : sync'[q].wrote => sync'[q].drift # {}
      BY <1>2, <3>1 DEF TypeOK, Ends, Moves, Idle
    <3>3. QED BY <1>2, <1>3, <2>1, <3>1, <3>2 DEF TypeOK, HostTyped, Kept, Ends, Moves, Attachable
  <2>5. AllSound'
    <3>1. \A q \in Procs \ {p} : Sound(sync[q])' BY <1>1, <1>2, OthersSound DEF Moves, Kept, Ends
    <3>2. Sound(sync[p])' BY <1>2, IdleSound DEF Ends
    <3>3. QED BY <3>1, <3>2 DEF AllSound
  <2>6. Aloof' /\ Quiet' BY <2>3 DEF Aloof, Quiet, At
  <2>7. QED BY <1>4, <2>4, <2>5, <2>6 DEF Inv
<1>5. CASE ~ sync[p].alone
  <2>1. last' = last BY <1>1, <1>5 DEF Succeed
  <2>2. QED BY <1>2, <2>1, EndKeeps
<1>6. QED BY <1>4, <1>5

\* Where the host stays as it is, its types and its tools do.
LEMMA HostSame == ASSUME Inv, UNCHANGED <<type, env, config, overlay, gitconfig, daemon, paired>>,
                         installed \subseteq installed', installed' \subseteq Tools
                  PROVE  HostTyped' /\ ToolsBeforeRestart' /\ Bearer'
<1>1. HostTyped' BY DEF HostTyped, Inv, TypeOK
<1>2. ToolsBeforeRestart' BY DEF Inv, ToolsBeforeRestart
<1>3. QED BY <1>1, <1>2 DEF Inv, Bearer

(***************************************************************************)
(* The steps.                                                              *)
(***************************************************************************)

\* Probe: a sync of the overlay alone goes to the push.
LEMMA ProbeKeeps == ASSUME Inv, NEW p \in Procs, Probe(p)
                    PROVE  Inv'
<1> DEFINE at == CASE sync[p].kind = "workspace only" -> "push"
                   [] sync[p].kind # "workspace only" /\ type = "zeroclaw" -> "sections"
                   [] OTHER -> "diff env"
<1>1. TypeOK /\ Sound(sync[p]) /\ sync[p] \in Session BY Typed DEF Inv, AllSound
<1>2. ~ At(p, "idle") /\ Kept /\ last' = last BY DEF Probe, At, Kept, local, remote, files
<1>3. at \in Labels BY DEF Labels
<1>4. Steps(p, at) BY <1>1, <1>3, GoSteps DEF Probe
<1>5. HostTyped' /\ ToolsBeforeRestart' /\ Bearer'
  BY <1>1, HostSame DEF Probe, local, remote, files, TypeOK
<1>6. sync[p].at = "probe" BY DEF Probe, At
<1>7. ~ sync[p].wrote BY <1>1, <1>6 DEF Sound, Writing
<1>8. Sound(sync[p])'
  BY <1>1, <1>4, <1>5, <1>6, <1>7
  DEF Steps, Walks, Probe, local, remote, files,
      Sound, Faithful, Compared, Delivered, Preparing, Tooling, Writing, RenderingOf, BlocksOf,
      EnvOf, Attachable
<1>9. QED BY <1>2, <1>4, <1>5, <1>7, <1>8, WalkKeeps DEF Steps, Walks

\* ReadSections: what zeroclaw completed is in what the sync renders.
LEMMA SectionsKeeps == ASSUME Inv, NEW p \in Procs, ReadSections(p)
                       PROVE  Inv'
<1>1. TypeOK /\ Sound(sync[p]) /\ sync[p] \in Session BY Typed DEF Inv, AllSound
<1>2. ~ At(p, "idle") /\ Kept /\ last' = last
  BY <1>1 DEF ReadSections, At, Kept, local, remote, files, TypeOK
<1>3. sync[p].at = "sections" BY DEF ReadSections, At
<1>4. Walks(p, "diff env", config.sections, sync[p].seen, sync[p].drift, sync[p].wrote)
  BY <1>1, ReadWalks
<1>5. HostTyped' /\ ToolsBeforeRestart' /\ Bearer'
  BY <1>1, <1>3, HostSame DEF ReadSections, local, remote, files, TypeOK
<1>6. sync'[p].wrote => sync'[p].drift # {}
  BY <1>1, <1>3, <1>4 DEF Steps, Walks, Sound, Writing
<1>7. Sound(sync[p])'
  BY <1>1, <1>3, <1>4, <1>5, <1>6
  DEF Steps, Walks, ReadSections, local, remote, files, TypeOK,
      Sound, Faithful, Compared, Delivered, Preparing, Tooling, Writing, RenderingOf, BlocksOf,
      EnvOf, Attachable
<1>8. QED BY <1>2, <1>4, <1>5, <1>6, <1>7, WalkKeeps DEF Steps, Walks

\* DiffEnv: the sync knows whether the environment file is the rendering.
LEMMA DiffEnvKeeps == ASSUME Inv, NEW p \in Procs, DiffEnv(p)
                      PROVE  Inv'
<1> DEFINE d == IF env = EnvOf(sync[p].inputs) THEN {} ELSE {"env"}
<1>1. TypeOK /\ Sound(sync[p]) /\ sync[p] \in Session BY Typed DEF Inv, AllSound
<1>2. ~ At(p, "idle") /\ Kept /\ last' = last
  BY <1>1 DEF DiffEnv, At, Kept, local, remote, files
<1>3. sync[p].at = "diff env" BY DEF DiffEnv, At
<1>4. Walks(p, "diff config", sync[p].sections, env, d, sync[p].wrote)
  BY <1>1, DiffEnvWalks
<1>5. HostTyped' /\ ToolsBeforeRestart' /\ Bearer'
  BY <1>1, HostSame DEF DiffEnv, local, remote, files, TypeOK
<1>6. ~ sync'[p].wrote BY <1>1, <1>3, <1>4 DEF Walks, Sound, Writing
<1>7. ("env" \in d <=> env # EnvOf(sync[p].inputs)) /\ "config" \notin d OBVIOUS
<1> HIDE DEF d
<1>8. sync[p].alone => Faithful(sync[p])'
  <2> SUFFICES ASSUME sync[p].alone PROVE Faithful(sync[p])'
    OBVIOUS
  <2>1. Faithful(sync[p]) BY <1>1 DEF Sound
  <2>2. sync'[p].at = "diff config" /\ sync'[p].inputs = sync[p].inputs /\ sync'[p].drift = d
    BY <1>4 DEF Walks
  <2>3. env' = env /\ attached' = attached /\ config' = config
    BY DEF DiffEnv, local, remote, files
  <2>4. Compared(sync[p])'
    BY <1>7, <2>2, <2>3 DEF Compared, Tooling, Preparing, EnvOf
  <2>5. Delivered(sync[p])' BY <2>2 DEF Delivered, Writing
  <2>6. QED BY <1>3, <1>4, <2>1, <2>2, <2>3, <2>4, <2>5 DEF Faithful, Walks, Tooling, Preparing
<1>9. Sound(sync[p])'
  <2>1. type' = type BY <1>2 DEF Kept
  <2>2. sync'[p].at = "diff config" /\ sync'[p].inputs = sync[p].inputs /\ sync'[p].drift = d
        /\ sync'[p].alone = sync[p].alone /\ sync'[p].sections = sync[p].sections
        /\ sync'[p].before = sync[p].before
    BY <1>4 DEF Walks
  <2>3. QED
    BY <1>1, <1>6, <1>7, <1>8, <2>1, <2>2 DEF Sound, Preparing, Tooling, Writing, Attachable
<1>10. QED BY <1>2, <1>4, <1>5, <1>6, <1>9, WalkKeeps DEF Walks

\* DiffConfig: a sync of a hermes agent that would remove a secret it saw ends here.
LEMMA DiffConfigKeeps == ASSUME Inv, NEW p \in Procs, DiffConfig(p)
                         PROVE  Inv'
<1>1. TypeOK /\ Sound(sync[p]) /\ sync[p] \in Session BY Typed DEF Inv, AllSound
<1>2. ~ At(p, "idle") /\ Kept /\ last' = last
  BY <1>1 DEF DiffConfig, At, Kept, local, remote, files
<1>3. sync[p].at = "diff config" BY DEF DiffConfig, At
<1>4. HostTyped' /\ ToolsBeforeRestart' /\ Bearer'
  BY <1>1, HostSame DEF DiffConfig, local, remote, files, TypeOK
<1>5. CASE RemovesSecrets(p)
  <2>1. Ends(p) BY <1>1, <1>5, EndEnds DEF DiffConfig
  <2>2. QED BY <1>2, <1>4, <2>1, EndKeeps
<1>6. CASE ~ RemovesSecrets(p)
  <2> DEFINE d == IF config = Rendered(p) THEN sync[p].drift ELSE sync[p].drift \cup {"config"}
  <2>1. Walks(p, AfterDiff, sync[p].sections, sync[p].seen, d, sync[p].wrote)
    BY <1>1, <1>6, DiffConfigWalks
  <2>2. ~ sync[p].wrote BY <1>1, <1>3 DEF Sound, Writing
  <2>3. \/ type = "openclaw" /\ AfterDiff = "plugins"
        \/ type = "hermes" /\ AfterDiff = "herdr"
        \/ type = "zeroclaw" /\ AfterDiff = "slack"
    BY <1>1 DEF AfterDiff, TypeOK, Types
  <2>4. type = "hermes" => sync[p].seen \subseteq EnvOf(sync[p].inputs)
    BY <1>6 DEF RemovesSecrets
  <2>5. type # "openclaw" => sync[p].inputs \cap {"brave"} = {}
    BY <1>1 DEF Sound, Attachable
  <2>6. AfterDiff \in Tooling \ (Preparing \cup Writing) BY <2>3 DEF Tooling, Preparing, Writing
  <2>7. "config" \in d <=> config # Rendered(p) BY <1>1, <1>3 DEF Sound
  <2>8. "env" \in d <=> "env" \in sync[p].drift OBVIOUS
  <2> HIDE DEF d
  <2>9. sync'[p].at = AfterDiff /\ sync'[p].inputs = sync[p].inputs /\ sync'[p].drift = d
        /\ sync'[p].alone = sync[p].alone /\ sync'[p].sections = sync[p].sections
        /\ sync'[p].before = sync[p].before /\ sync'[p].seen = sync[p].seen
        /\ sync'[p].wrote = sync[p].wrote
    BY <2>1 DEF Walks
  <2>10. env' = env /\ attached' = attached /\ config' = config /\ type' = type
         /\ installed' = installed
    BY DEF DiffConfig, local, remote, files
  <2>11. sync[p].alone => Faithful(sync[p])'
    <3> SUFFICES ASSUME sync[p].alone PROVE Faithful(sync[p])'
      OBVIOUS
    <3>1. Faithful(sync[p]) BY <1>1 DEF Sound
    <3>2. Compared(sync[p])'
      <4>1. "env" \in sync[p].drift <=> env # EnvOf(sync[p].inputs)
        BY <1>3, <3>1 DEF Faithful, Compared
      <4>2. RenderingOf(sync[p])' = Rendered(p)
        BY <2>9 DEF RenderingOf, Rendered, BlocksOf
      <4>3. EnvOf(sync[p].inputs)' = EnvOf(sync[p].inputs) BY <2>9 DEF EnvOf
      <4>4. QED BY <2>7, <2>8, <2>9, <2>10, <4>1, <4>2, <4>3 DEF Compared
    <3>3. Delivered(sync[p])' BY <2>6, <2>9 DEF Delivered, Writing, Tooling, Preparing
    <3>4. sync'[p].at \notin {"idle", "restart", "verify", "pair"}
      BY <2>6, <2>9 DEF Tooling, Preparing
    <3>5. QED BY <1>3, <2>9, <2>10, <3>1, <3>2, <3>3, <3>4 DEF Faithful
  <2>12. Sound(sync[p])'
    BY <1>1, <2>2, <2>3, <2>4, <2>5, <2>6, <2>9, <2>10, <2>11
    DEF Sound, Preparing, Tooling, Writing, Attachable, EnvOf
  <2>13. QED BY <1>2, <1>4, <2>1, <2>2, <2>12, WalkKeeps DEF Walks
<1>7. QED BY <1>5, <1>6

\* InstallPlugins: openclaw has the plugin before its secret is written.
LEMMA PluginsKeep == ASSUME Inv, NEW p \in Procs, InstallPlugins(p)
                     PROVE  Inv'
<1>1. TypeOK /\ Sound(sync[p]) /\ sync[p] \in Session BY Typed DEF Inv, AllSound
<1>2. ~ At(p, "idle") /\ Kept /\ last' = last
  BY <1>1 DEF InstallPlugins, At, Kept, local, remote, files, Install, TypeOK
<1>3. sync[p].at = "plugins" BY DEF InstallPlugins, At
<1>4. Steps(p, "onboard") BY <1>1, GoSteps DEF InstallPlugins, Labels
<1>5. HostTyped' /\ ToolsBeforeRestart' /\ Bearer'
  BY <1>1, <1>3, HostSame DEF InstallPlugins, local, remote, files, Install, TypeOK, Tools
<1>6. sync'[p].wrote => sync'[p].drift # {}
  BY <1>1, <1>3, <1>4 DEF Steps, Walks, Sound, Writing
<1>7. Sound(sync[p])'
  BY <1>1, <1>3, <1>4, <1>5, <1>6
  DEF Steps, Walks, InstallPlugins, local, remote, files, Install,
      Sound, Faithful, Compared, Delivered, Preparing, Tooling, Writing, RenderingOf, BlocksOf,
      EnvOf, Attachable
<1>8. QED BY <1>2, <1>4, <1>5, <1>6, <1>7, WalkKeeps DEF Steps, Walks

\* OnboardSandbox changes nothing that a property tells apart.
LEMMA OnboardKeeps == ASSUME Inv, NEW p \in Procs, OnboardSandbox(p)
                      PROVE  Inv'
<1>1. TypeOK /\ Sound(sync[p]) /\ sync[p] \in Session BY Typed DEF Inv, AllSound
<1>2. ~ At(p, "idle") /\ Kept /\ last' = last
  BY <1>1 DEF OnboardSandbox, At, Kept, local, remote, files, Install, TypeOK
<1>3. sync[p].at = "onboard" BY DEF OnboardSandbox, At
<1>4. Steps(p, "slack") BY <1>1, GoSteps DEF OnboardSandbox, Labels
<1>5. HostTyped' /\ ToolsBeforeRestart' /\ Bearer'
  BY <1>1, <1>3, HostSame DEF OnboardSandbox, local, remote, files, Install, TypeOK, Tools
<1>6. sync'[p].wrote => sync'[p].drift # {}
  BY <1>1, <1>3, <1>4 DEF Steps, Walks, Sound, Writing
<1>7. Sound(sync[p])'
  BY <1>1, <1>3, <1>4, <1>5, <1>6
  DEF Steps, Walks, OnboardSandbox, local, remote, files, Install,
      Sound, Faithful, Compared, Delivered, Preparing, Tooling, Writing, RenderingOf, BlocksOf,
      EnvOf, Attachable
<1>8. QED BY <1>2, <1>4, <1>5, <1>6, <1>7, WalkKeeps DEF Steps, Walks

\* ReconcileHerdr neither.
LEMMA HerdrKeeps == ASSUME Inv, NEW p \in Procs, ReconcileHerdr(p)
                    PROVE  Inv'
<1>1. TypeOK /\ Sound(sync[p]) /\ sync[p] \in Session BY Typed DEF Inv, AllSound
<1>2. ~ At(p, "idle") /\ Kept /\ last' = last
  BY <1>1 DEF ReconcileHerdr, At, Kept, local, remote, files, Install, TypeOK
<1>3. sync[p].at = "herdr" BY DEF ReconcileHerdr, At
<1>4. Steps(p, "slack") BY <1>1, GoSteps DEF ReconcileHerdr, Labels
<1>5. HostTyped' /\ ToolsBeforeRestart' /\ Bearer'
  BY <1>1, <1>3, HostSame DEF ReconcileHerdr, local, remote, files, Install, TypeOK, Tools
<1>6. sync'[p].wrote => sync'[p].drift # {}
  BY <1>1, <1>3, <1>4 DEF Steps, Walks, Sound, Writing
<1>7. Sound(sync[p])'
  BY <1>1, <1>3, <1>4, <1>5, <1>6
  DEF Steps, Walks, ReconcileHerdr, local, remote, files, Install,
      Sound, Faithful, Compared, Delivered, Preparing, Tooling, Writing, RenderingOf, BlocksOf,
      EnvOf, Attachable
<1>8. QED BY <1>2, <1>4, <1>5, <1>6, <1>7, WalkKeeps DEF Steps, Walks

\* InstallSlack: the Slack server is there before the config file names it.
LEMMA SlackKeeps == ASSUME Inv, NEW p \in Procs, InstallSlack(p)
                    PROVE  Inv'
<1>1. TypeOK /\ Sound(sync[p]) /\ sync[p] \in Session BY Typed DEF Inv, AllSound
<1>2. ~ At(p, "idle") /\ Kept /\ last' = last
  BY <1>1 DEF InstallSlack, At, Kept, local, remote, files, Install, TypeOK
<1>3. sync[p].at = "slack" BY DEF InstallSlack, At
<1>4. Steps(p, AfterTools(p)) BY <1>1, GoSteps DEF InstallSlack, AfterTools, Labels
<1>5. HostTyped' /\ ToolsBeforeRestart' /\ Bearer'
  BY <1>1, <1>3, HostSame DEF InstallSlack, local, remote, files, Install, TypeOK, Tools
<1>6. sync'[p].wrote => sync'[p].drift # {}
  BY <1>1, <1>3, <1>4 DEF Steps, Walks, Sound, Writing
<1>7. Sound(sync[p])'
  BY <1>1, <1>3, <1>4, <1>5, <1>6
  DEF Steps, Walks, InstallSlack, local, remote, files, Install, AfterTools,
      Sound, Faithful, Compared, Delivered, Preparing, Tooling, Writing, RenderingOf, BlocksOf,
      EnvOf, Attachable
<1>8. QED BY <1>2, <1>4, <1>5, <1>6, <1>7, WalkKeeps DEF Steps, Walks

\* WriteGitconfig: the identity is there, and the helper of gh has yet to be appended.
LEMMA GitconfigKeeps == ASSUME Inv, NEW p \in Procs, WriteGitconfig(p)
                        PROVE  Inv'
<1>1. TypeOK /\ Sound(sync[p]) /\ sync[p] \in Session BY Typed DEF Inv, AllSound
<1>2. ~ At(p, "idle") /\ Kept /\ last' = last
  BY <1>1 DEF WriteGitconfig, At, Kept, local, remote, files, TypeOK
<1>3. sync[p].at = "gitconfig" BY DEF WriteGitconfig, At
<1>4. Steps(p, IF "github" \in sync[p].inputs THEN "gh login" ELSE "write env")
  BY <1>1, GoSteps DEF WriteGitconfig, Labels
<1>5. HostTyped' /\ ToolsBeforeRestart' /\ Bearer'
  <2>1. HostTyped BY <1>1 DEF HostTyped, TypeOK
  <2>2. HostTyped' BY <2>1 DEF HostTyped, WriteGitconfig, local, Identity
  <2>3. QED BY <2>2 DEF WriteGitconfig, local, Inv, ToolsBeforeRestart, Bearer
<1>6. sync'[p].wrote => sync'[p].drift # {}
  BY <1>1, <1>3, <1>4 DEF Steps, Walks, Sound, Writing
<1>7. Sound(sync[p])'
  BY <1>1, <1>3, <1>4, <1>5, <1>6
  DEF Steps, Walks, WriteGitconfig, local, remote, files, Identity,
      Sound, Faithful, Compared, Delivered, Preparing, Tooling, Writing, RenderingOf, BlocksOf,
      EnvOf, Attachable
<1>8. QED BY <1>2, <1>4, <1>5, <1>6, <1>7, WalkKeeps DEF Steps, Walks

\* GhLogin changes nothing that a property tells apart.
LEMMA LoginKeeps == ASSUME Inv, NEW p \in Procs, GhLogin(p)
                    PROVE  Inv'
<1>1. TypeOK /\ Sound(sync[p]) /\ sync[p] \in Session BY Typed DEF Inv, AllSound
<1>2. ~ At(p, "idle") /\ Kept /\ last' = last
  BY <1>1 DEF GhLogin, At, Kept, local, remote, files, TypeOK
<1>3. sync[p].at = "gh login" BY DEF GhLogin, At
<1>4. Steps(p, "setup-git") BY <1>1, GoSteps DEF GhLogin, Labels
<1>5. HostTyped' /\ ToolsBeforeRestart' /\ Bearer'
  BY <1>1, <1>3, HostSame DEF GhLogin, local, remote, files, TypeOK
<1>6. sync'[p].wrote => sync'[p].drift # {}
  BY <1>1, <1>3, <1>4 DEF Steps, Walks, Sound, Writing
<1>7. Sound(sync[p])'
  BY <1>1, <1>3, <1>4, <1>5, <1>6
  DEF Steps, Walks, GhLogin, local, remote, files,
      Sound, Faithful, Compared, Delivered, Preparing, Tooling, Writing, RenderingOf, BlocksOf,
      EnvOf, Attachable
<1>8. QED BY <1>2, <1>4, <1>5, <1>6, <1>7, WalkKeeps DEF Steps, Walks

\* SetupGit: the helper is appended after the identity was written.
LEMMA SetupKeeps == ASSUME Inv, NEW p \in Procs, SetupGit(p)
                    PROVE  Inv'
<1>1. TypeOK /\ Sound(sync[p]) /\ sync[p] \in Session BY Typed DEF Inv, AllSound
<1>2. ~ At(p, "idle") /\ Kept /\ last' = last
  BY <1>1 DEF SetupGit, At, Kept, local, remote, files, TypeOK
<1>3. sync[p].at = "setup-git" BY DEF SetupGit, At
<1>4. Steps(p, "write env") BY <1>1, GoSteps DEF SetupGit, Labels
<1>5. HostTyped' /\ ToolsBeforeRestart' /\ Bearer'
  <2>1. HostTyped BY <1>1 DEF HostTyped, TypeOK
  <2>2. HostTyped' BY <2>1 DEF HostTyped, SetupGit, local, Identity
  <2>3. QED BY <2>2 DEF SetupGit, local, Inv, ToolsBeforeRestart, Bearer
<1>6. sync'[p].wrote => sync'[p].drift # {}
  BY <1>1, <1>3, <1>4 DEF Steps, Walks, Sound, Writing
<1>7. Sound(sync[p])'
  BY <1>1, <1>3, <1>4, <1>5, <1>6
  DEF Steps, Walks, SetupGit, local, remote, files,
      Sound, Faithful, Compared, Delivered, Preparing, Tooling, Writing, RenderingOf, BlocksOf,
      EnvOf, Attachable
<1>8. QED BY <1>2, <1>4, <1>5, <1>6, <1>7, WalkKeeps DEF Steps, Walks

\* WriteEnv: the environment file is the rendering, whether it was or is written.
LEMMA WriteEnvKeeps == ASSUME Inv, NEW p \in Procs, WriteEnv(p)
                       PROVE  Inv'
<1>1. TypeOK /\ Sound(sync[p]) /\ sync[p] \in Session BY Typed DEF Inv, AllSound
<1>2. ~ At(p, "idle") /\ Kept /\ last' = last
  BY <1>1 DEF WriteEnv, At, Kept, local, remote, files, TypeOK
<1>3. sync[p].at = "write env" BY DEF WriteEnv, At
<1>4. Walks(p, "write config", sync[p].sections, sync[p].seen, sync[p].drift,
             "env" \in sync[p].drift)
  BY <1>1, WriteWalks
<1>5. HostTyped' /\ ToolsBeforeRestart' /\ Bearer'
  <2>1. HostTyped BY <1>1 DEF HostTyped, TypeOK
  <2>2. EnvOf(sync[p].inputs) \subseteq Secrets BY DEF EnvOf, Secrets
  <2>3. HostTyped' BY <2>1, <2>2 DEF HostTyped, WriteEnv, local
  <2>4. sync[p].inputs \cap {"brave"} \subseteq installed BY <1>1, <1>3 DEF Sound, Preparing
  <2>5. EnvOf(sync[p].inputs) \cap Tools \subseteq installed BY <2>4 DEF EnvOf, Tools
  <2>6. ToolsBeforeRestart' BY <2>5 DEF Inv, ToolsBeforeRestart, WriteEnv
  <2>7. QED BY <2>3, <2>6 DEF WriteEnv, local, Inv, Bearer
<1>6. sync'[p].wrote => sync'[p].drift # {}
  BY <1>4 DEF Walks
<1>7. Sound(sync[p])'
  BY <1>1, <1>3, <1>4, <1>5, <1>6
  DEF Steps, Walks, WriteEnv, local, remote, files,
      Sound, Faithful, Compared, Delivered, Preparing, Tooling, Writing, RenderingOf, BlocksOf,
      EnvOf, Attachable
<1>8. QED BY <1>2, <1>4, <1>5, <1>6, <1>7, WalkKeeps DEF Steps, Walks

\* WriteConfig: the config file is the rendering, whether it was or is written.
LEMMA WriteConfigKeeps == ASSUME Inv, NEW p \in Procs, WriteConfig(p)
                          PROVE  Inv'
<1>1. TypeOK /\ Sound(sync[p]) /\ sync[p] \in Session BY Typed DEF Inv, AllSound
<1>2. ~ At(p, "idle") /\ Kept /\ last' = last
  BY <1>1 DEF WriteConfig, At, Kept, local, remote, files, TypeOK
<1>3. sync[p].at = "write config" BY DEF WriteConfig, At
<1>4. Walks(p, "push", sync[p].sections, sync[p].seen, sync[p].drift,
             sync[p].wrote \/ "config" \in sync[p].drift)
  BY <1>1, WriteWalks
<1>5. HostTyped' /\ ToolsBeforeRestart' /\ Bearer'
  <2>1. HostTyped BY <1>1 DEF HostTyped, TypeOK
  <2>2. Rendered(p) \in Configs /\ (type # "zeroclaw" => ~ Rendered(p).sections)
    BY <1>1 DEF Rendered, Configs, BlocksOf, Sound, Session
  <2>3. HostTyped' BY <2>1, <2>2 DEF HostTyped, WriteConfig, local
  <2>4. sync[p].inputs \cap {"slack"} \subseteq installed BY <1>1, <1>3 DEF Sound, Preparing
  <2>5. Rendered(p).blocks \subseteq installed BY <2>4 DEF Rendered, BlocksOf
  <2>6. ToolsBeforeRestart' BY <2>5 DEF Inv, ToolsBeforeRestart, WriteConfig
  <2>7. QED BY <2>3, <2>6 DEF WriteConfig, local, Inv, Bearer
<1>6. sync'[p].wrote => sync'[p].drift # {}
  BY <1>1, <1>4 DEF Walks, TypeOK
<1>7. Sound(sync[p])'
  BY <1>1, <1>3, <1>4, <1>5, <1>6
  DEF Steps, Walks, WriteConfig, local, remote, files, Rendered,
      Sound, Faithful, Compared, Delivered, Preparing, Tooling, Writing, RenderingOf, BlocksOf,
      EnvOf, Attachable
<1>8. QED BY <1>2, <1>4, <1>5, <1>6, <1>7, WalkKeeps DEF Steps, Walks

\* What is on the host keeps its types.
LEMMA HostIsTyped == ASSUME Inv PROVE HostTyped
  BY DEF Inv, TypeOK, HostTyped

\* A sync that was alone and did not only push has delivered both files and the identities.
LEMMA DeliveredHost ==
  ASSUME Inv, NEW p \in Procs, sync[p].alone, sync[p].at \in Writing \ {"write config"},
         sync[p].kind # "workspace only"
  PROVE  /\ env = EnvOf(attached) /\ config.blocks = BlocksOf(attached)
         /\ "git" \in attached => "user" \in gitconfig
         /\ "github" \in attached => "helper" \in gitconfig
<1>1. Faithful(sync[p]) BY DEF Inv, AllSound, Sound
<1>2. Delivered(sync[p]) /\ sync[p].inputs = attached BY <1>1 DEF Faithful
<1>3. config = RenderingOf(sync[p]) BY <1>2 DEF Delivered
<1>4. QED BY <1>2, <1>3 DEF Delivered, RenderingOf, Writing

\* Push: after it the overlay of the host is the workspace, and a sync ends here or goes on
\* to restart or to pair.
LEMMA PushKeeps == ASSUME Inv, NEW p \in Procs, Push(p)
                   PROVE  Inv'
<1>1. TypeOK /\ Sound(sync[p]) /\ sync[p] \in Session BY Typed DEF Inv, AllSound
<1>2. sync[p].at = "push" /\ ~ At(p, "idle") /\ Kept BY <1>1 DEF Push, At, Kept, TypeOK, local
<1>3. HostTyped' BY <1>1, HostIsTyped DEF HostTyped, Push, TypeOK, Overlays, local
<1>4. ToolsBeforeRestart' /\ Bearer' BY DEF Push, Inv, ToolsBeforeRestart, Bearer, local
<1>5. workspace' \in {"none", overlay'} BY DEF Push, local
<1>6. CASE AfterPush(p) = "end"
  <2>1. Succeed(p) BY <1>6 DEF Push
  <2>2. type # "zeroclaw"
    BY <1>6 DEF AfterPush
  <2>3. sync[p].alone => HostCurrent'
    <3> SUFFICES ASSUME sync[p].alone PROVE HostCurrent'
      OBVIOUS
    <3>1. last' = sync[p].kind BY <2>1 DEF Succeed
    <3>2. last' \in {"full", "no restart"} =>
            /\ env = EnvOf(attached) /\ config.blocks = BlocksOf(attached)
            /\ "git" \in attached => "user" \in gitconfig
            /\ "github" \in attached => "helper" \in gitconfig
      BY <1>2, <3>1, DeliveredHost DEF Writing
    <3>3. paired' BY <2>2 DEF Push, Inv, Bearer
    <3>4. QED BY <1>5, <3>2, <3>3 DEF HostCurrent, Push, EnvOf, BlocksOf, local
  <2>4. QED BY <1>2, <1>3, <1>4, <2>1, <2>3, SucceedKeeps
<1>7. CASE AfterPush(p) # "end"
  <2>1. AfterPush(p) \in {"restart", "pair"} BY <1>7 DEF AfterPush
  <2>2. last' = last /\ Go(p, AfterPush(p)) BY <1>7 DEF Push
  <2>3. Steps(p, AfterPush(p)) BY <1>1, <2>1, <2>2, GoSteps DEF Labels
  <2>4. Sound(sync[p])'
    <3>1. sync'[p].at \in {"restart", "pair"} /\ sync'[p].inputs = sync[p].inputs
          /\ sync'[p].alone = sync[p].alone /\ sync'[p].sections = sync[p].sections
          /\ sync'[p].before = sync[p].before /\ sync'[p].kind = sync[p].kind
      BY <2>1, <2>3 DEF Steps, Walks
    <3>2. type' = type /\ attached' = attached /\ env' = env /\ config' = config
          /\ gitconfig' = gitconfig
      BY DEF Push, local
    <3>3. sync[p].alone => Faithful(sync[p])'
      BY <1>1, <1>2, <1>5, <3>1, <3>2
      DEF Sound, Faithful, Compared, Delivered, RenderingOf, BlocksOf, EnvOf, Writing, Tooling,
          Preparing
    <3>4. QED BY <1>1, <3>1, <3>2, <3>3 DEF Sound, Attachable, Writing, Tooling, Preparing
  <2>5. sync'[p].wrote => sync'[p].drift # {} BY <1>1, <2>3 DEF Steps, Walks, TypeOK
  <2>6. QED BY <1>2, <1>3, <1>4, <2>2, <2>3, <2>4, <2>5, WalkKeeps DEF Steps, Walks
<1>8. QED BY <1>6, <1>7

\* PushFails leaves an overlay that is neither the old nor the new one.
LEMMA PushFailsKeeps == ASSUME Inv, NEW p \in Procs, PushFails(p)
                        PROVE  Inv'
<1>1. TypeOK BY DEF Inv
<1>2. ~ At(p, "idle") /\ Kept /\ last' = last BY <1>1 DEF PushFails, At, Kept, local, TypeOK
<1>3. HostTyped' BY HostIsTyped DEF HostTyped, PushFails, local
<1>4. ToolsBeforeRestart' /\ Bearer' BY DEF PushFails, Inv, ToolsBeforeRestart, Bearer, local
<1>5. Ends(p) BY <1>1, EndEnds DEF PushFails
<1>6. QED BY <1>2, <1>3, <1>4, <1>5, EndKeeps

\* The daemon that starts reads files whose tools are there.
LEMMA StartsSound == ASSUME Inv, NEW up \in BOOLEAN
                     PROVE  LET d == [Started EXCEPT !.up = up]
                            IN  /\ d \in [up : BOOLEAN, env : SUBSET Secrets,
                                          blocks : SUBSET {"slack"},
                                          overlay : Overlays \cup {"half"}]
                                /\ (d.blocks \cup d.env) \cap Tools \subseteq installed
<1> DEFINE d == [Started EXCEPT !.up = up]
<1>1. d = [up |-> up, env |-> env, blocks |-> config.blocks, overlay |-> overlay] BY DEF Started
<1>2. env \subseteq Secrets /\ config.blocks \subseteq {"slack"} /\ overlay \in Overlays \cup {"half"}
  BY DEF Inv, TypeOK, Configs
<1>3. (config.blocks \cup env) \cap Tools \subseteq installed BY DEF Inv, ToolsBeforeRestart
<1>4. QED BY <1>1, <1>2, <1>3

\* A step that (re)starts the daemon keeps what is on the host typed, and its tools there.
LEMMA StartKeepsHost ==
  ASSUME Inv, NEW up \in BOOLEAN, daemon' = [Started EXCEPT !.up = up],
         paired' = (type # "zeroclaw"), UNCHANGED <<local, files, installed>>
  PROVE  HostTyped' /\ ToolsBeforeRestart' /\ Bearer'
<1> DEFINE d == [Started EXCEPT !.up = up]
<1>1. d \in [up : BOOLEAN, env : SUBSET Secrets, blocks : SUBSET {"slack"},
             overlay : Overlays \cup {"half"}]
      /\ (d.blocks \cup d.env) \cap Tools \subseteq installed
  BY StartsSound
<1> HIDE DEF d
<1>2. daemon' = d BY DEF d
<1>3. HostTyped' BY <1>1, <1>2, HostIsTyped DEF HostTyped, local, files
<1>4. ToolsBeforeRestart' BY <1>1, <1>2 DEF Inv, ToolsBeforeRestart, local, files
<1>5. QED BY <1>3, <1>4 DEF Bearer, local

\* Restart: the daemon is started on what is there, and zeroclaw has to be paired again.
LEMMA RestartKeeps == ASSUME Inv, NEW p \in Procs, Restart(p)
                      PROVE  Inv'
<1>1. TypeOK /\ Sound(sync[p]) /\ sync[p] \in Session BY Typed DEF Inv, AllSound
<1>2. ~ At(p, "idle") /\ Kept /\ last' = last /\ sync[p].at = "restart"
  BY <1>1 DEF Restart, At, Kept, local, TypeOK
<1>3. HostTyped' /\ ToolsBeforeRestart' /\ Bearer'
  <2>1. [Started EXCEPT !.up = TRUE] = Started
    <3>1. \A up \in BOOLEAN :
            [Started EXCEPT !.up = up] =
              [up |-> up, env |-> env, blocks |-> config.blocks, overlay |-> overlay]
      BY DEF Started
    <3>2. QED BY <3>1, Zenon DEF Started
  <2>2. daemon' = Started BY DEF Restart
  <2>3. daemon' = [Started EXCEPT !.up = TRUE] BY <2>1, <2>2
  <2>4. QED BY <2>3, StartKeepsHost DEF Restart
<1>4. Steps(p, "verify") BY <1>1, GoSteps DEF Restart, Labels
<1>5. Sound(sync[p])'
  BY <1>1, <1>2, <1>4
  DEF Steps, Walks, Restart, local, files, Sound, Faithful, Compared, Delivered, Preparing,
      Tooling, Writing, RenderingOf, BlocksOf, EnvOf, Attachable
<1>6. sync'[p].wrote => sync'[p].drift # {} BY <1>1, <1>4 DEF Steps, Walks, TypeOK
<1>7. QED BY <1>2, <1>3, <1>4, <1>5, <1>6, WalkKeeps DEF Steps, Walks

\* RestartFails: the daemon is down, on files whose tools are there.
LEMMA RestartFailsKeeps == ASSUME Inv, NEW p \in Procs, RestartFails(p)
                           PROVE  Inv'
<1>1. TypeOK BY DEF Inv
<1>2. ~ At(p, "idle") /\ Kept /\ last' = last
  BY <1>1 DEF RestartFails, At, Kept, local, TypeOK
<1>3. HostTyped' /\ ToolsBeforeRestart' /\ Bearer' BY StartKeepsHost DEF RestartFails
<1>4. Ends(p) BY <1>1, EndEnds DEF RestartFails
<1>5. QED BY <1>2, <1>3, <1>4, EndKeeps

\* Verify: a sync of zeroclaw goes on to pair, the others end well.
LEMMA VerifyKeeps == ASSUME Inv, NEW p \in Procs, Verify(p)
                     PROVE  Inv'
<1>1. TypeOK /\ Sound(sync[p]) /\ sync[p] \in Session BY Typed DEF Inv, AllSound
<1>2. ~ At(p, "idle") /\ Kept /\ sync[p].at = "verify"
  BY <1>1 DEF Verify, At, Kept, local, remote, TypeOK
<1>3. HostTyped' /\ ToolsBeforeRestart' /\ Bearer'
  BY <1>1, HostSame DEF Verify, local, remote, files, TypeOK
<1>4. CASE type = "zeroclaw"
  <2>1. last' = last /\ Go(p, "pair") BY <1>4 DEF Verify
  <2>2. Steps(p, "pair") BY <1>1, <2>1, GoSteps DEF Labels
  <2>3. Sound(sync[p])'
    BY <1>1, <1>2, <2>2
    DEF Steps, Walks, Verify, local, remote, files, Sound, Faithful, Compared, Delivered,
        Preparing, Tooling, Writing, RenderingOf, BlocksOf, EnvOf, Attachable
  <2>4. sync'[p].wrote => sync'[p].drift # {} BY <1>1, <2>2 DEF Steps, Walks, TypeOK
  <2>5. QED BY <1>2, <1>3, <2>1, <2>2, <2>3, <2>4, WalkKeeps DEF Steps, Walks
<1>5. CASE type # "zeroclaw"
  <2>1. Succeed(p) BY <1>5 DEF Verify
  <2>2. sync[p].alone => HostCurrent'
    <3> SUFFICES ASSUME sync[p].alone PROVE HostCurrent'
      OBVIOUS
    <3>1. last' = sync[p].kind BY <2>1 DEF Succeed
    <3>2. last' \in {"full", "no restart"} =>
            /\ env = EnvOf(attached) /\ config.blocks = BlocksOf(attached)
            /\ "git" \in attached => "user" \in gitconfig
            /\ "github" \in attached => "helper" \in gitconfig
      BY <1>2, <3>1, DeliveredHost DEF Writing
    <3>3. workspace \in {"none", overlay} BY <1>1, <1>2 DEF Sound, Faithful
    <3>4. paired BY <1>5 DEF Inv, Bearer
    <3>5. QED
      BY <3>2, <3>3, <3>4 DEF HostCurrent, Verify, local, remote, files, EnvOf, BlocksOf
  <2>3. QED BY <1>2, <1>3, <2>1, <2>2, SucceedKeeps
<1>6. QED BY <1>4, <1>5

\* Pair: the bearer that is recorded is the one the daemon takes.
LEMMA PairKeeps == ASSUME Inv, NEW p \in Procs, Pair(p)
                   PROVE  Inv'
<1>1. TypeOK /\ Sound(sync[p]) /\ sync[p] \in Session BY Typed DEF Inv, AllSound
<1>2. ~ At(p, "idle") /\ Kept /\ sync[p].at = "pair" /\ Succeed(p)
  BY <1>1 DEF Pair, At, Kept, local, TypeOK
<1>3. HostTyped' BY HostIsTyped DEF Pair, local, files, HostTyped
<1>4. ToolsBeforeRestart' /\ Bearer' BY DEF Pair, local, files, Inv, ToolsBeforeRestart, Bearer
<1>5. sync[p].alone => HostCurrent'
  <2> SUFFICES ASSUME sync[p].alone PROVE HostCurrent'
    OBVIOUS
  <2>1. last' = sync[p].kind BY <1>2 DEF Succeed
  <2>2. last' \in {"full", "no restart"} =>
          /\ env = EnvOf(attached) /\ config.blocks = BlocksOf(attached)
          /\ "git" \in attached => "user" \in gitconfig
          /\ "github" \in attached => "helper" \in gitconfig
    BY <1>2, <2>1, DeliveredHost DEF Writing
  <2>3. workspace \in {"none", overlay} BY <1>1, <1>2 DEF Sound, Faithful
  <2>4. QED BY <2>2, <2>3 DEF HostCurrent, Pair, local, files, EnvOf, BlocksOf
<1>6. QED BY <1>2, <1>3, <1>4, <1>5, SucceedKeeps

\* Fail: what is done stays done, and the sync ends.
LEMMA FailKeeps == ASSUME Inv, NEW p \in Procs, Fail(p)
                   PROVE  Inv'
<1>1. TypeOK BY DEF Inv
<1>2. ~ At(p, "idle") /\ Kept /\ last' = last BY DEF Fail, Kept, local, remote
<1>3. HostTyped' /\ ToolsBeforeRestart' /\ Bearer'
  BY <1>1, HostSame DEF Fail, local, remote, files, TypeOK
<1>4. Ends(p) BY <1>1, EndEnds DEF Fail
<1>5. QED BY <1>2, <1>3, <1>4, EndKeeps

(***************************************************************************)
(* What disturbs a sync: the begin of another, and what else happens.      *)
(***************************************************************************)
\* s is t, disturbed: no longer alone, and otherwise where it was.
Shaken(s, t) ==
  /\ s \in Session /\ ~ s.alone
  /\ s.at = t.at /\ s.kind = t.kind /\ s.inputs = t.inputs /\ s.sections = t.sections
  /\ s.before = t.before /\ s.seen = t.seen /\ s.drift = t.drift /\ s.wrote = t.wrote
\* Disturbed does so to every sync.
LEMMA DisturbedShaken == ASSUME Inv, NEW q \in Procs
                         PROVE  Shaken(Disturbed(sync)[q], sync[q])
<1>1. sync[q] \in Session BY Typed DEF Inv
<1>2. CASE sync[q].at = "idle"
  <2>1. ~ sync[q].alone BY <1>2 DEF Inv, AllSound, Sound, Faithful
  <2>2. Disturbed(sync)[q] = sync[q] BY <1>2 DEF Disturbed
  <2>3. QED BY <1>1, <2>1, <2>2 DEF Shaken
<1>3. CASE sync[q].at # "idle"
  <2> DEFINE s == [sync[q] EXCEPT !.alone = FALSE]
  <2>1. Disturbed(sync)[q] = s BY <1>3 DEF Disturbed
  <2>2. Shaken(s, sync[q]) BY <1>1 DEF Shaken, Session
  <2>3. QED BY <2>1, <2>2
<1>4. QED BY <1>2, <1>3

\* A disturbed sync stays sound whatever has happened to the host or here.
LEMMA ShakenSound == ASSUME Inv, NEW q \in Procs, Shaken(sync'[q], sync[q]),
                            type' = type, installed \subseteq installed'
                     PROVE  Sound(sync[q])'
<1>1. Sound(sync[q]) BY DEF Inv, AllSound
<1>2. QED BY <1>1 DEF Sound, Shaken, Attachable, EnvOf

\* Begin: a sync reads what is attached; it is alone when all others are idle.
LEMMA BeginKeeps == ASSUME Inv, NEW p \in Procs, Begin(p)
                    PROVE  Inv'
<1>1. TypeOK /\ sync \in [Procs -> Session] BY Typed DEF Inv
<1>2. PICK kind \in Kinds :
        sync' = [Disturbed(sync) EXCEPT ![p] =
                   [Idle EXCEPT !.at = "probe", !.kind = kind, !.inputs = attached,
                                !.before = config.sections,
                                !.alone = \A q \in Procs : At(q, "idle")]]
  BY DEF Begin
<1> DEFINE alone == \A q \in Procs : At(q, "idle")
<1> DEFINE s == [Idle EXCEPT !.at = "probe", !.kind = kind, !.inputs = attached,
                             !.before = config.sections, !.alone = alone]
<1>3. attached \subseteq Integrations /\ config.sections \in BOOLEAN
  BY <1>1 DEF TypeOK, Attachable, Configs
<1>4. alone \in BOOLEAN OBVIOUS
<1>5. \A b, a \in BOOLEAN :
        LET t == [Idle EXCEPT !.at = "probe", !.kind = kind, !.inputs = attached,
                              !.before = b, !.alone = a]
        IN  /\ t \in Session /\ t.at = "probe" /\ t.inputs = attached /\ ~ t.sections
            /\ t.before = b /\ ~ t.wrote /\ t.alone = a
  <2> TAKE b, a \in BOOLEAN
  <2> DEFINE t == [Idle EXCEPT !.at = "probe", !.kind = kind, !.inputs = attached,
                               !.before = b, !.alone = a]
  <2>1. "probe" \in Labels
    BY DEF Labels
  <2>2. t \in Session
    BY <2>1, <1>3, IdleSession DEF Session
  <2>3. t.at = "probe" /\ t.inputs = attached /\ t.before = b /\ t.alone = a
    BY IdleSession DEF Session
  <2>4. ~ t.sections /\ ~ t.wrote
    BY DEF Idle
  <2> HIDE DEF t
  <2> QED
    BY <2>2, <2>3, <2>4 DEF t
<1>6. /\ s \in Session /\ s.at = "probe" /\ s.inputs = attached /\ ~ s.sections
      /\ s.before = config.sections /\ ~ s.wrote /\ s.alone = alone
  <2> HIDE DEF alone
  <2>1. QED BY <1>3, <1>4, <1>5
<1>7. Disturbed(sync) \in [Procs -> Session]
  <2>1. \A q \in Procs : Disturbed(sync)[q] \in Session BY DisturbedShaken DEF Shaken
  <2>2. QED BY <2>1 DEF Disturbed
<1>8. sync'[p] = s /\ \A q \in Procs \ {p} : sync'[q] = Disturbed(sync)[q]
  BY <1>2, <1>7
<1>9. \A q \in Procs \ {p} : Shaken(sync'[q], sync[q]) BY <1>8, DisturbedShaken
<1>10. sync' \in [Procs -> Session] BY <1>2, <1>6, <1>7
<1>11. sync'[p].at = "probe" /\ sync'[p].inputs = attached /\ ~ sync'[p].sections
       /\ sync'[p].before = config.sections /\ ~ sync'[p].wrote /\ sync'[p].alone = alone
  <2> HIDE DEF alone, s
  <2>1. QED BY <1>6, <1>8
<1> HIDE DEF s
<1>12. /\ UNCHANGED <<type, attached, workspace, env, config, gitconfig, overlay, installed,
                      daemon, paired, events>>
       /\ last' = "none" /\ begun' = begun + 1 /\ begun < MaxSyncs
  BY DEF Begin, local, remote, files
<1>13. HostTyped' /\ ToolsBeforeRestart' /\ Bearer' BY <1>1, <1>12, HostSame DEF TypeOK
<1>14. TypeOK'
  <2>1. \A q \in Procs : sync'[q].wrote => sync'[q].drift # {}
    BY <1>1, <1>9, <1>11 DEF TypeOK, Shaken
  <2>2. begun' \in 0 .. MaxSyncs BY <1>1, <1>12, BoundsAssumption DEF TypeOK
  <2>3. QED BY <1>1, <1>10, <1>12, <1>13, <2>1, <2>2 DEF TypeOK, HostTyped, Attachable
<1>15. AllSound'
  <2>1. \A q \in Procs \ {p} : Sound(sync[q])' BY <1>9, <1>12, ShakenSound
  <2>2. Faithful(sync[p])'
    BY <1>11, <1>12
    DEF Faithful, Compared, Delivered, Writing, Tooling, Preparing
  <2>3. type # "zeroclaw" => ~ config.sections BY <1>1 DEF TypeOK
  <2>4. attached \subseteq Attachable BY <1>1 DEF TypeOK
  <2>5. Sound(sync[p])'
    BY <1>11, <1>12, <2>2, <2>3, <2>4 DEF Sound, Writing, Tooling, Preparing, Attachable
  <2>6. QED BY <2>1, <2>5 DEF AllSound
<1>16. Aloof'
  <2>1. \A q \in Procs \ {p} : ~ sync'[q].alone /\ sync'[q].at = sync[q].at
    BY <1>9 DEF Shaken
  <2>2. QED BY <1>11, <2>1 DEF Aloof, At
<1>17. Quiet' /\ HostCurrent' BY <1>12 DEF Quiet, HostCurrent
<1>18. QED BY <1>13, <1>14, <1>15, <1>16, <1>17 DEF Inv

\* What has to be shown of an event.
LEMMA EventKeeps == ASSUME Inv, Event, type' = type, attached' \subseteq Attachable,
                           workspace' \in Overlays, installed' = installed, begun' = begun,
                           HostTyped', ToolsBeforeRestart', Bearer'
                    PROVE  Inv'
<1>1. TypeOK /\ sync \in [Procs -> Session] BY Typed DEF Inv, TypeOK
<1>2. \A q \in Procs : Shaken(sync'[q], sync[q]) BY DisturbedShaken DEF Event
<1>3. last' = "none" /\ events' \in 0 .. MaxEvents
  BY <1>1, BoundsAssumption DEF Event, TypeOK
<1>4. TypeOK'
  <2>1. sync' \in [Procs -> Session] BY <1>2 DEF Event, Disturbed, Shaken
  <2>2. \A q \in Procs : sync'[q].wrote => sync'[q].drift # {}
    BY <1>1, <1>2 DEF TypeOK, Shaken
  <2>3. QED BY <1>1, <1>3, <2>1, <2>2 DEF TypeOK, HostTyped, Attachable
<1>5. AllSound' BY <1>2, ShakenSound DEF AllSound
<1>6. Aloof' BY <1>2 DEF Aloof, Shaken
<1>7. QED BY <1>3, <1>4, <1>5, <1>6 DEF Inv, Quiet, HostCurrent

\* Another attachment or another workspace: no sync that runs is alone any more.
LEMMA EditLocalKeeps == ASSUME Inv, EditLocal PROVE Inv'
<1>1. TypeOK BY DEF Inv
<1>2. UNCHANGED <<type, env, config, overlay, gitconfig, daemon, paired, installed, begun>>
  BY DEF EditLocal, remote, files
<1>3. HostTyped' /\ ToolsBeforeRestart' /\ Bearer' BY <1>1, <1>2, HostSame DEF TypeOK
<1>4. attached' \subseteq Attachable /\ workspace' \in Overlays
  BY <1>1 DEF EditLocal, TypeOK, Overlays
<1>5. QED BY <1>2, <1>3, <1>4, EventKeeps DEF EditLocal

\* The operator's secret needs no tool.
LEMMA EditHostKeeps == ASSUME Inv, EditHost PROVE Inv'
<1>1. TypeOK BY DEF Inv
<1>2. UNCHANGED <<type, attached, workspace, config, overlay, gitconfig, daemon, paired,
                  installed, begun>> /\ env' = env \cup {"own"}
  BY DEF EditHost, local
<1>3. HostTyped' BY <1>2, HostIsTyped DEF HostTyped, Secrets
<1>4. ToolsBeforeRestart' BY <1>2 DEF Inv, ToolsBeforeRestart, Tools
<1>5. Bearer' BY <1>2 DEF Inv, Bearer
<1>6. QED BY <1>1, <1>2, <1>3, <1>4, <1>5, EventKeeps DEF EditHost, TypeOK

\* zeroclaw writes that its onboarding is complete, and changes no block.
LEMMA CompleteKeeps == ASSUME Inv, CompleteOnboarding PROVE Inv'
<1>1. TypeOK BY DEF Inv
<1>2. UNCHANGED <<type, attached, workspace, env, overlay, gitconfig, daemon, paired,
                  installed, begun>> /\ type = "zeroclaw"
  BY DEF CompleteOnboarding, local
<1>3. config' \in Configs /\ config'.blocks = config.blocks
  BY <1>1 DEF CompleteOnboarding, TypeOK, Configs
<1>4. HostTyped' BY <1>2, <1>3, HostIsTyped DEF HostTyped
<1>5. ToolsBeforeRestart' BY <1>2, <1>3 DEF Inv, ToolsBeforeRestart
<1>6. Bearer' BY <1>2 DEF Bearer
<1>7. QED BY <1>1, <1>2, <1>4, <1>5, <1>6, EventKeeps DEF CompleteOnboarding, TypeOK

\* A daemon that starts by itself reads what is there.
LEMMA OutsideKeeps == ASSUME Inv, RestartOutside PROVE Inv'
<1>1. TypeOK BY DEF Inv
<1>2. UNCHANGED <<local, files, installed, begun>> /\ daemon' = Started
      /\ paired' = (type # "zeroclaw")
  BY DEF RestartOutside
<1>3. daemon' = [Started EXCEPT !.up = TRUE]
  <2>1. \A up \in BOOLEAN :
          [Started EXCEPT !.up = up] =
            [up |-> up, env |-> env, blocks |-> config.blocks, overlay |-> overlay]
    BY DEF Started
  <2>2. [Started EXCEPT !.up = TRUE] = Started BY <2>1, Zenon DEF Started
  <2>3. QED BY <1>2, <2>2
<1>4. HostTyped' /\ ToolsBeforeRestart' /\ Bearer' BY <1>2, <1>3, StartKeepsHost
<1>5. QED BY <1>1, <1>2, <1>4, EventKeeps DEF RestartOutside, TypeOK, local

(***************************************************************************)
(* The theorems.                                                           *)
(***************************************************************************)
\* Inv holds at first, when no sync runs.
LEMMA Initially == Init => Inv
<1> SUFFICES ASSUME Init PROVE Inv
  OBVIOUS
<1>1. \A p \in Procs : sync[p] = Idle BY DEF Init
<1>2. TypeOK
  <2>1. sync \in [Procs -> Session] BY IdleSession DEF Init
  <2>2. \A p \in Procs : ~ sync[p].wrote BY <1>1 DEF Idle
  <2>3. daemon \in [up : BOOLEAN, env : SUBSET Secrets, blocks : SUBSET {"slack"},
                    overlay : Overlays \cup {"half"}]
    BY DEF Init, Overlays
  <2>4. QED
    BY <2>1, <2>2, <2>3, BoundsAssumption DEF TypeOK, Init, Configs, Overlays, Attachable
<1>3. ASSUME NEW p \in Procs PROVE Sound(sync[p])
  <2>1. sync[p] = Idle BY <1>1
  <2>2. QED BY <2>1 DEF Sound, Idle, Preparing, Writing, Tooling
<1>4. \A p \in Procs : ~ sync[p].alone BY <1>1 DEF Idle
<1>5. QED
  BY <1>2, <1>3, <1>4
  DEF Inv, AllSound, Aloof, At, Quiet, Bearer, ToolsBeforeRestart, HostCurrent, Init

\* Inv speaks of the variables alone.
LEMMA Stuttering == Inv /\ UNCHANGED vars => Inv'
<1> SUFFICES ASSUME Inv, UNCHANGED vars PROVE Inv'
  OBVIOUS
<1>1. UNCHANGED <<type, attached, workspace, env, config, installed, gitconfig, overlay, daemon,
                  paired, sync, last, begun, events>>
  BY DEF vars, local, remote, files
<1>2. TypeOK' BY <1>1 DEF Inv, TypeOK, Attachable
<1>3. AllSound'
  BY ZenonT(60), <1>1
  DEF Inv, AllSound, Sound, Faithful, Compared, Delivered, RenderingOf, BlocksOf, EnvOf, Attachable
<1>4. QED
  BY <1>1, <1>2, <1>3
  DEF Inv, Aloof, Quiet, Bearer, At, ToolsBeforeRestart, HostCurrent, EnvOf, BlocksOf

\* Every step keeps Inv.
LEMMA Preserved == Inv /\ [Next]_vars => Inv'
<1> SUFFICES ASSUME Inv, [Next]_vars PROVE Inv'
  OBVIOUS
<1>1. ASSUME NEW p \in Procs,
             \/ Begin(p) \/ Probe(p) \/ ReadSections(p) \/ DiffEnv(p) \/ DiffConfig(p)
             \/ InstallPlugins(p) \/ OnboardSandbox(p) \/ ReconcileHerdr(p) \/ InstallSlack(p)
      PROVE  Inv'
  BY <1>1, BeginKeeps, ProbeKeeps, SectionsKeeps, DiffEnvKeeps, DiffConfigKeeps, PluginsKeep,
     OnboardKeeps, HerdrKeeps, SlackKeeps
<1>2. ASSUME NEW p \in Procs,
             \/ WriteGitconfig(p) \/ GhLogin(p) \/ SetupGit(p)
             \/ WriteEnv(p) \/ WriteConfig(p) \/ Push(p) \/ PushFails(p)
      PROVE  Inv'
  BY <1>2, GitconfigKeeps, LoginKeeps, SetupKeeps, WriteEnvKeeps, WriteConfigKeeps, PushKeeps,
     PushFailsKeeps
<1>3. ASSUME NEW p \in Procs,
             Restart(p) \/ RestartFails(p) \/ Verify(p) \/ Pair(p) \/ Fail(p)
      PROVE  Inv'
  BY <1>3, RestartKeeps, RestartFailsKeeps, VerifyKeeps, PairKeeps, FailKeeps
<1>4. CASE EditLocal \/ EditHost \/ CompleteOnboarding \/ RestartOutside
  BY <1>4, EditLocalKeeps, EditHostKeeps, CompleteKeeps, OutsideKeeps
<1>5. CASE UNCHANGED vars BY <1>5, Stuttering
<1>6. QED BY <1>1, <1>2, <1>3, <1>4, <1>5 DEF Next

\* Inv is invariant: what a sync knows of the host, disturbed or not, is so in every state.
THEOREM Invariance == Spec => []Inv
  BY Initially, Preserved, PTL DEF Spec

\* The types of a sync and of what it reads and writes.
THEOREM TypeCorrect == Spec => []TypeOK
<1>1. Inv => TypeOK BY DEF Inv
<1>2. QED BY Invariance, <1>1, PTL

\* However many syncs and events overlap, and wherever they fail, no daemon starts on a file
\* that needs a program that is not on the host.
THEOREM ToolsThere == Spec => []ToolsBeforeRestart
<1>1. Inv => ToolsBeforeRestart BY DEF Inv
<1>2. QED BY Invariance, <1>1, PTL

\* A sync that ends well, and that nothing disturbed, leaves the host as this machine has it.
THEOREM HostIsCurrent == Spec => []HostCurrent
<1>1. Inv => HostCurrent BY DEF Inv
<1>2. QED BY Invariance, <1>1, PTL

\* No sync of a hermes agent removes a secret it saw in the environment file.
THEOREM SecretsStay == Spec => SecretsKept
<1>1. Inv /\ [Next]_vars =>
        [type = "hermes" => \A p \in Procs : WritesEnv(p) => env \cap sync[p].seen \subseteq env']_vars
  <2> SUFFICES ASSUME Inv, Next, type = "hermes", NEW p \in Procs, WritesEnv(p)
               PROVE  env \cap sync[p].seen \subseteq env'
    OBVIOUS
  <2>1. sync[p].at = "write env" /\ sync'[p].at # "write env" BY DEF WritesEnv, At
  <2>2. sync[p].seen \subseteq EnvOf(sync[p].inputs)
    BY <2>1 DEF Inv, AllSound, Sound, Tooling, Preparing
  <2>3. CASE WriteEnv(p) BY <2>2, <2>3 DEF WriteEnv
  <2>4. ASSUME NEW q \in Procs, q # p, WriteEnv(q) PROVE FALSE
    BY <2>1, <2>4, WriteWalks DEF Inv, Walks, Moves
  <2>5. ASSUME NEW q \in Procs, ~ WriteEnv(q),
               \/ Begin(q) \/ Probe(q) \/ ReadSections(q) \/ DiffEnv(q) \/ DiffConfig(q)
               \/ InstallPlugins(q) \/ OnboardSandbox(q) \/ ReconcileHerdr(q) \/ InstallSlack(q)
               \/ WriteGitconfig(q) \/ GhLogin(q) \/ SetupGit(q)
               \/ WriteEnv(q) \/ WriteConfig(q) \/ Push(q) \/ PushFails(q)
               \/ Restart(q) \/ RestartFails(q) \/ Verify(q) \/ Pair(q) \/ Fail(q)
        PROVE  env' = env
    BY <2>5 DEF Begin, Probe, ReadSections, DiffEnv, DiffConfig, InstallPlugins, OnboardSandbox,
       ReconcileHerdr, InstallSlack, WriteGitconfig, GhLogin, SetupGit, WriteConfig, Push,
       PushFails, Restart, RestartFails, Verify, Pair, Fail, Install, remote, files
  <2>6. EditLocal \/ EditHost \/ CompleteOnboarding \/ RestartOutside => env \subseteq env'
    BY DEF EditLocal, EditHost, CompleteOnboarding, RestartOutside, remote, files
  <2>7. QED BY <2>3, <2>4, <2>5, <2>6 DEF Next
<1>2. QED BY Invariance, <1>1, PTL DEF Spec, SecretsKept

\* What zeroclaw wrote of its completed onboarding before a sync began is there when the sync
\* has written its files, if nothing disturbed it.
THEOREM SectionsStay == Spec => SectionsKept
<1>1. Inv /\ [Next]_vars =>
        [\A p \in Procs :
           At(p, "write config") /\ sync[p].alone /\ sync[p].before => config'.sections]_vars
  <2> SUFFICES ASSUME Inv, Next, NEW p \in Procs, At(p, "write config"), sync[p].alone,
                      sync[p].before
               PROVE  config'.sections
    OBVIOUS
  <2>1. Faithful(sync[p]) BY DEF Inv, AllSound, Sound
  <2>2. config.sections /\ sync[p].sections BY <2>1 DEF Faithful, At
  <2>3. \A q \in Procs \ {p} : At(q, "idle") BY DEF Inv, Aloof
  <2>4. ASSUME NEW q \in Procs, WriteConfig(q) PROVE config'.sections
    <3>1. q = p BY <2>3, <2>4 DEF WriteConfig, At
    <3>2. QED BY <2>2, <2>4, <3>1 DEF WriteConfig, Rendered
  <2>5. ASSUME NEW q \in Procs, ~ WriteConfig(q),
               \/ Begin(q) \/ Probe(q) \/ ReadSections(q) \/ DiffEnv(q) \/ DiffConfig(q)
               \/ InstallPlugins(q) \/ OnboardSandbox(q) \/ ReconcileHerdr(q) \/ InstallSlack(q)
               \/ WriteGitconfig(q) \/ GhLogin(q) \/ SetupGit(q)
               \/ WriteEnv(q) \/ WriteConfig(q) \/ Push(q) \/ PushFails(q)
               \/ Restart(q) \/ RestartFails(q) \/ Verify(q) \/ Pair(q) \/ Fail(q)
        PROVE  config' = config
    BY <2>5 DEF Begin, Probe, ReadSections, DiffEnv, DiffConfig, InstallPlugins, OnboardSandbox,
       ReconcileHerdr, InstallSlack, WriteGitconfig, GhLogin, SetupGit, WriteEnv, Push,
       PushFails, Restart, RestartFails, Verify, Pair, Fail, Install, remote, files
  <2>6. CASE CompleteOnboarding
    <3>1. config \in Configs BY DEF Inv, TypeOK
    <3>2. QED BY <2>6, <3>1 DEF CompleteOnboarding, Configs
  <2>7. EditLocal \/ EditHost \/ RestartOutside => config' = config
    BY DEF EditLocal, EditHost, RestartOutside, remote, files
  <2>8. QED BY <2>2, <2>4, <2>5, <2>6, <2>7 DEF Next
<1>2. QED BY Invariance, <1>1, PTL DEF Spec, SectionsKept

-----------------------------------------------------------------------------
(***************************************************************************)
(* Render.  What has been rendered is what is attached, and complete.      *)
(***************************************************************************)
AttachedFits ==
  /\ agent \in R!Agents /\ gateway \in BOOLEAN
  /\ providers \in Seq(R!Providers) /\ channels \in Seq(R!Channels)
  /\ integrations \in Seq(R!Integrations) /\ Len(integrations) <= 2
  /\ R!Attachable(providers)
RenderInv ==
  /\ AttachedFits /\ stage \in {"attached", "inputs", "rendered", "refused"}
  /\ stage \in {"inputs", "rendered"} => R!ProvidersComplete
  /\ stage # "rendered" => lines = <<>>
  /\ stage = "rendered" =>
       R!Fits /\ lines = R!ProviderLines \o R!ChannelLines \o R!IntegrationLines

\* What a file has under a key, and all it has there.
Holds(file, key, value) ==
  \E n \in DOMAIN file : file[n].key = key /\ file[n].value = value
OnlyHolds(file, key, values) ==
  \A n \in DOMAIN file : file[n].key = key => file[n].value \in values

LEMMA JoinedFiles ==
  ASSUME NEW S, NEW s \in Seq(S), NEW t \in Seq(S), NEW key
  PROVE  /\ s \o t \in Seq(S)
         /\ \A v : Holds(s, key, v) \/ Holds(t, key, v) => Holds(s \o t, key, v)
         /\ \A V : OnlyHolds(s, key, V) /\ OnlyHolds(t, key, V) => OnlyHolds(s \o t, key, V)
<1> DEFINE u == s \o t
<1>1. /\ u \in Seq(S) /\ Len(s) \in Nat /\ Len(t) \in Nat /\ Len(u) = Len(s) + Len(t)
      /\ \A n \in 1 .. Len(s) : u[n] = s[n]
      /\ \A n \in 1 .. Len(t) : u[Len(s) + n] = t[n]
  OBVIOUS
<1>2. DOMAIN s = 1 .. Len(s) /\ DOMAIN t = 1 .. Len(t) /\ DOMAIN u = 1 .. Len(s) + Len(t)
  BY <1>1
<1>3. \A n \in 1 .. Len(t) : Len(s) + n \in 1 .. Len(s) + Len(t) BY <1>1
<1>4. \A n \in 1 .. Len(s) : n \in 1 .. Len(s) + Len(t) BY <1>1
<1>5. \A n \in 1 .. Len(s) + Len(t) :
        n \in 1 .. Len(s) \/ (n - Len(s) \in 1 .. Len(t) /\ u[n] = t[n - Len(s)])
  BY <1>1
<1> HIDE DEF u
<1>6. ASSUME NEW v, Holds(s, key, v) \/ Holds(t, key, v) PROVE Holds(u, key, v)
  BY <1>1, <1>2, <1>3, <1>4, <1>6 DEF Holds
<1>7. ASSUME NEW V, OnlyHolds(s, key, V), OnlyHolds(t, key, V) PROVE OnlyHolds(u, key, V)
  BY <1>1, <1>2, <1>5, <1>7 DEF OnlyHolds
<1>8. QED BY <1>1, <1>6, <1>7 DEF u

\* A set of naturals up to a bound has a greatest element, if it has one.
LEMMA HasGreatest ==
  ASSUME NEW m \in Nat, NEW T, T \subseteq 1 .. m, T # {}
  PROVE  \E n \in T : \A k \in T : k <= n
<1> DEFINE D == {m - n : n \in T}
<1>0. \A n \in T : n \in 1 .. m /\ m - n \in Nat OBVIOUS
<1>1. D \subseteq Nat /\ D # {} BY <1>0
<1>2. PICK d \in D : \A e \in D : ~ (<<e, d>> \in OpToRel(<, Nat))
  BY <1>1, WFMin, NatLessThanWellFounded, Zenon
<1>3. \A e \in D : ~ (e < d) BY <1>1, <1>2 DEF OpToRel
<1>4. PICK n \in T : d = m - n OBVIOUS
<1>5. ASSUME NEW k \in T PROVE k <= n
  <2>1. m - k \in D OBVIOUS
  <2>2. ~ (m - k < m - n) BY <1>3, <1>4, <2>1
  <2>3. QED BY <1>0, <2>2
<1>6. QED BY <1>5

\* What the daemon finds is among what the files have under the key.
LEMMA FoundAmong ==
  ASSUME NEW S, lines \in Seq(S), NEW key, NEW v, NEW V,
         Holds(lines, key, v), OnlyHolds(lines, key, V)
  PROVE  R!Found(key) \in V
<1> DEFINE at == {n \in DOMAIN lines : lines[n].key = key}
<1>1. at # {} /\ at \subseteq 1 .. Len(lines) BY DEF Holds
<1>2. \E n \in at : \A k \in at : k <= n
  <2>1. Len(lines) \in Nat OBVIOUS
  <2> HIDE DEF at
  <2>2. QED BY <1>1, <2>1, HasGreatest
<1>3. (CHOOSE n \in at : \A k \in at : k <= n) \in at BY <1>2
<1>4. R!Found(key) = lines[CHOOSE n \in at : \A k \in at : k <= n].value BY <1>1 DEF R!Found
<1>5. QED BY <1>3, <1>4 DEF OnlyHolds

\* The lines of one kind.
Places == {"env", "config", "mcp", "env github"}
ProviderNames == R!ProviderTypes \cup {"model", "vision", "primary", "provider", "models.providers"}
ChannelNames == {"discord", "slack"}
ToolNames == {"gitlab", "linear", "notion", "brave", "atlassian", "github"}
Names == ProviderNames \cup ChannelNames \cup ToolNames \cup R!Slugs
Lines == [key : Places \X Names, value : R!Secrets]
LEMMA LineIs ==
  ASSUME NEW file, NEW name, NEW value
  PROVE  /\ R!Line(file, name, value).key = <<file, name>>
         /\ R!Line(file, name, value).value = value
         /\ file \in Places /\ name \in Names /\ value \in R!Secrets => R!Line(file, name, value) \in Lines
  BY DEF R!Line, Lines
LEMMA OneLine ==
  ASSUME NEW file, NEW name, NEW value, NEW key
  PROVE  /\ file \in Places /\ name \in Names /\ value \in R!Secrets =>
              <<R!Line(file, name, value)>> \in Seq(Lines)
         /\ Holds(<<R!Line(file, name, value)>>, <<file, name>>, value)
         /\ \A V : (key = <<file, name>> => value \in V) =>
              OnlyHolds(<<R!Line(file, name, value)>>, key, V)
<1> DEFINE line == R!Line(file, name, value)
<1>1. line.key = <<file, name>> /\ line.value = value BY LineIs
<1>2. file \in Places /\ name \in Names /\ value \in R!Secrets => line \in Lines BY LineIs
<1> HIDE DEF line
<1> DEFINE s == <<line>>
<1>3. DOMAIN s = {1} /\ s[1] = line OBVIOUS
<1>4. \A S : line \in S => s \in Seq(S) OBVIOUS
<1> HIDE DEF s
<1>5. Holds(s, <<file, name>>, value) BY <1>1, <1>3 DEF Holds
<1>6. ASSUME NEW V, key = <<file, name>> => value \in V PROVE OnlyHolds(s, key, V)
  BY <1>1, <1>3, <1>6 DEF OnlyHolds
<1>7. QED BY <1>2, <1>4, <1>5, <1>6 DEF s, line
LEMMA NoLine ==
  ASSUME NEW key
  PROVE  /\ R!Nowhere \in Seq(Lines)
         /\ \A V : OnlyHolds(R!Nowhere, key, V)
<1> DEFINE s == R!Nowhere
<1>1. s \in Seq(Lines) /\ DOMAIN s = {} BY DEF R!Nowhere
<1>2. QED BY <1>1 DEF OnlyHolds

\* Names nobody else's lines have.
LEMMA NamesApart ==
  /\ ProviderNames \cap (ChannelNames \cup ToolNames) = {}
  /\ ChannelNames \cap ToolNames = {}
  BY DEF ProviderNames, ChannelNames, ToolNames, R!ProviderTypes, R!Bearers
\* What is attached of providers: two with one place have one key.
LEMMA ProviderFacts ==
  ASSUME AttachedFits, R!ProvidersComplete, NEW i \in DOMAIN providers
  PROVE  /\ providers[i] \in R!Providers /\ R!Primary \in R!Providers /\ R!Primary.role = "primary"
         /\ R!Primary.type \in R!Support[agent]
         /\ R!Primary.type \notin R!Keyless => R!Primary.key # ""
         /\ \E j \in DOMAIN providers : R!Primary = providers[j]
         /\ providers[i].role = "primary" => providers[i] = R!Primary
         /\ agent # "hermes" => providers[i] = R!Primary
         /\ agent = "hermes" => providers[i].type \in R!Support[agent]
<1>1. providers[i] \in R!Providers BY DEF AttachedFits
<1>2. \E j \in DOMAIN providers : providers[j].role = "primary"
  <2>1. CASE agent = "hermes" BY <2>1 DEF AttachedFits, R!Attachable, R!ProvidersComplete
  <2>2. CASE agent # "hermes" BY <2>2 DEF AttachedFits, R!Attachable
  <2>3. QED BY <2>1, <2>2
<1>3. R!Primary \in {providers[j] : j \in DOMAIN providers} /\ R!Primary.role = "primary"
  BY <1>2 DEF R!Primary
<1>4. PICK j \in DOMAIN providers : R!Primary = providers[j] BY <1>3
<1>5. R!Primary \in R!Providers BY <1>4 DEF AttachedFits
<1>6. R!Complete(R!Primary) BY DEF R!ProvidersComplete
<1>7. providers[i].role = "primary" => providers[i] = R!Primary
  BY <1>3, <1>4 DEF AttachedFits, R!Attachable
<1>8. agent # "hermes" => providers[i] = R!Primary
  <2> SUFFICES ASSUME agent # "hermes" PROVE providers[i] = R!Primary OBVIOUS
  <2>1. providers[i].role = "primary" BY DEF AttachedFits, R!Attachable
  <2>2. QED BY <1>7, <2>1
<1>9. agent = "hermes" => providers[i].type \in R!Support[agent]
  BY DEF R!ProvidersComplete, R!Complete
<1>10. QED BY <1>1, <1>3, <1>4, <1>5, <1>6, <1>7, <1>8, <1>9 DEF R!Complete

LEMMA ProviderPlace ==
  ASSUME NEW p \in R!Providers, agent \in R!Agents
  PROVE  \E file \in {"env", "config"}, name \in ProviderNames :
           /\ R!ProviderKey(p) = <<file, name>>
           /\ agent = "hermes" /\ p.type \in R!EnvKeyed \cup {"bedrock"} =>
                file = "env" /\ name = p.type
           /\ agent = "hermes" /\ p.type \notin R!EnvKeyed \cup {"bedrock"} =>
                file = "config" /\ name = IF p.role = "primary" THEN "model" ELSE p.role
           /\ agent = "zeroclaw" => file = "config" /\ name = "provider"
           /\ agent = "openclaw" /\ p.type = "litellm" =>
                file = "config" /\ name = "models.providers"
           /\ agent = "openclaw" /\ p.type # "litellm" => file = "env" /\ name = p.type
           /\ agent = "ethos" => file = "env" /\ name = p.type
<1>1. p.type \in R!ProviderTypes /\ p.role \in {"primary", "vision"} BY DEF R!Providers
<1>2. R!ProviderTypes \subseteq ProviderNames BY DEF ProviderNames
<1>3. {"model", "vision", "primary", "provider", "models.providers"} \subseteq ProviderNames
  BY DEF ProviderNames
<1>4. CASE agent = "hermes" /\ p.type \in R!EnvKeyed \cup {"bedrock"}
  <2>1. R!ProviderKey(p) = <<"env", p.type>> BY <1>4 DEF R!ProviderKey
  <2>2. QED BY <1>1, <1>2, <1>4, <2>1
<1>5. CASE agent = "hermes" /\ p.type \notin R!EnvKeyed \cup {"bedrock"}
  <2>1. R!ProviderKey(p) = <<"config", IF p.role = "primary" THEN "model" ELSE p.role>>
    BY <1>5 DEF R!ProviderKey
  <2>2. QED BY <1>1, <1>3, <1>5, <2>1
<1>6. CASE agent = "zeroclaw"
  <2>1. R!ProviderKey(p) = <<"config", "provider">> BY <1>6 DEF R!ProviderKey
  <2>2. QED BY <1>3, <1>6, <2>1
<1>7. CASE agent = "openclaw" /\ p.type = "litellm"
  <2>1. R!ProviderKey(p) = <<"config", "models.providers">> BY <1>7 DEF R!ProviderKey
  <2>2. QED BY <1>3, <1>7, <2>1
<1>8. CASE agent = "ethos" \/ (agent = "openclaw" /\ p.type # "litellm")
  <2>1. R!ProviderKey(p) = <<"env", p.type>> BY <1>8 DEF R!ProviderKey
  <2>2. QED BY <1>1, <1>2, <1>8, <2>1
<1>9. QED BY <1>4, <1>5, <1>6, <1>7, <1>8 DEF R!Agents

\* Two providers with one place have one key, where a line could carry it.
LEMMA ProviderKeysAgree ==
  ASSUME AttachedFits, R!ProvidersComplete,
         NEW i \in DOMAIN providers, NEW j \in DOMAIN providers,
         R!ProviderKey(providers[i]) = R!ProviderKey(providers[j])
  PROVE  providers[i].key = providers[j].key
<1>1. CASE agent # "hermes" BY <1>1, ProviderFacts
<1>2. CASE agent = "hermes"
  <2>1. providers[i] \in R!Providers /\ providers[j] \in R!Providers BY ProviderFacts
  <2>2. R!SharedKeys(providers) BY <1>2 DEF R!ProvidersComplete
  <2>3. CASE providers[i].type \in R!EnvKeyed \cup {"bedrock"}
    <3>1. providers[j].type = providers[i].type
      <4>1. R!ProviderKey(providers[i]) = <<"env", providers[i].type>>
        BY <1>2, <2>3 DEF R!ProviderKey
      <4>2. CASE providers[j].type \in R!EnvKeyed \cup {"bedrock"}
        <5>1. R!ProviderKey(providers[j]) = <<"env", providers[j].type>>
          BY <1>2, <4>2 DEF R!ProviderKey
        <5>2. <<"env", providers[i].type>> = <<"env", providers[j].type>> BY <4>1, <5>1
        <5>3. QED BY <5>2
      <4>3. CASE providers[j].type \notin R!EnvKeyed \cup {"bedrock"}
        <5>1. R!ProviderKey(providers[j])
                = <<"config", IF providers[j].role = "primary" THEN "model" ELSE providers[j].role>>
          BY <1>2, <4>3 DEF R!ProviderKey
        <5>2. <<"env", providers[i].type>>
                = <<"config", IF providers[j].role = "primary" THEN "model" ELSE providers[j].role>>
          BY <4>1, <5>1
        <5>3. QED BY <5>2
      <4>4. QED BY <4>2, <4>3
    <3>2. providers[i].type \in R!Bearers \cup {"bedrock"} BY <2>3 DEF R!EnvKeyed, R!Bearers
    <3>3. QED BY <2>2, <3>1, <3>2 DEF R!SharedKeys
  <2>4. CASE providers[i].type \notin R!EnvKeyed \cup {"bedrock"}
    <3>1. R!ProviderKey(providers[i])
            = <<"config", IF providers[i].role = "primary" THEN "model" ELSE providers[i].role>>
      BY <1>2, <2>4 DEF R!ProviderKey
    <3>2. R!ProviderKey(providers[j])
            = <<"config", IF providers[j].role = "primary" THEN "model" ELSE providers[j].role>>
      <4>1. CASE providers[j].type \in R!EnvKeyed \cup {"bedrock"}
        <5>1. R!ProviderKey(providers[j]) = <<"env", providers[j].type>>
          BY <1>2, <4>1 DEF R!ProviderKey
        <5>2. <<"config", IF providers[i].role = "primary" THEN "model" ELSE providers[i].role>>
                = <<"env", providers[j].type>>
          BY <3>1, <5>1
        <5>3. QED BY <5>2
      <4>2. CASE providers[j].type \notin R!EnvKeyed \cup {"bedrock"}
        BY <1>2, <4>2 DEF R!ProviderKey
      <4>3. QED BY <4>1, <4>2
    <3>3. (IF providers[i].role = "primary" THEN "model" ELSE providers[i].role)
            = (IF providers[j].role = "primary" THEN "model" ELSE providers[j].role)
      <4>1. <<"config", IF providers[i].role = "primary" THEN "model" ELSE providers[i].role>>
              = <<"config", IF providers[j].role = "primary" THEN "model" ELSE providers[j].role>>
        BY <3>1, <3>2
      <4>2. QED BY <4>1
    <3>4. providers[i].role \in {"primary", "vision"} /\ providers[j].role \in {"primary", "vision"}
      BY <2>1 DEF R!Providers
    <3>5. providers[i].role = providers[j].role BY <3>3, <3>4
    <3>6. i = j BY <3>5 DEF AttachedFits, R!Attachable
    <3>7. QED BY <3>6
  <2>5. QED BY <2>3, <2>4
<1>3. QED BY <1>1, <1>2

\* A file that has, of provider p, at most what the daemon looks for.
Says(file, p) ==
  /\ file \in Seq(Lines)
  /\ \A key, V : (R!ProviderKey(p) = key => p.key \in V) => OnlyHolds(file, key, V)
LEMMA LineSays ==
  ASSUME NEW p \in R!Providers, NEW file \in Places, NEW name \in Names,
         R!ProviderKey(p) = <<file, name>>
  PROVE  /\ Says(<<R!Line(file, name, p.key)>>, p)
         /\ Holds(<<R!Line(file, name, p.key)>>, R!ProviderKey(p), p.key)
<1>1. p.key \in R!Secrets BY DEF R!Providers
<1>2. <<R!Line(file, name, p.key)>> \in Seq(Lines) BY <1>1, OneLine, Zenon
<1>3. ASSUME NEW key, NEW V, R!ProviderKey(p) = key => p.key \in V
      PROVE  OnlyHolds(<<R!Line(file, name, p.key)>>, key, V)
  <2>1. key = <<file, name>> => p.key \in V BY <1>3
  <2>2. QED BY <2>1, OneLine, Zenon
<1>4. Holds(<<R!Line(file, name, p.key)>>, <<file, name>>, p.key) BY OneLine, Zenon
<1>5. QED BY <1>2, <1>3, <1>4 DEF Says
LEMMA SaysNothing == ASSUME NEW p PROVE Says(R!Nowhere, p)
  BY NoLine, Zenon DEF Says

\* Each renderer writes the credential of its primary, or is silent.
LEMMA PrimaryWritten ==
  ASSUME NEW p \in R!Providers, agent \in R!Agents, p.role = "primary",
         p.type \in R!Support[agent],
         NEW file,
         file = CASE agent = "hermes" -> R!HermesPrimary(p)
                  [] agent = "zeroclaw" -> R!ZeroclawProvider(p)
                  [] agent = "openclaw" -> R!OpenclawProvider(p)
                  [] OTHER -> R!EthosProvider(p)
  PROVE  /\ Says(file, p)
         /\ R!Silent(p) \/ p.type \in R!Keyless \/ Holds(file, R!ProviderKey(p), p.key)
<1>0. /\ p.type \in R!ProviderTypes /\ p.type \in Names
      /\ {"model", "provider", "models.providers"} \subseteq Names
      /\ "env" \in Places /\ "config" \in Places
  BY DEF R!Providers, Names, ProviderNames, Places
<1>1. CASE agent = "hermes"
  <2>0. file = R!HermesPrimary(p) BY <1>1
  <2>1. CASE p.type \in R!EnvKeyed \cup {"bedrock"}
    <3>0. p.type \notin {"litellm", "opencode", "opencode-go"} BY <2>1 DEF R!EnvKeyed
    <3>1. file = <<R!Line("env", p.type, p.key)>> BY <2>0, <2>1, <3>0 DEF R!HermesPrimary
    <3>2. R!ProviderKey(p) = <<"env", p.type>> BY <1>1, <2>1 DEF R!ProviderKey
    <3>3. QED BY <1>0, <3>1, <3>2, LineSays
  <2>2. CASE p.type \in {"litellm", "opencode", "opencode-go"}
    <3>0. p.type \notin R!EnvKeyed \cup {"bedrock"} BY <2>2 DEF R!EnvKeyed
    <3>1. file = <<R!Line("config", "model", p.key)>> BY <2>0, <2>2, <3>0 DEF R!HermesPrimary
    <3>2. R!ProviderKey(p) = <<"config", "model">> BY <1>1, <3>0 DEF R!ProviderKey
    <3>3. QED BY <1>0, <3>1, <3>2, LineSays
  <2>3. CASE p.type \notin R!EnvKeyed \cup {"bedrock"}
             /\ p.type \notin {"litellm", "opencode", "opencode-go"}
    <3>1. file = R!Nowhere BY <2>0, <2>3 DEF R!HermesPrimary
    <3>2. p.type \in R!ProviderTypes \ {"zai", "codex"} BY <1>1 DEF R!Support
    <3>3. p.type \in R!Keyless
      BY <2>3, <3>2 DEF R!Keyless, R!ProviderTypes, R!Bearers, R!EnvKeyed
    <3>4. QED BY <3>1, <3>3, SaysNothing
  <2>4. QED BY <2>1, <2>2, <2>3
<1>2. CASE agent = "zeroclaw"
  <2>0. file = R!ZeroclawProvider(p) BY <1>2
  <2>1. CASE p.type \in R!Keyless BY <2>0, <2>1, SaysNothing DEF R!ZeroclawProvider
  <2>2. CASE p.type \notin R!Keyless
    <3>1. file = <<R!Line("config", "provider", p.key)>> BY <2>0, <2>2 DEF R!ZeroclawProvider
    <3>2. R!ProviderKey(p) = <<"config", "provider">> BY <1>2 DEF R!ProviderKey
    <3>3. QED BY <1>0, <3>1, <3>2, LineSays
  <2>3. QED BY <2>1, <2>2
<1>3. CASE agent = "openclaw"
  <2>0. file = R!OpenclawProvider(p) BY <1>3
  <2>1. CASE p.type \in R!EnvKeyed \cup {"zai"}
    <3>0. p.type # "litellm" BY <2>1 DEF R!EnvKeyed
    <3>1. file = <<R!Line("env", p.type, p.key)>> BY <2>0, <2>1, <3>0 DEF R!OpenclawProvider
    <3>2. R!ProviderKey(p) = <<"env", p.type>> BY <1>3, <3>0 DEF R!ProviderKey
    <3>3. QED BY <1>0, <3>1, <3>2, LineSays
  <2>2. CASE p.type = "litellm"
    <3>0. p.type \notin R!EnvKeyed \cup {"zai"} BY <2>2 DEF R!EnvKeyed
    <3>1. file = <<R!Line("config", "models.providers", p.key)>>
      BY <2>0, <2>2, <3>0 DEF R!OpenclawProvider
    <3>2. R!ProviderKey(p) = <<"config", "models.providers">> BY <1>3, <2>2 DEF R!ProviderKey
    <3>3. QED BY <1>0, <3>1, <3>2, LineSays
  <2>3. CASE p.type \notin R!EnvKeyed \cup {"zai"} /\ p.type # "litellm"
    <3>1. file = R!Nowhere BY <2>0, <2>3 DEF R!OpenclawProvider
    <3>2. p.type \in R!Keyless \cup {"bedrock", "opencode", "opencode-go"}
      BY <1>0, <2>3 DEF R!Keyless, R!ProviderTypes, R!Bearers, R!EnvKeyed
    <3>3. p.type \in R!Keyless \/ R!Silent(p) BY <1>3, <3>2 DEF R!Silent
    <3>4. QED BY <3>1, <3>3, SaysNothing
  <2>4. QED BY <2>1, <2>2, <2>3
<1>4. CASE agent = "ethos"
  <2>0. file = R!EthosProvider(p) BY <1>4
  <2>1. CASE p.type = "codex" BY <2>0, <2>1, SaysNothing DEF R!EthosProvider, R!Keyless
  <2>2. CASE p.type # "codex"
    <3>1. file = <<R!Line("env", p.type, p.key)>> BY <2>0, <2>2 DEF R!EthosProvider
    <3>2. R!ProviderKey(p) = <<"env", p.type>> BY <1>4 DEF R!ProviderKey
    <3>3. QED BY <1>0, <3>1, <3>2, LineSays
  <2>3. QED BY <2>1, <2>2
<1>5. QED BY <1>1, <1>2, <1>3, <1>4 DEF R!Agents

\* The auxiliary provider of hermes, as far as the primary has not brought its variable.
LEMMA AuxiliaryWritten ==
  ASSUME NEW p \in R!Providers, agent = "hermes", p.role = "vision",
         p.type \in R!Support[agent], NEW primary,
         NEW file, file = R!HermesAuxiliary(p, primary)
  PROVE  /\ Says(file, p)
         /\ \/ R!Silent(p) \/ p.type \in R!Keyless \/ Holds(file, R!ProviderKey(p), p.key)
            \/ p.type = primary.type /\ p.type \in R!EnvKeyed \cup {"bedrock"}
<1>0. /\ p.type \in R!ProviderTypes /\ p.type \in Names /\ "vision" \in Names
      /\ "env" \in Places /\ "config" \in Places
  BY DEF R!Providers, Names, ProviderNames, Places
<1>1. CASE p.type \in R!EnvKeyed \cup {"bedrock"} /\ p.type # primary.type
  <2>0. p.type # "litellm" BY <1>1 DEF R!EnvKeyed
  <2>1. file = <<R!Line("env", p.type, p.key)>> BY <1>1, <2>0 DEF R!HermesAuxiliary
  <2>2. R!ProviderKey(p) = <<"env", p.type>> BY <1>1 DEF R!ProviderKey
  <2>3. QED BY <1>0, <2>1, <2>2, LineSays
<1>2. CASE p.type = "litellm"
  <2>0. p.type \notin R!EnvKeyed \cup {"bedrock"} BY <1>2 DEF R!EnvKeyed
  <2>1. file = <<R!Line("config", "vision", p.key)>> BY <1>2, <2>0 DEF R!HermesAuxiliary
  <2>2. R!ProviderKey(p) = <<"config", "vision">> BY <2>0 DEF R!ProviderKey
  <2>3. QED BY <1>0, <2>1, <2>2, LineSays
<1>3. CASE p.type # "litellm"
           /\ ~ (p.type \in R!EnvKeyed \cup {"bedrock"} /\ p.type # primary.type)
  <2>1. file = R!Nowhere BY <1>3 DEF R!HermesAuxiliary
  <2>2. Says(file, p) BY <2>1, SaysNothing
  <2>3. p.type \in R!ProviderTypes \ {"zai", "codex"} BY DEF R!Support
  <2>4. \/ p.type = primary.type /\ p.type \in R!EnvKeyed \cup {"bedrock"}
        \/ p.type \in {"opencode", "opencode-go", "ollama"}
    BY <1>3, <2>3 DEF R!ProviderTypes, R!Bearers, R!EnvKeyed
  <2>5. CASE p.type \in {"opencode", "opencode-go"} BY <2>2, <2>5 DEF R!Silent
  <2>6. CASE p.type = "ollama" BY <2>2, <2>6 DEF R!Keyless
  <2>7. QED BY <2>2, <2>4, <2>5, <2>6
<1>4. QED BY <1>1, <1>2, <1>3

\* Of every provider the lines say at most its own credential where the daemon looks for it,
\* and they say it unless they are silent about it.
LEMMA ProvidersWritten ==
  ASSUME AttachedFits, R!ProvidersComplete, NEW file, file = R!ProviderLines
  PROVE  /\ file \in Seq(Lines)
         /\ \A key, V :
              (\A i \in DOMAIN providers :
                 R!ProviderKey(providers[i]) = key => providers[i].key \in V)
                => OnlyHolds(file, key, V)
         /\ \A i \in DOMAIN providers :
              \/ R!Silent(providers[i]) \/ providers[i].type \in R!Keyless
              \/ Holds(file, R!ProviderKey(providers[i]), providers[i].key)
<1>0. DOMAIN providers # {} /\ agent \in R!Agents
  <2>1. providers # <<>> /\ providers \in Seq(R!Providers) /\ agent \in R!Agents
    BY DEF R!ProvidersComplete, AttachedFits
  <2>2. Len(providers) \in Nat /\ Len(providers) # 0 /\ DOMAIN providers = 1 .. Len(providers)
    BY <2>1
  <2>3. 1 \in DOMAIN providers BY <2>2
  <2>4. QED BY <2>1, <2>3
<1> DEFINE primary == R!Primary
<1>1. /\ primary \in R!Providers /\ primary.role = "primary" /\ primary.type \in R!Support[agent]
      /\ \E j \in DOMAIN providers : primary = providers[j]
  BY <1>0, ProviderFacts
<1> DEFINE main == CASE agent = "hermes" -> R!HermesPrimary(primary)
                     [] agent = "zeroclaw" -> R!ZeroclawProvider(primary)
                     [] agent = "openclaw" -> R!OpenclawProvider(primary)
                     [] OTHER -> R!EthosProvider(primary)
<1>2. /\ Says(main, primary)
      /\ \/ R!Silent(primary) \/ primary.type \in R!Keyless
         \/ Holds(main, R!ProviderKey(primary), primary.key)
  BY <1>0, <1>1, PrimaryWritten
<1>3. \A i \in DOMAIN providers : providers[i].role = "primary" => providers[i] = primary
  BY ProviderFacts
<1> HIDE DEF primary
<1>4. CASE agent # "hermes"
  <2>1. file = main BY <1>4 DEF R!ProviderLines, primary
  <2>2. \A i \in DOMAIN providers : providers[i] = primary BY <1>4, ProviderFacts DEF primary
  <2> HIDE DEF main
  <2>3. QED BY <1>1, <1>2, <2>1, <2>2 DEF Says
<1>5. CASE agent = "hermes"
  <2>1. main = R!HermesPrimary(primary) BY <1>5
  <2> HIDE DEF main
  <2>2. CASE R!Auxiliaries = {}
    <3>1. file = main \o R!Nowhere
      BY <1>5, <2>1, <2>2 DEF R!ProviderLines, R!HermesProviders, primary
    <3>2. main \in Seq(Lines) BY <1>2 DEF Says
    <3>3. file = main BY <3>1, <3>2 DEF R!Nowhere
    <3>4. \A i \in DOMAIN providers : providers[i] = primary
      BY <1>3, <2>2 DEF R!Auxiliaries
    <3>5. QED BY <1>1, <1>2, <3>3, <3>4 DEF Says
  <2>3. CASE R!Auxiliaries # {}
    <3> DEFINE i0 == CHOOSE i \in R!Auxiliaries : TRUE
    <3>1. i0 \in R!Auxiliaries BY <2>3
    <3> HIDE DEF i0
    <3> DEFINE p == providers[i0]
    <3> DEFINE aux == R!HermesAuxiliary(p, primary)
    <3>2. i0 \in DOMAIN providers /\ p.role # "primary" BY <3>1 DEF R!Auxiliaries
    <3>3. p \in R!Providers /\ p.type \in R!Support[agent] BY <1>5, <3>2, ProviderFacts
    <3>4. p.role = "vision" BY <3>2, <3>3 DEF R!Providers
    <3>5. /\ Says(aux, p)
          /\ \/ R!Silent(p) \/ p.type \in R!Keyless \/ Holds(aux, R!ProviderKey(p), p.key)
             \/ p.type = primary.type /\ p.type \in R!EnvKeyed \cup {"bedrock"}
      BY <1>5, <3>3, <3>4, AuxiliaryWritten
    <3>6. file = main \o aux
      BY <1>5, <2>1, <2>3 DEF R!ProviderLines, R!HermesProviders, primary, i0
    <3>7. main \in Seq(Lines) /\ aux \in Seq(Lines) BY <1>2, <3>5 DEF Says
    <3>8. \A j \in DOMAIN providers : providers[j] = primary \/ providers[j] = p
      <4> SUFFICES ASSUME NEW j \in DOMAIN providers, providers[j].role # "primary"
                   PROVE  providers[j] = p
        BY <1>3
      <4>1. providers[j].role = "vision" BY ProviderFacts DEF R!Providers
      <4>2. j = i0 BY <3>2, <3>4, <4>1 DEF AttachedFits, R!Attachable
      <4>3. QED BY <4>2
    <3>9. p.type = primary.type /\ p.type \in R!EnvKeyed \cup {"bedrock"} =>
            /\ Holds(main, R!ProviderKey(p), p.key)
      <4> SUFFICES ASSUME p.type = primary.type, p.type \in R!EnvKeyed \cup {"bedrock"}
                   PROVE  Holds(main, R!ProviderKey(p), p.key)
        OBVIOUS
      <4>1. R!ProviderKey(p) = <<"env", p.type>> /\ R!ProviderKey(primary) = <<"env", p.type>>
        BY <1>5 DEF R!ProviderKey
      <4>2. p.key = primary.key BY <1>1, <3>2, <4>1, ProviderKeysAgree
      <4>3. ~ R!Silent(primary) /\ primary.type \notin R!Keyless
        BY <1>1, <1>5 DEF R!Silent, R!Keyless, R!EnvKeyed
      <4>4. QED BY <1>2, <4>1, <4>2, <4>3
    <3> HIDE DEF aux, p
    <3>10. file \in Seq(Lines) BY <3>6, <3>7, JoinedFiles, Zenon
    <3>11. ASSUME NEW key, NEW V,
                  \A i \in DOMAIN providers :
                    R!ProviderKey(providers[i]) = key => providers[i].key \in V
           PROVE  OnlyHolds(file, key, V)
      <4>1. OnlyHolds(main, key, V) BY <1>1, <1>2, <3>11 DEF Says
      <4>2. OnlyHolds(aux, key, V) BY <3>2, <3>5, <3>11 DEF Says, p
      <4>3. QED BY <3>6, <3>7, <4>1, <4>2, JoinedFiles, Zenon
    <3>12. ASSUME NEW v, NEW key, Holds(main, key, v) \/ Holds(aux, key, v)
           PROVE  Holds(file, key, v)
      BY <3>6, <3>7, <3>12, JoinedFiles, Zenon
    <3>13. R!Silent(primary) \/ primary.type \in R!Keyless
           \/ Holds(file, R!ProviderKey(primary), primary.key)
      BY <1>2, <3>12
    <3>14. R!Silent(p) \/ p.type \in R!Keyless \/ Holds(file, R!ProviderKey(p), p.key)
      BY <3>5, <3>9, <3>12
    <3>15. QED BY <3>8, <3>10, <3>11, <3>13, <3>14
  <2>4. QED BY <2>2, <2>3
<1>6. QED BY <1>4, <1>5

\* The lines of the channels, each under the name of its type.
ChannelFile == IF agent = "zeroclaw" THEN "config" ELSE "env"
LEMMA ChannelsWritten ==
  ASSUME AttachedFits, NEW file, file = R!ChannelLines
  PROVE  /\ file \in Seq(Lines)
         /\ \A i \in DOMAIN channels :
              Holds(file, <<ChannelFile, channels[i].type>>, channels[i].token)
         /\ R!Fits => \A i \in DOMAIN channels :
              OnlyHolds(file, <<ChannelFile, channels[i].type>>, {channels[i].token})
         /\ \A key, V : (\A name \in ChannelNames : key # <<ChannelFile, name>>) =>
              OnlyHolds(file, key, V)
<1>1. /\ channels \in Seq(R!Channels) /\ DOMAIN channels = 1 .. Len(channels)
      /\ Len(channels) \in Nat
  BY DEF AttachedFits
<1>2. /\ DOMAIN file = 1 .. Len(channels)
      /\ \A i \in DOMAIN channels :
           file[i] = R!Line(ChannelFile, channels[i].type, channels[i].token)
  BY <1>1 DEF R!ChannelLines, ChannelFile
<1>3. \A i \in DOMAIN channels :
        channels[i].type \in ChannelNames /\ channels[i].token \in R!Secrets
  <2>1. \A i \in DOMAIN channels : channels[i] \in R!Channels BY <1>1
  <2>2. QED BY <2>1 DEF R!Channels, ChannelNames
<1>4. \A i \in DOMAIN channels :
        /\ file[i].key = <<ChannelFile, channels[i].type>>
        /\ file[i].value = channels[i].token /\ file[i] \in Lines
  <2> SUFFICES ASSUME NEW i \in DOMAIN channels
               PROVE  /\ file[i].key = <<ChannelFile, channels[i].type>>
                      /\ file[i].value = channels[i].token /\ file[i] \in Lines
    OBVIOUS
  <2>1. ChannelFile \in Places /\ channels[i].type \in Names
    BY <1>3 DEF ChannelFile, Places, Names
  <2>2. QED BY <1>2, <1>3, <2>1, LineIs
<1>5. file \in Seq(Lines)
  <2>1. file = [i \in 1 .. Len(channels) |-> file[i]] BY <1>1, <1>2 DEF R!ChannelLines
  <2>2. \A i \in 1 .. Len(channels) : file[i] \in Lines BY <1>1, <1>4
  <2>3. QED BY <1>1, <2>1, <2>2
<1>6. \A i \in DOMAIN channels : Holds(file, <<ChannelFile, channels[i].type>>, channels[i].token)
  BY <1>1, <1>2, <1>4 DEF Holds
<1>7. ASSUME R!Fits, NEW i \in DOMAIN channels
      PROVE  OnlyHolds(file, <<ChannelFile, channels[i].type>>, {channels[i].token})
  <2> SUFFICES ASSUME NEW n \in DOMAIN channels,
                      file[n].key = <<ChannelFile, channels[i].type>>
               PROVE  file[n].value = channels[i].token
    BY <1>1, <1>2 DEF OnlyHolds
  <2>1. <<ChannelFile, channels[n].type>> = <<ChannelFile, channels[i].type>> BY <1>4
  <2>2. channels[n].type = channels[i].type BY <2>1
  <2>3. n = i BY <1>7, <2>2 DEF R!Fits, R!ChannelsFit, R!OneOfAType
  <2>4. QED BY <1>4, <2>3
<1>8. ASSUME NEW key, NEW V, \A name \in ChannelNames : key # <<ChannelFile, name>>
      PROVE  OnlyHolds(file, key, V)
  BY <1>1, <1>2, <1>3, <1>4, <1>8 DEF OnlyHolds
<1>9. QED BY <1>5, <1>6, <1>7, <1>8

\* The lines of one integration, and GITHUB_TOKEN.
LEMMA IntegrationWritten ==
  ASSUME AttachedFits, NEW i \in DOMAIN integrations, NEW file, file = R!IntegrationLine(i)
  PROVE  /\ file \in Seq(Lines)
         /\ i \in R!McpServers => Holds(file, <<"mcp", R!McpSlug(i)>>, integrations[i].key)
         /\ \A key, V :
              /\ i \in R!McpServers /\ key = <<"mcp", R!McpSlug(i)>> => integrations[i].key \in V
              /\ key # <<"env github", integrations[i].slug>>
              /\ \A name \in ToolNames \ {"github"} : key # <<"env", name>>
              => OnlyHolds(file, key, V)
<1> DEFINE it == integrations[i]
<1>1. it \in R!Integrations BY DEF AttachedFits
<1>2. it.type \in R!IntegrationTypes /\ it.slug \in R!Slugs /\ it.key \in R!Secrets
  BY <1>1 DEF R!Integrations
<1>3. R!McpSlug(i) \in Names /\ it.slug \in Names
  BY <1>2 DEF R!McpSlug, Names, ChannelNames
<1>4. {"mcp", "env github", "env"} \subseteq Places BY DEF Places
<1>5. CASE i \in R!McpServers
  <2>1. file = <<R!Line("mcp", R!McpSlug(i), it.key)>> BY <1>5 DEF R!IntegrationLine
  <2>2. file \in Seq(Lines) BY <1>2, <1>3, <1>4, <2>1, OneLine
  <2>3. Holds(file, <<"mcp", R!McpSlug(i)>>, it.key) BY <2>1, OneLine, Zenon
  <2>4. ASSUME NEW key, NEW V, key = <<"mcp", R!McpSlug(i)>> => it.key \in V
        PROVE  OnlyHolds(file, key, V)
    BY <2>1, <2>4, OneLine, Zenon
  <2>5. QED BY <1>5, <2>2, <2>3, <2>4
<1>6. CASE i \notin R!McpServers /\ it.type = "github"
  <2>1. file = <<R!Line("env github", it.slug, it.key)>>
    <3>1. "github" \notin R!Scalars[agent] BY DEF R!Scalars, AttachedFits, R!Agents
    <3>2. QED BY <1>6, <3>1 DEF R!IntegrationLine
  <2>2. file \in Seq(Lines) BY <1>2, <1>3, <1>4, <2>1, OneLine
  <2>3. ASSUME NEW key, NEW V, key # <<"env github", it.slug>> PROVE OnlyHolds(file, key, V)
    BY <2>1, <2>3, OneLine, Zenon
  <2>4. QED BY <1>6, <2>2, <2>3
<1>7. CASE i \notin R!McpServers /\ it.type # "github" /\ it.type \in R!Scalars[agent]
  <2>1. file = <<R!Line("env", it.type, it.key)>> BY <1>7 DEF R!IntegrationLine
  <2>2. it.type \in ToolNames \ {"github"}
    BY <1>7 DEF R!Scalars, AttachedFits, R!Agents, ToolNames
  <2>3. it.type \in Names BY <2>2 DEF Names
  <2>4. file \in Seq(Lines) BY <1>2, <1>4, <2>1, <2>3, OneLine
  <2>5. ASSUME NEW key, NEW V, key # <<"env", it.type>> PROVE OnlyHolds(file, key, V)
    BY <2>1, <2>5, OneLine, Zenon
  <2>6. QED BY <1>7, <2>2, <2>4, <2>5
<1>8. CASE i \notin R!McpServers /\ it.type # "github" /\ it.type \notin R!Scalars[agent]
  <2>1. file = R!Nowhere BY <1>8 DEF R!IntegrationLine
  <2>2. QED BY <1>8, <2>1, NoLine
<1>9. QED BY <1>5, <1>6, <1>7, <1>8

GithubKeys == {integrations[i].key : i \in R!Githubs}
LEMMA GithubWritten ==
  ASSUME AttachedFits, NEW file, file = R!LastGithub
  PROVE  /\ file \in Seq(Lines)
         /\ R!Githubs # {} => \E v \in GithubKeys : Holds(file, <<"env", "github">>, v)
         /\ \A key, V : (key = <<"env", "github">> => GithubKeys \subseteq V) =>
              OnlyHolds(file, key, V)
<1>1. CASE R!Githubs = {}
  <2>1. file = R!Nowhere BY <1>1 DEF R!LastGithub
  <2>2. QED BY <1>1, <2>1, NoLine
<1>2. CASE R!Githubs # {}
  <2> DEFINE newest == CHOOSE i \in R!Githubs : \A j \in R!Githubs : j <= i
  <2>1. /\ R!Githubs \subseteq 1 .. Len(integrations) /\ Len(integrations) \in Nat
        /\ \A i \in R!Githubs : i \in DOMAIN integrations
    BY DEF R!Githubs, AttachedFits
  <2>2. \E i \in R!Githubs : \A j \in R!Githubs : j <= i BY <1>2, <2>1, HasGreatest
  <2>3. newest \in R!Githubs BY <2>2
  <2>4. file = <<R!Line("env", "github", integrations[newest].key)>> BY <1>2 DEF R!LastGithub
  <2> HIDE DEF newest
  <2>5. integrations[newest].key \in R!Secrets
    <3>1. \A i \in DOMAIN integrations : integrations[i] \in R!Integrations BY DEF AttachedFits
    <3>2. integrations[newest] \in R!Integrations BY <2>1, <2>3, <3>1
    <3>3. QED BY <3>2 DEF R!Integrations
  <2>6. integrations[newest].key \in GithubKeys BY <2>3 DEF GithubKeys
  <2>7. "env" \in Places /\ "github" \in Names BY DEF Places, Names, ToolNames
  <2>8. file \in Seq(Lines) BY <2>4, <2>5, <2>7, OneLine
  <2>9. Holds(file, <<"env", "github">>, integrations[newest].key) BY <2>4, OneLine, Zenon
  <2>10. ASSUME NEW key, NEW V, key = <<"env", "github">> => GithubKeys \subseteq V
         PROVE  OnlyHolds(file, key, V)
    <3>1. key = <<"env", "github">> => integrations[newest].key \in V BY <2>6, <2>10
    <3>2. QED BY <2>4, <3>1, OneLine, Zenon
  <2>11. QED BY <2>6, <2>8, <2>9, <2>10
<1>3. QED BY <1>1, <1>2

\* All of them.
LEMMA IntegrationsWritten ==
  ASSUME AttachedFits, R!Fits, NEW file, file = R!IntegrationLines
  PROVE  /\ file \in Seq(Lines)
         /\ \A i \in R!McpServers :
              /\ Holds(file, <<"mcp", R!McpSlug(i)>>, integrations[i].key)
              /\ OnlyHolds(file, <<"mcp", R!McpSlug(i)>>, {integrations[i].key})
         /\ R!Githubs # {} => \E v \in GithubKeys : Holds(file, <<"env", "github">>, v)
         /\ OnlyHolds(file, <<"env", "github">>, GithubKeys)
         /\ \A place \in {"env", "config"} : \A name, V :
              name \notin ToolNames => OnlyHolds(file, <<place, name>>, V)
<1> DEFINE one == IF Len(integrations) >= 1 THEN R!IntegrationLine(1) ELSE R!Nowhere
<1> DEFINE two == IF Len(integrations) = 2 THEN R!IntegrationLine(2) ELSE R!Nowhere
<1> DEFINE github == R!LastGithub
<1>1. file = one \o two \o github BY DEF R!IntegrationLines
<1>2. Len(integrations) \in 0 .. 2 /\ DOMAIN integrations = 1 .. Len(integrations)
  <2>1. integrations \in Seq(R!Integrations) /\ Len(integrations) <= 2 BY DEF AttachedFits
  <2>2. Len(integrations) \in Nat /\ DOMAIN integrations = 1 .. Len(integrations) BY <2>1
  <2>3. QED BY <2>1, <2>2
<1>3. /\ Len(integrations) >= 1 => 1 \in DOMAIN integrations
      /\ Len(integrations) = 2 => 2 \in DOMAIN integrations
      /\ \A i \in DOMAIN integrations :
           (i = 1 /\ Len(integrations) >= 1) \/ (i = 2 /\ Len(integrations) = 2)
      /\ R!McpServers \subseteq DOMAIN integrations
  BY <1>2 DEF R!McpServers
\* What holds of each line holds of the three parts.
<1> DEFINE Spared(key, V) ==
      \A i \in DOMAIN integrations :
        /\ i \in R!McpServers /\ key = <<"mcp", R!McpSlug(i)>> => integrations[i].key \in V
        /\ key # <<"env github", integrations[i].slug>>
        /\ \A name \in ToolNames \ {"github"} : key # <<"env", name>>
<1>4. /\ one \in Seq(Lines)
      /\ 1 \in R!McpServers => Holds(one, <<"mcp", R!McpSlug(1)>>, integrations[1].key)
      /\ \A key, V : Spared(key, V) => OnlyHolds(one, key, V)
  <2>1. CASE Len(integrations) >= 1 BY <1>3, <2>1, IntegrationWritten
  <2>2. CASE ~ (Len(integrations) >= 1)
    <3>1. 1 \notin R!McpServers BY <1>2, <1>3, <2>2
    <3>2. QED BY <2>2, <3>1, NoLine
  <2>3. QED BY <2>1, <2>2
<1>5. /\ two \in Seq(Lines)
      /\ 2 \in R!McpServers => Holds(two, <<"mcp", R!McpSlug(2)>>, integrations[2].key)
      /\ \A key, V : Spared(key, V) => OnlyHolds(two, key, V)
  <2>1. CASE Len(integrations) = 2 BY <1>3, <2>1, IntegrationWritten
  <2>2. CASE ~ (Len(integrations) = 2)
    <3>1. 2 \notin R!McpServers BY <1>2, <1>3, <2>2
    <3>2. QED BY <2>2, <3>1, NoLine
  <2>3. QED BY <2>1, <2>2
<1>6. /\ github \in Seq(Lines)
      /\ R!Githubs # {} => \E v \in GithubKeys : Holds(github, <<"env", "github">>, v)
      /\ \A key, V : (key = <<"env", "github">> => GithubKeys \subseteq V) =>
           OnlyHolds(github, key, V)
  BY GithubWritten
<1> HIDE DEF one, two, github
<1>7. one \o two \in Seq(Lines) /\ file \in Seq(Lines)
  <2>1. one \in Seq(Lines) /\ two \in Seq(Lines) BY <1>4, <1>5, Zenon
  <2>2. one \o two \in Seq(Lines) BY <2>1
  <2>3. github \in Seq(Lines) BY <1>6, Zenon
  <2>4. QED BY <1>1, <2>2, <2>3
<1>8. ASSUME NEW key, NEW v, Holds(one, key, v) \/ Holds(two, key, v) \/ Holds(github, key, v)
      PROVE  Holds(file, key, v)
  <2>1. Holds(one, key, v) \/ Holds(two, key, v) => Holds(one \o two, key, v)
    BY <1>4, <1>5, JoinedFiles, Zenon
  <2>2. Holds(one \o two, key, v) \/ Holds(github, key, v) => Holds(file, key, v)
    BY <1>1, <1>6, <1>7, JoinedFiles, Zenon
  <2>3. QED BY <1>8, <2>1, <2>2
<1>9. ASSUME NEW key, NEW V, Spared(key, V), key = <<"env", "github">> => GithubKeys \subseteq V
      PROVE  OnlyHolds(file, key, V)
  <2>0. OnlyHolds(one, key, V) /\ OnlyHolds(two, key, V) BY <1>4, <1>5, <1>9, Zenon
  <2>1. OnlyHolds(one \o two, key, V) BY <1>4, <1>5, <2>0, JoinedFiles, Zenon
  <2>2. OnlyHolds(github, key, V) BY <1>6, <1>9, Zenon
  <2>3. QED BY <1>1, <1>6, <1>7, <2>1, <2>2, JoinedFiles, Zenon
<1>10. ASSUME NEW i \in R!McpServers
       PROVE  /\ Holds(file, <<"mcp", R!McpSlug(i)>>, integrations[i].key)
              /\ OnlyHolds(file, <<"mcp", R!McpSlug(i)>>, {integrations[i].key})
  <2>1. i = 1 \/ i = 2 BY <1>3
  <2>2. Holds(file, <<"mcp", R!McpSlug(i)>>, integrations[i].key)
    BY <1>4, <1>5, <1>8, <2>1
  <2> DEFINE key == <<"mcp", R!McpSlug(i)>>
  <2>3. ASSUME NEW j \in R!McpServers, key = <<"mcp", R!McpSlug(j)>>
        PROVE  integrations[j].key \in {integrations[i].key}
    <3>1. R!McpSlug(j) = R!McpSlug(i) BY <2>3
    <3>2. j = i BY <3>1 DEF R!Fits, R!IntegrationsFit, R!SlugsFit
    <3>3. QED BY <3>2
  <2>4. Spared(key, {integrations[i].key}) BY <2>3
  <2>5. key # <<"env", "github">> OBVIOUS
  <2> HIDE DEF key, Spared
  <2>6. OnlyHolds(file, key, {integrations[i].key}) BY <1>9, <2>4, <2>5
  <2>7. QED BY <2>2, <2>6 DEF key
<1>11. OnlyHolds(file, <<"env", "github">>, GithubKeys)
  <2> DEFINE key == <<"env", "github">>
  <2>1. Spared(key, GithubKeys) OBVIOUS
  <2> HIDE DEF key, Spared
  <2>2. OnlyHolds(file, key, GithubKeys) BY <1>9, <2>1
  <2>3. QED BY <2>2 DEF key
<1>12. ASSUME NEW place \in {"env", "config"}, NEW name, NEW V, name \notin ToolNames
       PROVE  OnlyHolds(file, <<place, name>>, V)
  <2> DEFINE key == <<place, name>>
  <2>1. Spared(key, V) BY <1>12
  <2>2. key # <<"env", "github">> BY <1>12 DEF ToolNames
  <2> HIDE DEF key, Spared
  <2>3. OnlyHolds(file, key, V) BY <1>9, <2>1, <2>2
  <2>4. QED BY <2>3 DEF key
<1>13. R!Githubs # {} => \E v \in GithubKeys : Holds(file, <<"env", "github">>, v)
  BY <1>6, <1>8
<1>14. QED BY <1>7, <1>10, <1>11, <1>12, <1>13

\* What has been rendered is what the daemon finds.
LEMMA RenderedShown == ASSUME RenderInv PROVE R!NothingShadowed
<1> SUFFICES ASSUME stage = "rendered" PROVE R!NothingShadowed BY DEF R!NothingShadowed
<1>1. AttachedFits /\ R!ProvidersComplete /\ R!Fits BY DEF RenderInv
<1> DEFINE first == R!ProviderLines
<1> DEFINE second == R!ChannelLines
<1> DEFINE third == R!IntegrationLines
<1>2. lines = first \o second \o third BY DEF RenderInv
<1>3. /\ first \in Seq(Lines)
      /\ \A key, V :
           (\A i \in DOMAIN providers : R!ProviderKey(providers[i]) = key => providers[i].key \in V)
             => OnlyHolds(first, key, V)
      /\ \A i \in DOMAIN providers :
           \/ R!Silent(providers[i]) \/ providers[i].type \in R!Keyless
           \/ Holds(first, R!ProviderKey(providers[i]), providers[i].key)
  BY <1>1, ProvidersWritten
<1>4. /\ second \in Seq(Lines)
      /\ \A i \in DOMAIN channels :
           /\ Holds(second, <<ChannelFile, channels[i].type>>, channels[i].token)
           /\ OnlyHolds(second, <<ChannelFile, channels[i].type>>, {channels[i].token})
      /\ \A key, V : (\A name \in ChannelNames : key # <<ChannelFile, name>>) =>
           OnlyHolds(second, key, V)
  BY <1>1, ChannelsWritten
<1>5. /\ third \in Seq(Lines)
      /\ \A i \in R!McpServers :
           /\ Holds(third, <<"mcp", R!McpSlug(i)>>, integrations[i].key)
           /\ OnlyHolds(third, <<"mcp", R!McpSlug(i)>>, {integrations[i].key})
      /\ R!Githubs # {} => \E v \in GithubKeys : Holds(third, <<"env", "github">>, v)
      /\ OnlyHolds(third, <<"env", "github">>, GithubKeys)
      /\ \A place \in {"env", "config"} : \A name, V :
           name \notin ToolNames => OnlyHolds(third, <<place, name>>, V)
  BY <1>1, IntegrationsWritten
<1> HIDE DEF first, second, third
<1>6. first \o second \in Seq(Lines) /\ lines \in Seq(Lines)
  <2>1. first \o second \in Seq(Lines) BY <1>3, <1>4
  <2>2. QED BY <1>2, <1>5, <2>1
<1>7. ASSUME NEW key, NEW v, Holds(first, key, v) \/ Holds(second, key, v) \/ Holds(third, key, v)
      PROVE  Holds(lines, key, v)
  <2>1. Holds(first, key, v) \/ Holds(second, key, v) => Holds(first \o second, key, v)
    BY <1>3, <1>4, JoinedFiles, Zenon
  <2>2. Holds(first \o second, key, v) \/ Holds(third, key, v) => Holds(lines, key, v)
    BY <1>2, <1>5, <1>6, JoinedFiles, Zenon
  <2>3. QED BY <1>7, <2>1, <2>2
<1>8. ASSUME NEW key, NEW V,
             OnlyHolds(first, key, V), OnlyHolds(second, key, V), OnlyHolds(third, key, V)
      PROVE  OnlyHolds(lines, key, V)
  <2>1. OnlyHolds(first \o second, key, V) BY <1>3, <1>4, <1>8, JoinedFiles, Zenon
  <2>2. QED BY <1>2, <1>5, <1>6, <1>8, <2>1, JoinedFiles, Zenon
\* A provider: nobody else's lines have its key.
<1>9. ASSUME NEW i \in DOMAIN providers PROVE R!Silent(providers[i]) \/ R!Delivers(providers[i])
  <2> SUFFICES ASSUME ~ R!Silent(providers[i]), providers[i].type \notin R!Keyless
               PROVE  R!Found(R!ProviderKey(providers[i])) = providers[i].key
    BY DEF R!Delivers
  <2> DEFINE key == R!ProviderKey(providers[i])
  <2> DEFINE V == {providers[i].key}
  <2>1. Holds(lines, key, providers[i].key) BY <1>3, <1>7
  <2>2. OnlyHolds(first, key, V)
    <3>1. \A j \in DOMAIN providers : R!ProviderKey(providers[j]) = key => providers[j].key \in V
      BY <1>1, ProviderKeysAgree
    <3>2. QED BY <1>3, <3>1
  <2>3. PICK place \in {"env", "config"}, name \in ProviderNames : key = <<place, name>>
    BY <1>1, ProviderFacts, ProviderPlace DEF AttachedFits
  <2>4. name \notin ChannelNames \cup ToolNames BY NamesApart
  <2>5. OnlyHolds(third, key, V) BY <1>5, <2>3, <2>4
  <2>6. \A other \in ChannelNames : key # <<ChannelFile, other>> BY <2>3, <2>4
  <2> HIDE DEF key, V
  <2>7. OnlyHolds(second, key, V) BY <1>4, <2>6
  <2>8. R!Found(key) \in V BY <1>6, <1>8, <2>1, <2>2, <2>5, <2>7, FoundAmong
  <2>9. QED BY <2>8 DEF key, V
\* A channel.
<1>10. ASSUME NEW i \in DOMAIN channels
       PROVE  R!Found(<<ChannelFile, channels[i].type>>) = channels[i].token
  <2> DEFINE key == <<ChannelFile, channels[i].type>>
  <2> DEFINE V == {channels[i].token}
  <2>1. Holds(lines, key, channels[i].token) /\ OnlyHolds(second, key, V) BY <1>4, <1>7
  <2>2. channels[i].type \in ChannelNames /\ ChannelFile \in {"env", "config"}
    <3>1. channels[i] \in R!Channels BY <1>1 DEF AttachedFits
    <3>2. QED BY <3>1 DEF R!Channels, ChannelNames, ChannelFile
  <2>3. OnlyHolds(third, key, V) BY <1>5, <2>2, NamesApart
  <2>4. ASSUME NEW j \in DOMAIN providers, R!ProviderKey(providers[j]) = key PROVE FALSE
    <3>1. PICK place \in {"env", "config"}, name \in ProviderNames :
            R!ProviderKey(providers[j]) = <<place, name>>
      BY <1>1, ProviderFacts, ProviderPlace DEF AttachedFits
    <3>2. <<place, name>> = <<ChannelFile, channels[i].type>> BY <2>4, <3>1
    <3>3. name = channels[i].type BY <3>2
    <3>4. QED BY <2>2, <3>3, NamesApart
  <2> HIDE DEF key, V
  <2>5. OnlyHolds(first, key, V) BY <1>3, <2>4
  <2>6. R!Found(key) \in V BY <1>6, <1>8, <2>1, <2>3, <2>5, FoundAmong
  <2>7. QED BY <2>6 DEF key, V
\* A key no provider and no channel has.
<1>11. ASSUME NEW place, NEW name, place = "mcp" \/ (place = "env" /\ name = "github"), NEW V
       PROVE  OnlyHolds(first, <<place, name>>, V) /\ OnlyHolds(second, <<place, name>>, V)
  <2>1. place = "env" => name \notin ProviderNames \cup ChannelNames
    BY <1>11, NamesApart DEF ToolNames
  <2>2. place \notin {"env", "config"} \/ (place = "env" /\ name = "github") BY <1>11
  <2>3. ASSUME NEW j \in DOMAIN providers, R!ProviderKey(providers[j]) = <<place, name>>
        PROVE  FALSE
    <3>1. PICK file \in {"env", "config"}, other \in ProviderNames :
            R!ProviderKey(providers[j]) = <<file, other>>
      BY <1>1, ProviderFacts, ProviderPlace DEF AttachedFits
    <3>2. <<file, other>> = <<place, name>> BY <2>3, <3>1
    <3>3. file = place /\ other = name BY <3>2
    <3>4. QED BY <2>1, <2>2, <3>3
  <2>4. ASSUME NEW other \in ChannelNames, <<place, name>> = <<ChannelFile, other>> PROVE FALSE
    <3>1. place = ChannelFile /\ name = other BY <2>4
    <3>2. ChannelFile \in {"env", "config"} BY DEF ChannelFile
    <3>3. QED BY <2>1, <2>2, <3>1, <3>2
  <2> DEFINE key == <<place, name>>
  <2>5. \A j \in DOMAIN providers : R!ProviderKey(providers[j]) = key => providers[j].key \in V
    BY <2>3
  <2>6. \A other \in ChannelNames : key # <<ChannelFile, other>> BY <2>4
  <2> HIDE DEF key
  <2>7. OnlyHolds(first, key, V) /\ OnlyHolds(second, key, V) BY <1>3, <1>4, <2>5, <2>6
  <2>8. QED BY <2>7 DEF key
<1>12. ASSUME NEW i \in R!McpServers PROVE R!Found(<<"mcp", R!McpSlug(i)>>) = integrations[i].key
  <2> DEFINE key == <<"mcp", R!McpSlug(i)>>
  <2> DEFINE V == {integrations[i].key}
  <2>1. Holds(lines, key, integrations[i].key) /\ OnlyHolds(third, key, V) BY <1>5, <1>7
  <2>2. OnlyHolds(first, key, V) /\ OnlyHolds(second, key, V) BY <1>11
  <2> HIDE DEF key, V
  <2>3. R!Found(key) \in V BY <1>6, <1>8, <2>1, <2>2, FoundAmong
  <2>4. QED BY <2>3 DEF key, V
<1>13. ASSUME R!Githubs # {} PROVE R!Found(<<"env", "github">>) \in GithubKeys
  <2> DEFINE key == <<"env", "github">>
  <2>1. PICK v \in GithubKeys : Holds(third, key, v) BY <1>5, <1>13
  <2>2. Holds(lines, key, v) BY <1>7, <2>1
  <2>3. OnlyHolds(third, key, GithubKeys) BY <1>5
  <2>4. OnlyHolds(first, key, GithubKeys) /\ OnlyHolds(second, key, GithubKeys) BY <1>11
  <2> HIDE DEF key
  <2>5. R!Found(key) \in GithubKeys BY <1>6, <1>8, <2>2, <2>3, <2>4, FoundAmong
  <2>6. QED BY <2>5 DEF key
<1>14. QED BY <1>9, <1>10, <1>12, <1>13 DEF R!NothingShadowed, ChannelFile, GithubKeys

-----------------------------------------------------------------------------
\* What is written is read from the attachments alone.
LEMMA WrittenSame ==
  ASSUME UNCHANGED <<agent, gateway, providers, channels, integrations>>
  PROVE  /\ AttachedFits' = AttachedFits /\ R!ProvidersComplete' = R!ProvidersComplete
         /\ R!Fits' = R!Fits
         /\ R!ProviderLines' = R!ProviderLines /\ R!ChannelLines' = R!ChannelLines
         /\ R!IntegrationLines' = R!IntegrationLines
<1>1. R!Primary' = R!Primary BY DEF R!Primary
<1>2. R!Auxiliaries' = R!Auxiliaries BY DEF R!Auxiliaries
<1>3. R!HermesProviders' = R!HermesProviders BY <1>1, <1>2 DEF R!HermesProviders
<1>4. R!ProviderLines' = R!ProviderLines BY <1>1, <1>3 DEF R!ProviderLines
<1>5. R!ChannelLines' = R!ChannelLines BY DEF R!ChannelLines
<1>6. R!McpServers' = R!McpServers /\ R!Githubs' = R!Githubs BY DEF R!McpServers, R!Githubs
<1>7. \A i : R!McpSlug(i)' = R!McpSlug(i) BY DEF R!McpSlug
<1>8. \A i : R!IntegrationLine(i)' = R!IntegrationLine(i) BY <1>6, <1>7 DEF R!IntegrationLine
<1>9. R!LastGithub' = R!LastGithub BY <1>6 DEF R!LastGithub
<1>10. R!IntegrationLines' = R!IntegrationLines BY <1>8, <1>9 DEF R!IntegrationLines
<1>11. \A p : R!Complete(p)' = R!Complete(p) BY DEF R!Complete
<1>12. R!ProvidersComplete' = R!ProvidersComplete BY <1>1, <1>11 DEF R!ProvidersComplete
<1>13. R!Fits' = R!Fits
  BY <1>6, <1>7 DEF R!Fits, R!ChannelsFit, R!OneOfAType, R!IntegrationsFit, R!SlugsFit
<1>14. AttachedFits' = AttachedFits BY DEF AttachedFits, R!Attachable
<1>15. QED BY <1>4, <1>5, <1>10, <1>12, <1>13, <1>14

LEMMA RenderTyped == ASSUME RenderInv PROVE R!TypeOK
  BY DEF RenderInv, AttachedFits, R!TypeOK

LEMMA RenderStart == ASSUME R!Init PROVE RenderInv
<1>1. ASSUME NEW S, NEW s \in R!UpTo2(S) PROVE s \in Seq(S) /\ Len(s) <= 2
  <2>1. PICK n \in 0 .. 2 : s \in [1 .. n -> S] BY <1>1 DEF R!UpTo2
  <2>2. s \in Seq(S) /\ Len(s) = n BY <2>1
  <2>3. QED BY <2>2
<1>2. <<>> \in R!UpTo2(R!Channels) /\ <<>> \in R!UpTo2(R!Integrations)
  <2>1. ASSUME NEW S PROVE <<>> \in R!UpTo2(S)
    <3>1. <<>> \in [1 .. 0 -> S] OBVIOUS
    <3>2. QED BY <3>1 DEF R!UpTo2
  <2>2. QED BY <2>1
<1>3. R!Usual \in Seq(R!Providers)
  BY DEF R!Usual, R!Providers, R!ProviderTypes, R!Bearers, R!Secrets
<1>4. providers \in Seq(R!Providers) BY <1>1, <1>3 DEF R!Init
<1>5. channels \in Seq(R!Channels) BY <1>1, <1>2 DEF R!Init
<1>6. integrations \in Seq(R!Integrations) /\ Len(integrations) <= 2 BY <1>1, <1>2 DEF R!Init
<1>7. QED BY <1>4, <1>5, <1>6 DEF RenderInv, AttachedFits, R!Init

LEMMA RenderStep == ASSUME RenderInv, R!Next PROVE RenderInv'
<1>1. UNCHANGED <<agent, gateway, providers, channels, integrations>>
  BY DEF R!Next, R!BuildRenderInputs, R!Render, R!attachments
<1>2. AttachedFits' BY <1>1, WrittenSame DEF RenderInv
<1>3. CASE R!BuildRenderInputs
  <2>1. lines' = lines /\ stage = "attached" /\ stage' \in {"inputs", "refused"}
        /\ (stage' = "inputs" => R!ProvidersComplete)
    BY <1>3 DEF R!BuildRenderInputs
  <2>2. QED BY <1>1, <1>2, <2>1, WrittenSame DEF RenderInv
<1>4. CASE R!Render
  <2>1. stage = "inputs" /\ R!ProvidersComplete BY <1>4 DEF R!Render, RenderInv
  <2>2. CASE R!Fits
    <3>1. stage' = "rendered"
          /\ lines' = R!ProviderLines \o R!ChannelLines \o R!IntegrationLines
      BY <1>4, <2>2 DEF R!Render
    <3>2. lines' = R!ProviderLines' \o R!ChannelLines' \o R!IntegrationLines'
      BY <1>1, <3>1, WrittenSame
    <3>3. R!Fits' /\ R!ProvidersComplete' BY <1>1, <2>1, <2>2, WrittenSame
    <3>4. QED BY <1>2, <3>1, <3>2, <3>3 DEF RenderInv
  <2>3. CASE ~ R!Fits
    <3>1. stage' = "refused" /\ lines' = lines BY <1>4, <2>3 DEF R!Render
    <3>2. QED BY <1>2, <2>1, <3>1 DEF RenderInv
  <2>4. QED BY <2>2, <2>3
<1>5. QED BY <1>3, <1>4 DEF R!Next

LEMMA RenderStutter == ASSUME RenderInv, UNCHANGED renderVars PROVE RenderInv'
<1>1. UNCHANGED <<agent, gateway, providers, channels, integrations, stage, lines>>
  BY DEF renderVars
<1>2. QED BY <1>1, WrittenSame DEF RenderInv

-----------------------------------------------------------------------------
(***************************************************************************)
(* ClaudeCredential.  An activation that nobody has overlapped knows what  *)
(* its steps have left of the account; and until activations overlap, or   *)
(* one is cut off, every one is such.                                      *)
(***************************************************************************)
OneFile == \E m \in C!Modes : artifact[m] = "none"
AllIdle == \A p \in Procs : C!On(p, "idle")
\* An activation that is alone at it: nobody else is active.
Solitary ==
  \A p \in Procs : active[p].alone /\ ~ C!On(p, "idle") =>
    \A q \in Procs \ {p} : C!On(q, "idle")
\* What it has done so far is still there.
StillThere(p) ==
  /\ active[p].at \in {"clean", "assert", "promote"} => staged[active[p].mode] = active[p].value
  /\ active[p].at \in {"assert", "promote"} => artifact[C!Other(active[p].mode)] = "none"
  /\ active[p].at \in {"remove", "verify"} => artifact[active[p].mode] = active[p].value
Undisturbed == \A p \in Procs : active[p].alone => StillThere(p)
\* What a failure comes back to: the account as it was found, or one without the new file.
WayBack(p) ==
  /\ active[p].at \in {"read", "stage", "clean", "assert", "promote", "backup"} => OneFile
  /\ active[p].at \in {"replace", "remove", "verify", "rescue"} /\ active[p].prior =>
       artifact[C!Other(active[p].mode)] = "none"
Unmixed ==
  ~ mixed =>
    /\ \A p \in Procs : (~ C!On(p, "idle") => active[p].alone) /\ WayBack(p)
    /\ AllIdle => OneFile
\* The activation that ended last has left what was selected.
Delivery ==
  outcome # C!Nothing =>
    AllIdle /\ artifact = [C!Empty EXCEPT ![outcome.mode] = outcome.value]
ClaudeInv == C!TypeOK /\ Solitary /\ Undisturbed /\ Unmixed /\ Delivery

\* The modes, one of which is the other of the other.
LEMMA OtherMode ==
  ASSUME NEW m \in C!Modes
  PROVE  /\ C!Other(m) \in C!Modes /\ C!Other(m) # m
         /\ \A o \in C!Modes : o # m => o = C!Other(m)
<1>1. \E o \in C!Modes : o # m BY DEF C!Modes
<1>2. C!Other(m) \in C!Modes /\ C!Other(m) # m BY <1>1 DEF C!Other
<1>3. QED BY <1>2 DEF C!Modes

\* Activations, as C!TypeOK has them.
Activations == [at : {"idle", "read", "stage", "clean", "assert", "promote",
                      "backup", "replace", "remove", "verify", "rescue"},
                how : {"sync", "configure"}, mode : C!Modes, value : C!Values,
                prior : BOOLEAN, alone : BOOLEAN]
LEMMA RestTyped ==
  /\ C!Resting \in Activations /\ C!Resting.at = "idle" /\ C!Resting.alone = FALSE
  /\ C!Nothing \in [mode : C!Modes, value : C!Values]
<1>1. \A x \in BOOLEAN : [at |-> "idle", how |-> "sync", mode |-> "oauth", value |-> "none",
                          prior |-> x, alone |-> x] \in Activations
  BY DEF Activations, C!Modes, C!Values
<1>2. C!Resting \in Activations BY <1>1, Zenon DEF C!Resting
<1>3. C!Resting.alone = FALSE BY Zenon DEF C!Resting
<1>4. QED BY <1>2, <1>3 DEF C!Resting, C!Nothing, C!Modes, C!Values

\* A step of an activation, from a place to one of the places it can come to.
Acts(p, new) ==
  /\ active' = [active EXCEPT ![p] = new] /\ new \in Activations
  /\ UNCHANGED <<secret, activations, selections>>
\* One that is over, or has not got better: what the invariant says of it comes after.
LEMMA ActsTyped ==
  ASSUME C!TypeOK, NEW p \in Procs, NEW new, Acts(p, new)
  PROVE  /\ active \in [Procs -> Activations] /\ active' \in [Procs -> Activations]
         /\ active'[p] = new /\ active[p] \in Activations
         /\ \A q \in Procs \ {p} : active'[q] = active[q]
<1>1. active \in [Procs -> Activations] BY DEF C!TypeOK, Activations
<1>2. QED BY <1>1 DEF Acts

\* The account, once it has a value for one mode and nothing for the other.
LEMMA OneLeft ==
  ASSUME NEW account \in [C!Modes -> C!Values], NEW m \in C!Modes, NEW v,
         account[m] = v, account[C!Other(m)] = "none"
  PROVE  account = [C!Empty EXCEPT ![m] = v]
<1>1. \A o \in C!Modes : account[o] = IF o = m THEN v ELSE "none" BY OtherMode
<1>2. QED BY <1>1 DEF C!Empty

\* A step of an activation in a run nobody disturbs speaks of no other: the invariant holds
\* when it holds of this one.
LEMMA ActivationKeeps ==
  ASSUME ClaudeInv, NEW p \in Procs, ~ C!On(p, "idle"), NEW new, Acts(p, new),
         artifact' \in [C!Modes -> C!Values], staged' \in [C!Modes -> C!Values],
         backup' \in [C!Modes -> C!Values], mixed' \in BOOLEAN,
         outcome' \in [mode : C!Modes, value : C!Values],
         new.at # "idle" => new.alone = active[p].alone,
         active[p].alone => StillThere(p)',
         ~ mixed' => active[p].alone /\ WayBack(p)',
         ~ mixed' /\ new.at = "idle" => OneFile',
         \/ outcome' = outcome
         \/ active[p].alone /\ new.at = "idle"
            /\ artifact' = [C!Empty EXCEPT ![outcome'.mode] = outcome'.value]
  PROVE  ClaudeInv'
<1>1. /\ active \in [Procs -> Activations] /\ active' \in [Procs -> Activations]
      /\ active'[p] = new /\ \A q \in Procs \ {p} : active'[q] = active[q]
  BY ActsTyped DEF ClaudeInv
<1>2. C!TypeOK' BY <1>1 DEF ClaudeInv, C!TypeOK, Acts, Activations
<1>3. \A q \in Procs \ {p} : active[q].alone => active[q].at = "idle"
  BY DEF ClaudeInv, Solitary, C!On
<1>4. active[p].alone => \A q \in Procs \ {p} : active'[q].at = "idle"
  BY <1>1 DEF ClaudeInv, Solitary, C!On
<1>5. Solitary' BY <1>1, <1>3, <1>4 DEF Solitary, C!On
<1>6. Undisturbed'
  <2>1. ASSUME NEW q \in Procs \ {p}, active'[q].alone PROVE StillThere(q)'
    BY <1>1, <1>3, <2>1 DEF StillThere
  <2>2. ASSUME active'[p].alone PROVE StillThere(p)'
    <3>1. CASE new.at = "idle" BY <1>1, <3>1 DEF StillThere
    <3>2. CASE new.at # "idle" BY <1>1, <2>2, <3>2
    <3>3. QED BY <3>1, <3>2
  <2>3. QED BY <2>1, <2>2 DEF Undisturbed
<1>7. Unmixed'
  <2> SUFFICES ASSUME ~ mixed' PROVE Unmixed' BY DEF Unmixed
  <2>1. active[p].alone /\ WayBack(p)' OBVIOUS
  <2>2. \A q \in Procs \ {p} : C!On(q, "idle")' /\ WayBack(q)' BY <1>4, <2>1 DEF C!On, WayBack
  <2>3. ~ C!On(p, "idle")' => active'[p].alone BY <1>1, <2>1 DEF C!On
  <2>4. AllIdle' => OneFile' BY <1>1 DEF AllIdle, C!On
  <2>5. QED BY <2>1, <2>2, <2>3, <2>4 DEF Unmixed
<1>8. Delivery'
  <2>1. outcome = C!Nothing BY DEF ClaudeInv, Delivery, AllIdle
  <2>2. C!Nothing' = C!Nothing BY DEF C!Nothing
  <2>3. CASE outcome' = outcome BY <2>1, <2>2, <2>3 DEF Delivery
  <2>4. CASE active[p].alone /\ new.at = "idle"
             /\ artifact' = [C!Empty EXCEPT ![outcome'.mode] = outcome'.value]
    <3>1. AllIdle' BY <1>1, <1>4, <2>4 DEF AllIdle, C!On
    <3>2. C!Empty' = C!Empty BY DEF C!Empty, C!Modes
    <3>3. QED BY <2>4, <3>1, <3>2 DEF Delivery
  <2>5. QED BY <2>3, <2>4
<1>9. QED BY <1>2, <1>5, <1>6, <1>7, <1>8 DEF ClaudeInv

\* What the invariant says of an activation before its step.
LEMMA ActivationFacts ==
  ASSUME ClaudeInv, NEW p \in Procs, ~ C!On(p, "idle")
  PROVE  /\ active[p] \in Activations /\ active \in [Procs -> Activations]
         /\ artifact \in [C!Modes -> C!Values] /\ staged \in [C!Modes -> C!Values]
         /\ backup \in [C!Modes -> C!Values] /\ secret \in [C!Modes -> C!Values]
         /\ mixed \in BOOLEAN /\ outcome \in [mode : C!Modes, value : C!Values]
         /\ active[p].mode \in C!Modes /\ active[p].value \in C!Values
         /\ C!Other(active[p].mode) \in C!Modes /\ C!Other(active[p].mode) # active[p].mode
         /\ "none" \in C!Values
         /\ active[p].alone => StillThere(p)
         /\ ~ mixed => active[p].alone /\ WayBack(p)
<1>1. C!TypeOK BY DEF ClaudeInv
<1>2. active \in [Procs -> Activations] BY <1>1 DEF C!TypeOK, Activations
<1>3. active[p] \in Activations BY <1>2
<1>4. active[p].mode \in C!Modes /\ active[p].value \in C!Values BY <1>3 DEF Activations
<1>5. C!Other(active[p].mode) \in C!Modes /\ C!Other(active[p].mode) # active[p].mode
  BY <1>4, OtherMode
<1>6. active[p].alone => StillThere(p) BY DEF ClaudeInv, Undisturbed
<1>7. ~ mixed => active[p].alone /\ WayBack(p) BY DEF ClaudeInv, Unmixed
<1>8. QED BY <1>1, <1>2, <1>3, <1>4, <1>5, <1>6, <1>7 DEF C!TypeOK, C!Values

-----------------------------------------------------------------------------
\* The operator selects.
LEMMA SelectionKeeps ==
  ASSUME ClaudeInv, ClaudeAssumption, C!CreateSecret \/ C!ImportLocal \/ C!Deselect
  PROVE  ClaudeInv'
<1>1. UNCHANGED <<artifact, staged, backup, active, mixed, outcome, activations>>
  BY DEF C!CreateSecret, C!ImportLocal, C!Deselect, C!Configure, C!account
<1>2. selections' \in 0 .. MaxSelections
  BY DEF C!CreateSecret, C!ImportLocal, C!Deselect, C!Configure, ClaudeAssumption,
         ClaudeInv, C!TypeOK
<1>3. secret' \in [C!Modes -> C!Values]
  <2>1. ASSUME NEW m \in C!Modes, NEW v \in C!Values, C!Configure(m, v)
        PROVE  secret' \in [C!Modes -> C!Values]
    BY <2>1 DEF C!Configure, C!Empty, C!Values
  <2>2. ASSUME C!Deselect PROVE secret' \in [C!Modes -> C!Values]
    BY <2>2 DEF C!Deselect, ClaudeInv, C!TypeOK, C!Values
  <2>3. "oauth" \in C!Modes BY DEF C!Modes
  <2>4. QED BY <2>1, <2>2, <2>3 DEF C!CreateSecret, C!ImportLocal, C!Documents
<1>4. C!TypeOK' BY <1>1, <1>2, <1>3 DEF ClaudeInv, C!TypeOK
<1>5. (Solitary /\ Undisturbed /\ Unmixed)'
  BY <1>1 DEF ClaudeInv, Solitary, Undisturbed, Unmixed, StillThere, WayBack, OneFile, AllIdle,
              C!On
<1>6. Delivery'
  <2>1. C!Nothing' = C!Nothing /\ C!Empty' = C!Empty BY DEF C!Nothing, C!Empty, C!Modes
  <2>2. QED BY <1>1, <2>1 DEF ClaudeInv, Delivery, AllIdle, C!On
<1>7. QED BY <1>4, <1>5, <1>6 DEF ClaudeInv

\* One that begins beside another leaves neither alone.
LEMMA ActivationBegins ==
  ASSUME ClaudeInv, ClaudeAssumption, NEW p \in Procs, C!Begin(p)
  PROVE  ClaudeInv'
<1> DEFINE alone == \A q \in Procs : C!On(q, "idle")
<1>1. PICK m \in C!Selected, how \in {"sync", "configure"} :
        /\ active' = [q \in Procs |->
             IF q = p THEN [C!Resting EXCEPT !.at = "read", !.how = how, !.mode = m,
                                             !.alone = alone]
             ELSE IF C!On(q, "idle") THEN active[q] ELSE [active[q] EXCEPT !.alone = FALSE]]
        /\ mixed' = (mixed \/ ~ alone)
  BY Zenon DEF C!Begin
<1>2. /\ C!On(p, "idle") /\ activations' \in 0 .. MaxActivations /\ outcome' = C!Nothing
      /\ UNCHANGED <<secret, artifact, staged, backup, selections>>
  <2>1. /\ C!On(p, "idle") /\ activations < MaxActivations /\ activations' = activations + 1
        /\ outcome' = C!Nothing /\ UNCHANGED <<secret, C!account, selections>>
    BY Zenon DEF C!Begin
  <2>2. activations \in 0 .. MaxActivations BY DEF ClaudeInv, C!TypeOK
  <2>3. QED BY <2>1, <2>2 DEF ClaudeAssumption, C!account
<1>3. m \in C!Modes BY DEF C!Selected
<1>4. active \in [Procs -> Activations] BY DEF ClaudeInv, C!TypeOK, Activations
<1>5. alone \in BOOLEAN OBVIOUS
<1> DEFINE new == [C!Resting EXCEPT !.at = "read", !.how = how, !.mode = m, !.alone = alone]
<1>6. new \in Activations /\ new.at = "read" /\ new.alone = alone
  <2>1. ASSUME NEW x \in BOOLEAN
        PROVE  LET r == [C!Resting EXCEPT !.at = "read", !.how = how, !.mode = m, !.alone = x]
               IN  r \in Activations /\ r.at = "read" /\ r.alone = x
    BY <1>3, RestTyped DEF Activations
  <2>2. QED BY <1>5, <2>1, Zenon
<1>7. ASSUME NEW q \in Procs
      PROVE  LET r == [active[q] EXCEPT !.alone = FALSE]
             IN  r \in Activations /\ r.at = active[q].at /\ r.alone = FALSE
  <2>1. ASSUME NEW x \in BOOLEAN
        PROVE  LET r == [active[q] EXCEPT !.alone = x]
               IN  r \in Activations /\ r.at = active[q].at /\ r.alone = x
    BY <1>4 DEF Activations
  <2>2. QED BY <2>1, Zenon
<1>8. active'[p] = new BY <1>1
<1>9. ASSUME NEW q \in Procs \ {p}
      PROVE  /\ active'[q] \in Activations /\ active'[q].at = active[q].at
             /\ ~ C!On(q, "idle") => active'[q].alone = FALSE
             /\ alone => active'[q].at = "idle"
  <2>1. active'[q] = IF C!On(q, "idle") THEN active[q] ELSE [active[q] EXCEPT !.alone = FALSE]
    BY <1>1, Zenon
  <2>2. CASE C!On(q, "idle") BY <1>4, <2>1, <2>2 DEF C!On
  <2>3. CASE ~ C!On(q, "idle") BY <1>7, <2>1, <2>3, Zenon
  <2>4. QED BY <2>2, <2>3
<1> HIDE DEF new, alone
<1>10. active' \in [Procs -> Activations]
  <2>1. active' = [q \in Procs |-> active'[q]] BY <1>1
  <2>2. \A q \in Procs : active'[q] \in Activations BY <1>6, <1>8, <1>9
  <2>3. QED BY <2>1, <2>2
<1>11. C!TypeOK'
  <2>1. mixed' \in BOOLEAN BY <1>1, Zenon
  <2>2. QED BY <1>2, <1>10, <2>1, RestTyped DEF ClaudeInv, C!TypeOK, Activations
<1>12. Solitary'
  <2>1. active'[p].alone => \A q \in Procs \ {p} : C!On(q, "idle")'
    BY <1>6, <1>8, <1>9 DEF C!On
  <2>2. \A q \in Procs \ {p} : ~ (active'[q].alone /\ ~ C!On(q, "idle")')
    BY <1>9 DEF C!On
  <2>3. QED BY <2>1, <2>2 DEF Solitary
<1>13. Undisturbed'
  <2>1. StillThere(p)' BY <1>6, <1>8 DEF StillThere
  <2>2. ASSUME NEW q \in Procs \ {p}, active'[q].alone PROVE StillThere(q)'
    <3>1. active'[q].at = "idle" BY <1>9, <2>2 DEF C!On
    <3>2. QED BY <3>1 DEF StillThere
  <2>3. QED BY <2>1, <2>2 DEF Undisturbed
<1>14. Unmixed'
  <2> SUFFICES ASSUME ~ mixed' PROVE Unmixed' BY DEF Unmixed
  <2>1. ~ mixed /\ alone BY <1>1, Zenon
  <2>2. OneFile' BY <1>2, <2>1 DEF ClaudeInv, Unmixed, AllIdle, OneFile, C!Modes, alone
  <2>3. \A q \in Procs \ {p} : C!On(q, "idle")' /\ WayBack(q)' BY <1>9, <2>1 DEF C!On, WayBack
  <2>4. active'[p].alone /\ WayBack(p)' BY <1>6, <1>8, <2>1, <2>2 DEF WayBack
  <2>5. QED BY <2>2, <2>3, <2>4 DEF Unmixed
<1>15. Delivery'
  <2>1. C!Nothing' = C!Nothing BY DEF C!Nothing
  <2>2. QED BY <1>2, <2>1 DEF Delivery
<1>16. QED BY <1>11, <1>12, <1>13, <1>14, <1>15 DEF ClaudeInv

\* An activation that ends without having changed the account's two files, where it had left
\* them fit to be come back to.
LEMMA EndsKeep ==
  ASSUME ClaudeInv, NEW p \in Procs, ~ C!On(p, "idle"), C!Stop(p),
         UNCHANGED <<secret, activations, selections, outcome>>,
         artifact' = artifact,
         staged' \in [C!Modes -> C!Values], backup' \in [C!Modes -> C!Values], mixed' \in BOOLEAN,
         ~ mixed' => ~ mixed /\ OneFile
  PROVE  ClaudeInv'
<1>1. Acts(p, C!Resting) BY RestTyped DEF Acts, C!Stop
<1>2. active'[p].at = "idle" BY <1>1, ActsTyped, RestTyped DEF ClaudeInv
<1>3. StillThere(p)' /\ WayBack(p)' BY <1>2 DEF StillThere, WayBack
<1>4. ~ mixed' => OneFile' BY DEF OneFile, C!Modes
<1>5. artifact' \in [C!Modes -> C!Values] /\ outcome' \in [mode : C!Modes, value : C!Values]
  BY ActivationFacts
<1>6. ~ mixed' => active[p].alone BY ActivationFacts
<1>7. QED BY <1>1, <1>3, <1>4, <1>5, <1>6, RestTyped, ActivationKeeps

\* The store is read for the value.
LEMMA ReadKeeps ==
  ASSUME ClaudeInv, NEW p \in Procs, C!ReadValue(p)
  PROVE  ClaudeInv'
<1>1. /\ active[p].at = "read" /\ ~ C!On(p, "idle")
      /\ UNCHANGED <<secret, activations, selections, mixed, outcome, artifact, staged, backup>>
  BY DEF C!ReadValue, C!Step, C!Local, C!On, C!account
<1> DEFINE m == active[p].mode
<1>2. CASE secret[m] = "none"
  <2>1. C!Stop(p)
    <3>1. active' = [active EXCEPT ![p] = C!Resting] BY <1>2 DEF C!ReadValue
    <3>2. QED BY <3>1 DEF C!Stop
  <2>2. ~ mixed => OneFile BY <1>1, ActivationFacts DEF WayBack
  <2>3. QED BY <1>1, <2>1, <2>2, EndsKeep, ActivationFacts
<1>3. CASE secret[m] # "none"
  <2> DEFINE new == [active[p] EXCEPT !.value = secret[m],
                       !.at = IF active[p].how = "sync" THEN "stage" ELSE "backup"]
  <2>1. active' = [active EXCEPT ![p] = new] BY <1>3 DEF C!ReadValue
  <2>2. new \in Activations /\ new.at \in {"stage", "backup"} /\ new.alone = active[p].alone
    BY <1>1, ActivationFacts DEF Activations
  <2> HIDE DEF new
  <2>3. Acts(p, new) BY <1>1, <2>1, <2>2 DEF Acts
  <2>4. active'[p] = new BY <2>3, ActsTyped DEF ClaudeInv
  <2>5. StillThere(p)' BY <2>2, <2>4 DEF StillThere
  <2>6. ~ mixed' => active[p].alone /\ WayBack(p)'
    <3> SUFFICES ASSUME ~ mixed' PROVE active[p].alone /\ WayBack(p)' OBVIOUS
    <3>1. active[p].alone /\ OneFile BY <1>1, ActivationFacts DEF WayBack
    <3>2. OneFile' BY <1>1, <3>1 DEF OneFile, C!Modes
    <3>3. QED BY <2>2, <2>4, <3>1, <3>2 DEF WayBack
  <2>7. QED BY <1>1, <2>2, <2>3, <2>5, <2>6, ActivationFacts, ActivationKeeps
<1>4. QED BY <1>2, <1>3

\* A step from one place to another, which says nothing of how the activation ends.
LEMMA PlacesKeep ==
  ASSUME ClaudeInv, NEW p \in Procs, ~ C!On(p, "idle"),
         NEW at \in {"stage", "clean", "assert", "promote", "backup", "replace", "remove",
                     "verify", "rescue"},
         NEW prior \in BOOLEAN,
         active' = [active EXCEPT ![p].prior = prior, ![p].at = at],
         UNCHANGED <<secret, activations, selections, mixed, outcome>>,
         artifact' \in [C!Modes -> C!Values], staged' \in [C!Modes -> C!Values],
         backup' \in [C!Modes -> C!Values],
         active[p].alone =>
           /\ at \in {"clean", "assert", "promote"} => staged'[active[p].mode] = active[p].value
           /\ at \in {"assert", "promote"} => artifact'[C!Other(active[p].mode)] = "none"
           /\ at \in {"remove", "verify"} => artifact'[active[p].mode] = active[p].value,
         ~ mixed =>
           /\ at \in {"stage", "clean", "assert", "promote", "backup"} => OneFile'
           /\ at \in {"replace", "remove", "verify", "rescue"} /\ prior =>
                artifact'[C!Other(active[p].mode)] = "none"
  PROVE  ClaudeInv'
<1> DEFINE new == [active[p] EXCEPT !.prior = prior, !.at = at]
<1>1. new \in Activations /\ new.at = at /\ new.alone = active[p].alone
      /\ new.mode = active[p].mode /\ new.value = active[p].value /\ new.prior = prior
  BY ActivationFacts DEF Activations
<1>2. active' = [active EXCEPT ![p] = new] BY ActivationFacts
<1> HIDE DEF new
<1>3. Acts(p, new) BY <1>1, <1>2 DEF Acts
<1>4. active'[p] = new BY <1>3, ActsTyped DEF ClaudeInv
<1>5. active'[p].mode = active[p].mode /\ active'[p].at = at /\ active'[p].prior = prior
  BY <1>1, <1>4
<1>6. active[p].alone => StillThere(p)' BY ZenonT(60), <1>1, <1>4 DEF StillThere, C!Other, C!Modes
<1>7. ~ mixed' => active[p].alone /\ WayBack(p)'
  <2>1. ~ mixed => active[p].alone BY ActivationFacts
  <2>2. ~ mixed => WayBack(p)' BY <1>5, Zenon DEF WayBack
  <2>3. QED BY <2>1, <2>2
<1>8. new.at # "idle" BY <1>1
<1>9. mixed' \in BOOLEAN /\ outcome' \in [mode : C!Modes, value : C!Values] BY ActivationFacts
<1>10. QED BY <1>1, <1>3, <1>6, <1>7, <1>8, <1>9, ActivationKeeps

-----------------------------------------------------------------------------
\* _sync_claude_settings.
LEMMA StageKeeps ==
  ASSUME ClaudeInv, NEW p \in Procs, C!Stage(p) \/ C!Clean(p)
  PROVE  ClaudeInv'
<1> DEFINE m == active[p].mode
<1>0. ~ C!On(p, "idle") /\ UNCHANGED <<secret, activations, selections, mixed, outcome, backup>>
  BY DEF C!Stage, C!Clean, C!On, C!Step, C!Local
<1>1. active[p].prior \in BOOLEAN BY <1>0, ActivationFacts DEF Activations
<1>2. CASE C!Stage(p)
  <2>1. /\ active[p].at = "stage" /\ active' = [active EXCEPT ![p].at = "clean"]
        /\ staged' = [staged EXCEPT ![m] = active[p].value] /\ UNCHANGED artifact
    BY <1>2 DEF C!Stage, C!On, C!To
  <2>2. active' = [active EXCEPT ![p].prior = active[p].prior, ![p].at = "clean"]
    BY <1>0, <2>1, ActivationFacts DEF Activations
  <2>3. staged' \in [C!Modes -> C!Values] /\ staged'[m] = active[p].value
    BY <1>0, <2>1, ActivationFacts
  <2>4. ~ mixed => OneFile'
    BY <1>0, <2>1, ActivationFacts DEF WayBack, OneFile, C!Modes
  <2>5. QED BY ZenonT(60), <1>0, <1>1, <2>1, <2>2, <2>3, <2>4, ActivationFacts, PlacesKeep
<1>3. CASE C!Clean(p)
  <2>1. /\ active[p].at = "clean" /\ active' = [active EXCEPT ![p].at = "assert"]
        /\ artifact' = [artifact EXCEPT ![C!Other(m)] = "none"] /\ UNCHANGED staged
    BY <1>3 DEF C!Clean, C!On, C!To
  <2>2. active' = [active EXCEPT ![p].prior = active[p].prior, ![p].at = "assert"]
    BY <1>0, <2>1, ActivationFacts DEF Activations
  <2>3. artifact' \in [C!Modes -> C!Values] /\ artifact'[C!Other(m)] = "none"
    BY <1>0, <2>1, ActivationFacts
  <2>4. active[p].alone => staged'[m] = active[p].value
    BY <1>0, <2>1, ActivationFacts DEF StillThere
  <2>5. OneFile'
    <3>1. C!Other(m) \in C!Modes BY <1>0, ActivationFacts
    <3>2. \E o \in C!Modes : artifact'[o] = "none" BY <2>3, <3>1
    <3>3. C!Modes' = C!Modes BY DEF C!Modes
    <3>4. QED BY <3>2, <3>3 DEF OneFile
  <2>6. QED BY ZenonT(60), <1>0, <1>1, <2>1, <2>2, <2>3, <2>4, <2>5, ActivationFacts, PlacesKeep
<1>4. QED BY <1>2, <1>3

LEMMA AssertKeeps ==
  ASSUME ClaudeInv, NEW p \in Procs, C!AssertAbsent(p)
  PROVE  ClaudeInv'
<1> DEFINE m == active[p].mode
<1>0. /\ active[p].at = "assert" /\ ~ C!On(p, "idle")
      /\ UNCHANGED <<secret, activations, selections, mixed, outcome, artifact, backup>>
  BY DEF C!AssertAbsent, C!On, C!Step, C!Local
<1>1. active[p].prior \in BOOLEAN BY <1>0, ActivationFacts DEF Activations
<1>2. ~ mixed => OneFile BY <1>0, ActivationFacts DEF WayBack
<1>3. OneFile' = OneFile BY <1>0 DEF OneFile, C!Modes
<1>4. CASE artifact[C!Other(m)] = "none"
  <2>1. active' = [active EXCEPT ![p].at = "promote"] /\ staged' = staged
    BY <1>4 DEF C!AssertAbsent, C!To
  <2>2. active' = [active EXCEPT ![p].prior = active[p].prior, ![p].at = "promote"]
    BY <1>0, <2>1, ActivationFacts DEF Activations
  <2>3. active[p].alone => staged'[m] = active[p].value
    BY <1>0, <2>1, ActivationFacts DEF StillThere
  <2>4. QED BY <1>0, <1>1, <1>2, <1>3, <1>4, <2>1, <2>2, <2>3, ActivationFacts, PlacesKeep
<1>5. CASE artifact[C!Other(m)] # "none"
  <2>1. C!Stop(p) /\ staged' = [staged EXCEPT ![m] = "none"]
    BY <1>5 DEF C!AssertAbsent, C!Unstage
  <2>2. staged' \in [C!Modes -> C!Values] BY <1>0, <2>1, ActivationFacts
  <2>3. QED BY <1>0, <1>2, <2>1, <2>2, ActivationFacts, EndsKeep
<1>6. QED BY <1>4, <1>5

LEMMA SyncFailsKeeps ==
  ASSUME ClaudeInv, NEW p \in Procs, C!SyncFails(p)
  PROVE  ClaudeInv'
<1> DEFINE m == active[p].mode
<1>1. /\ active[p].at \in {"stage", "clean", "assert", "promote"} /\ ~ C!On(p, "idle")
      /\ UNCHANGED <<secret, activations, selections, mixed, outcome, artifact, backup>>
      /\ C!Stop(p) /\ (staged' = staged \/ staged' = [staged EXCEPT ![m] = "none"])
  BY DEF C!SyncFails, C!On, C!Step, C!Local, C!Unstage
<1>2. staged' \in [C!Modes -> C!Values] BY <1>1, ActivationFacts
<1>3. ~ mixed => OneFile BY <1>1, ActivationFacts DEF WayBack
<1>4. QED BY <1>1, <1>2, <1>3, ActivationFacts, EndsKeep

\* An activation that ends well has left what it had selected, if it was alone at it.
LEMMA WellKeeps ==
  ASSUME ClaudeInv, NEW p \in Procs, ~ C!On(p, "idle"), C!Well(p),
         UNCHANGED <<secret, activations, selections>>,
         artifact' \in [C!Modes -> C!Values], staged' \in [C!Modes -> C!Values],
         backup' \in [C!Modes -> C!Values],
         active[p].alone =>
           artifact'[active[p].mode] = active[p].value /\ artifact'[C!Other(active[p].mode)] = "none"
  PROVE  ClaudeInv'
<1> DEFINE m == active[p].mode
<1>1. Acts(p, C!Resting) BY RestTyped DEF Acts, C!Stop, C!Well
<1>2. active'[p].at = "idle" BY <1>1, ActsTyped, RestTyped DEF ClaudeInv
<1>3. StillThere(p)' /\ WayBack(p)' BY <1>2 DEF StillThere, WayBack
<1>4. CASE active[p].alone
  <2>1. outcome' = [mode |-> m, value |-> active[p].value] /\ mixed' \in BOOLEAN
    BY <1>4, Zenon DEF C!Well
  <2>2. artifact' = [C!Empty EXCEPT ![m] = active[p].value] BY <1>4, OneLeft, ActivationFacts
  <2>3. OneFile'
    <3>1. \E o \in C!Modes : artifact'[o] = "none" BY <1>4, ActivationFacts
    <3>2. C!Modes' = C!Modes BY DEF C!Modes
    <3>3. QED BY <3>1, <3>2 DEF OneFile
  <2>4. outcome' \in [mode : C!Modes, value : C!Values]
        /\ outcome'.mode = m /\ outcome'.value = active[p].value
    BY <2>1, ActivationFacts
  <2>5. artifact' = [C!Empty EXCEPT ![outcome'.mode] = outcome'.value] BY <2>2, <2>4
  <2>6. QED BY <1>1, <1>3, <1>4, <2>1, <2>3, <2>4, <2>5, RestTyped, ActivationKeeps
<1>5. CASE ~ active[p].alone
  <2>1. UNCHANGED <<outcome, mixed>> BY <1>5 DEF C!Well
  <2>2. mixed BY <1>5, ActivationFacts
  <2>3. mixed' /\ outcome' \in [mode : C!Modes, value : C!Values] /\ mixed' \in BOOLEAN
    BY <2>1, <2>2, ActivationFacts
  <2>4. QED BY <1>1, <1>3, <1>5, <2>1, <2>3, RestTyped, ActivationKeeps
<1>6. QED BY <1>4, <1>5

LEMMA PromoteKeeps ==
  ASSUME ClaudeInv, NEW p \in Procs, C!Promote(p)
  PROVE  ClaudeInv'
<1> DEFINE m == active[p].mode
<1>1. /\ active[p].at = "promote" /\ ~ C!On(p, "idle")
      /\ UNCHANGED <<secret, activations, selections, backup>>
  BY DEF C!Promote, C!On, C!Local
<1>2. CASE staged[m] # "none"
  <2>1. /\ artifact' = [artifact EXCEPT ![m] = staged[m]]
        /\ staged' = [staged EXCEPT ![m] = "none"] /\ C!Well(p)
    BY <1>2 DEF C!Promote, C!Unstage
  <2>2. artifact' \in [C!Modes -> C!Values] /\ staged' \in [C!Modes -> C!Values]
        /\ artifact'[m] = staged[m] /\ artifact'[C!Other(m)] = artifact[C!Other(m)]
    BY <1>1, <2>1, ActivationFacts
  <2>3. active[p].alone => staged[m] = active[p].value /\ artifact[C!Other(m)] = "none"
    BY <1>1, ActivationFacts DEF StillThere
  <2>4. QED BY <1>1, <2>1, <2>2, <2>3, ActivationFacts, WellKeeps
<1>3. CASE staged[m] = "none"
  <2>1. C!Stop(p) /\ UNCHANGED <<artifact, staged, mixed, outcome>> BY <1>3 DEF C!Promote
  <2>2. ~ mixed => OneFile BY <1>1, ActivationFacts DEF WayBack
  <2>3. QED BY <1>1, <2>1, <2>2, ActivationFacts, EndsKeep
<1>4. QED BY <1>2, <1>3

-----------------------------------------------------------------------------
\* _configure_claude_settings.
LEMMA BackUpKeeps ==
  ASSUME ClaudeInv, NEW p \in Procs, C!BackUp(p)
  PROVE  ClaudeInv'
<1> DEFINE m == active[p].mode
<1>1. /\ active[p].at = "backup" /\ ~ C!On(p, "idle")
      /\ UNCHANGED <<secret, activations, selections, mixed, outcome, artifact, staged>>
      /\ active' = [active EXCEPT ![p].prior = (artifact[m] # "none"), ![p].at = "replace"]
      /\ backup' = IF artifact[m] # "none" THEN [backup EXCEPT ![m] = artifact[m]] ELSE backup
  BY Zenon DEF C!BackUp, C!On, C!Step, C!Local
<1>2. backup' \in [C!Modes -> C!Values] BY <1>1, ActivationFacts
<1>3. ~ mixed => (artifact[m] # "none" => artifact[C!Other(m)] = "none")
  <2> SUFFICES ASSUME ~ mixed, artifact[m] # "none" PROVE artifact[C!Other(m)] = "none" OBVIOUS
  <2>1. OneFile BY <1>1, ActivationFacts DEF WayBack
  <2>2. \A o \in C!Modes : o # m => o = C!Other(m) BY <1>1, ActivationFacts, OtherMode
  <2>3. QED BY <2>1, <2>2 DEF OneFile
<1>4. (artifact[m] # "none") \in BOOLEAN OBVIOUS
<1>5. ASSUME NEW prior \in BOOLEAN, prior = (artifact[m] # "none") PROVE ClaudeInv'
  <2>1. active' = [active EXCEPT ![p].prior = prior, ![p].at = "replace"] BY <1>1, <1>5, Zenon
  <2>2. ~ mixed => (prior => artifact[C!Other(m)] = "none") BY <1>3, <1>5
  <2>3. artifact' = artifact /\ artifact' \in [C!Modes -> C!Values] /\ staged' \in [C!Modes -> C!Values]
    BY <1>1, ActivationFacts
  <2>4. QED BY <1>1, <1>2, <2>1, <2>2, <2>3, PlacesKeep
<1>6. QED BY <1>4, <1>5

LEMMA ReplaceKeeps ==
  ASSUME ClaudeInv, NEW p \in Procs, C!Replace(p) \/ C!RemoveOther(p)
  PROVE  ClaudeInv'
<1> DEFINE m == active[p].mode
<1>0. ~ C!On(p, "idle")
      /\ UNCHANGED <<secret, activations, selections, mixed, outcome, staged, backup>>
  BY DEF C!Replace, C!RemoveOther, C!On, C!Step, C!Local
<1>1. active[p].prior \in BOOLEAN BY <1>0, ActivationFacts DEF Activations
<1>2. CASE C!Replace(p)
  <2>1. /\ active[p].at = "replace" /\ active' = [active EXCEPT ![p].at = "remove"]
        /\ artifact' = [artifact EXCEPT ![m] = active[p].value]
    BY <1>2 DEF C!Replace, C!On, C!To
  <2>2. active' = [active EXCEPT ![p].prior = active[p].prior, ![p].at = "remove"]
    BY <1>0, <2>1, ActivationFacts DEF Activations
  <2>3. artifact' \in [C!Modes -> C!Values] /\ artifact'[m] = active[p].value
        /\ artifact'[C!Other(m)] = artifact[C!Other(m)]
    BY <1>0, <2>1, ActivationFacts
  <2>4. ~ mixed => (active[p].prior => artifact'[C!Other(m)] = "none")
    BY <1>0, <2>1, <2>3, ActivationFacts DEF WayBack
  <2>5. QED BY <1>0, <1>1, <2>2, <2>3, <2>4, ActivationFacts, PlacesKeep
<1>3. CASE C!RemoveOther(p)
  <2>1. /\ active[p].at = "remove" /\ active' = [active EXCEPT ![p].at = "verify"]
        /\ artifact' = [artifact EXCEPT ![C!Other(m)] = "none"]
    BY <1>3 DEF C!RemoveOther, C!On, C!To
  <2>2. active' = [active EXCEPT ![p].prior = active[p].prior, ![p].at = "verify"]
    BY <1>0, <2>1, ActivationFacts DEF Activations
  <2>3. artifact' \in [C!Modes -> C!Values] /\ artifact'[C!Other(m)] = "none"
        /\ artifact'[m] = artifact[m]
    BY <1>0, <2>1, ActivationFacts
  <2>4. active[p].alone => artifact'[m] = active[p].value
    BY <1>0, <2>1, <2>3, ActivationFacts DEF StillThere
  <2>5. QED BY <1>0, <1>1, <2>2, <2>3, <2>4, ActivationFacts, PlacesKeep
<1>4. QED BY <1>2, <1>3

LEMMA AbsenceKeeps ==
  ASSUME ClaudeInv, NEW p \in Procs, C!VerifyAbsent(p)
  PROVE  ClaudeInv'
<1> DEFINE m == active[p].mode
<1>1. /\ active[p].at = "verify" /\ ~ C!On(p, "idle")
      /\ UNCHANGED <<secret, activations, selections, artifact, staged>>
  BY DEF C!VerifyAbsent, C!On, C!Local
<1>2. CASE artifact[C!Other(m)] = "none"
  <2>1. C!Well(p) /\ backup' = [backup EXCEPT ![m] = "none"] BY <1>2 DEF C!VerifyAbsent
  <2>2. backup' \in [C!Modes -> C!Values] BY <1>1, <2>1, ActivationFacts
  <2>3. active[p].alone => artifact[m] = active[p].value BY <1>1, ActivationFacts DEF StillThere
  <2>4. QED BY <1>1, <1>2, <2>1, <2>2, <2>3, ActivationFacts, WellKeeps
<1>3. CASE artifact[C!Other(m)] # "none"
  <2>1. active' = [active EXCEPT ![p].at = "rescue"] /\ UNCHANGED <<mixed, outcome, backup>>
    BY <1>3 DEF C!VerifyAbsent, C!To
  <2>2. active[p].prior \in BOOLEAN BY <1>1, ActivationFacts DEF Activations
  <2>3. active' = [active EXCEPT ![p].prior = active[p].prior, ![p].at = "rescue"]
    BY <1>1, <2>1, ActivationFacts DEF Activations
  <2>4. ~ mixed => ~ active[p].prior BY <1>1, <1>3, ActivationFacts DEF WayBack
  <2>5. QED BY <1>1, <2>1, <2>2, <2>3, <2>4, ActivationFacts, PlacesKeep
<1>4. QED BY <1>2, <1>3

LEMMA TaskFailsKeeps ==
  ASSUME ClaudeInv, NEW p \in Procs, C!TaskFails(p)
  PROVE  ClaudeInv'
<1> DEFINE m == active[p].mode
<1>1. /\ active[p].at \in {"backup", "replace", "remove", "verify"} /\ ~ C!On(p, "idle")
      /\ UNCHANGED <<secret, activations, selections, mixed, outcome, artifact, staged, backup>>
  BY DEF C!TaskFails, C!On, C!Step, C!Local, C!account
<1>2. C!On(p, "backup") \in BOOLEAN BY DEF C!On
<1>3. active[p].prior \in BOOLEAN BY <1>1, ActivationFacts DEF Activations
<1>4. \E prior \in BOOLEAN :
        /\ active' = [active EXCEPT ![p].at = "rescue", ![p].prior = prior]
        /\ C!On(p, "backup") => (prior <=> artifact[m] # "none")
        /\ ~ C!On(p, "backup") => prior = active[p].prior
  <2>1. CASE C!On(p, "backup")
    <3>1. active' = [active EXCEPT ![p].at = "rescue", ![p].prior = (artifact[m] # "none")]
      BY <1>1, <2>1, ActivationFacts DEF C!TaskFails
    <3>2. (artifact[m] # "none") \in BOOLEAN OBVIOUS
    <3>3. QED BY <2>1, <3>1, <3>2, Zenon
  <2>2. CASE ~ C!On(p, "backup")
    <3>1. active' = [active EXCEPT ![p].at = "rescue", ![p].prior = active[p].prior]
      BY <1>1, <2>2, ActivationFacts DEF C!TaskFails
    <3>2. QED BY <1>3, <2>2, <3>1
  <2>3. QED BY <2>1, <2>2
<1>5. PICK prior \in BOOLEAN :
        /\ active' = [active EXCEPT ![p].at = "rescue", ![p].prior = prior]
        /\ C!On(p, "backup") => (prior <=> artifact[m] # "none")
        /\ ~ C!On(p, "backup") => prior = active[p].prior
  BY <1>4
<1>6. active' = [active EXCEPT ![p].prior = prior, ![p].at = "rescue"]
  BY <1>1, <1>5, ActivationFacts DEF Activations
<1>7. ~ mixed => (prior => artifact[C!Other(m)] = "none")
  <2> SUFFICES ASSUME ~ mixed, prior PROVE artifact[C!Other(m)] = "none" OBVIOUS
  <2>1. WayBack(p) BY <1>1, ActivationFacts
  <2>2. CASE C!On(p, "backup")
    <3>1. OneFile /\ artifact[m] # "none" BY <1>5, <2>1, <2>2 DEF WayBack, C!On
    <3>2. \A o \in C!Modes : o # m => o = C!Other(m) BY <1>1, ActivationFacts, OtherMode
    <3>3. QED BY <3>1, <3>2 DEF OneFile
  <2>3. CASE ~ C!On(p, "backup") BY <1>1, <1>5, <2>1, <2>3 DEF WayBack, C!On
  <2>4. QED BY <2>2, <2>3
<1>8. QED BY <1>1, <1>6, <1>7, ActivationFacts, PlacesKeep

LEMMA RescueKeeps ==
  ASSUME ClaudeInv, NEW p \in Procs, C!Rescue(p)
  PROVE  ClaudeInv'
<1> DEFINE m == active[p].mode
<1>1. /\ active[p].at = "rescue" /\ ~ C!On(p, "idle") /\ C!Stop(p)
      /\ UNCHANGED <<secret, activations, selections, mixed, outcome, staged>>
      /\ artifact' = [artifact EXCEPT ![m] = IF ~ active[p].prior THEN "none"
                                            ELSE IF backup[m] # "none" THEN backup[m] ELSE @]
      /\ backup' = [backup EXCEPT ![m] = "none"]
  BY DEF C!Rescue, C!On, C!Step, C!Local
<1>2. /\ artifact' \in [C!Modes -> C!Values] /\ backup' \in [C!Modes -> C!Values]
      /\ ~ active[p].prior => artifact'[m] = "none"
      /\ artifact'[C!Other(m)] = artifact[C!Other(m)]
  BY <1>1, ActivationFacts
<1>3. ~ mixed => OneFile'
  <2> SUFFICES ASSUME ~ mixed PROVE OneFile' OBVIOUS
  <2>1. artifact'[m] = "none" \/ artifact'[C!Other(m)] = "none"
    BY <1>1, <1>2, ActivationFacts DEF WayBack
  <2>2. m \in C!Modes /\ C!Other(m) \in C!Modes BY <1>1, ActivationFacts
  <2>3. \E o \in C!Modes : artifact'[o] = "none" BY <2>1, <2>2
  <2>4. C!Modes' = C!Modes BY DEF C!Modes
  <2>5. QED BY <2>3, <2>4 DEF OneFile
<1>4. Acts(p, C!Resting) BY <1>1, RestTyped DEF Acts, C!Stop
<1>5. active'[p].at = "idle" BY <1>4, ActsTyped, RestTyped DEF ClaudeInv
<1>6. StillThere(p)' /\ WayBack(p)' BY <1>5 DEF StillThere, WayBack
<1>7. ~ mixed' => active[p].alone BY <1>1, ActivationFacts
<1>8. QED BY <1>1, <1>2, <1>3, <1>4, <1>6, <1>7, ActivationFacts, RestTyped, ActivationKeeps

LEMMA CutOffKeeps ==
  ASSUME ClaudeInv, NEW p \in Procs, C!ConfigureCutOff(p)
  PROVE  ClaudeInv'
<1> DEFINE m == active[p].mode
<1>1. /\ ~ C!On(p, "idle") /\ C!Stop(p) /\ mixed' = TRUE
      /\ backup' = backup \/ backup' = [backup EXCEPT ![m] = "none"]
      /\ UNCHANGED <<secret, activations, selections, artifact, staged, outcome>>
  BY DEF C!ConfigureCutOff, C!On, C!Local
<1>2. mixed' \in BOOLEAN /\ mixed' BY <1>1
<1>3. backup' \in [C!Modes -> C!Values] BY <1>1, ActivationFacts
<1>4. QED BY <1>1, <1>2, <1>3, ActivationFacts, EndsKeep

-----------------------------------------------------------------------------
LEMMA ClaudeStart == ASSUME C!Init, ClaudeAssumption
                     PROVE  ClaudeInv
<1>1. \A q \in Procs : active[q].at = "idle" /\ active[q].alone = FALSE
  BY RestTyped DEF C!Init
<1>2. C!TypeOK
  <2>1. mixed \in BOOLEAN /\ "none" \in C!Values /\ "first" \in C!Values
    BY DEF C!Init, C!Values
  <2>2. secret \in [C!Modes -> C!Values] BY DEF C!Init, C!Values
  <2>3. C!Empty \in [C!Modes -> C!Values] BY <2>1 DEF C!Empty
  <2>4. active \in [Procs -> Activations] BY RestTyped DEF C!Init
  <2>5. QED
    BY <2>1, <2>2, <2>3, <2>4, RestTyped DEF C!Init, C!TypeOK, Activations, ClaudeAssumption
<1>3. OneFile BY DEF OneFile, C!Init, C!Empty, C!Modes
<1>4. Solitary /\ Undisturbed /\ Unmixed
  BY <1>1, <1>3 DEF Solitary, Undisturbed, Unmixed, WayBack, C!On
<1>5. Delivery BY DEF Delivery, C!Init
<1>6. QED BY <1>2, <1>4, <1>5 DEF ClaudeInv

LEMMA ClaudeStep == ASSUME ClaudeInv, C!Next, ClaudeAssumption
                    PROVE  ClaudeInv'
<1>1. CASE C!CreateSecret \/ C!ImportLocal \/ C!Deselect BY <1>1, SelectionKeeps
<1>2. ASSUME NEW p \in Procs, C!Begin(p) \/ C!ReadValue(p) PROVE ClaudeInv'
  BY <1>2, ActivationBegins, ReadKeeps
<1>3. ASSUME NEW p \in Procs,
             C!Stage(p) \/ C!Clean(p) \/ C!AssertAbsent(p) \/ C!Promote(p) \/ C!SyncFails(p)
      PROVE  ClaudeInv'
  BY <1>3, StageKeeps, AssertKeeps, PromoteKeeps, SyncFailsKeeps
<1>4. ASSUME NEW p \in Procs,
             \/ C!BackUp(p) \/ C!Replace(p) \/ C!RemoveOther(p) \/ C!VerifyAbsent(p)
             \/ C!TaskFails(p) \/ C!Rescue(p) \/ C!ConfigureCutOff(p)
      PROVE  ClaudeInv'
  BY <1>4, BackUpKeeps, ReplaceKeeps, AbsenceKeeps, TaskFailsKeeps, RescueKeeps, CutOffKeeps
<1>5. QED BY <1>1, <1>2, <1>3, <1>4 DEF C!Next

LEMMA ClaudeStutter == ASSUME ClaudeInv, UNCHANGED claudeVars
                       PROVE  ClaudeInv'
<1>1. UNCHANGED <<secret, artifact, staged, backup, active, mixed, outcome, activations, selections>>
  BY DEF claudeVars
<1>2. C!TypeOK' BY <1>1 DEF ClaudeInv, C!TypeOK
<1>3. (Solitary /\ Undisturbed /\ Unmixed)'
  BY <1>1 DEF ClaudeInv, Solitary, Undisturbed, Unmixed, StillThere, WayBack, OneFile, AllIdle,
              C!On
<1>4. Delivery'
  <2>1. C!Nothing' = C!Nothing /\ C!Empty' = C!Empty BY DEF C!Nothing, C!Empty, C!Modes
  <2>2. QED BY <1>1, <2>1 DEF ClaudeInv, Delivery, AllIdle, C!On
<1>5. QED BY <1>2, <1>3, <1>4 DEF ClaudeInv

-----------------------------------------------------------------------------
(***************************************************************************)
(* The three of MCCanonical.  In the behaviours of the other two the sync  *)
(* stands still, in a state it could be in.                                *)
(***************************************************************************)
PartsInv ==
  /\ Inv
  /\ focus = "render" => RenderInv
  /\ focus = "claude" => ClaudeInv

LEMMA StillSound == ASSUME SyncStill PROVE Inv
  BY Initially DEF SyncStill

LEMMA PartsStart == ASSUME MCInit, ClaudeAssumption PROVE PartsInv
<1>1. CASE focus = "sync" /\ Init BY <1>1, Initially DEF PartsInv
<1>2. CASE focus = "render" /\ R!Init /\ SyncStill
  BY <1>2, StillSound, RenderStart DEF PartsInv
<1>3. CASE focus = "claude" /\ C!Init /\ SyncStill
  BY <1>3, StillSound, ClaudeStart DEF PartsInv
<1>4. QED BY <1>1, <1>2, <1>3 DEF MCInit

LEMMA PartsStep == ASSUME PartsInv, MCNext, ClaudeAssumption PROVE PartsInv'
<1>1. focus' = focus BY DEF MCNext
<1>2. CASE focus = "sync" /\ Next
  <2>1. Inv' BY <1>2, Preserved DEF PartsInv
  <2>2. QED BY <1>1, <1>2, <2>1 DEF PartsInv
<1>3. CASE focus = "render" /\ R!Next /\ UNCHANGED vars
  <2>1. Inv' BY <1>3, Stuttering DEF PartsInv
  <2>2. RenderInv' BY <1>3, RenderStep DEF PartsInv
  <2>3. QED BY <1>1, <1>3, <2>1, <2>2 DEF PartsInv
<1>4. CASE focus = "claude" /\ C!Next /\ UNCHANGED vars
  <2>1. Inv' BY <1>4, Stuttering DEF PartsInv
  <2>2. ClaudeInv' BY <1>4, ClaudeStep DEF PartsInv
  <2>3. QED BY <1>1, <1>4, <2>1, <2>2 DEF PartsInv
<1>5. QED BY <1>2, <1>3, <1>4 DEF MCNext

LEMMA PartsStutter ==
  ASSUME PartsInv, UNCHANGED <<focus, vars, renderVars, claudeVars>>
  PROVE  PartsInv'
<1>1. Inv' BY Stuttering DEF PartsInv
<1>2. focus = "render" => RenderInv' BY RenderStutter DEF PartsInv
<1>3. focus = "claude" => ClaudeInv' BY ClaudeStutter DEF PartsInv
<1>4. QED BY <1>1, <1>2, <1>3 DEF PartsInv

LEMMA PartsTyped == ASSUME PartsInv PROVE TypesOK
  BY RenderTyped DEF PartsInv, TypesOK, Inv, ClaudeInv

LEMMA PartsShown == ASSUME PartsInv PROVE OneCredential
<1>1. focus = "render" => R!NothingShadowed BY RenderedShown DEF PartsInv
<1>2. focus = "claude" => C!OneSource
  <2> SUFFICES ASSUME ClaudeInv PROVE C!OneSource BY DEF PartsInv
  <2>1. ~ mixed /\ (\A p \in Procs : C!On(p, "idle")) => OneFile
    BY DEF ClaudeInv, Unmixed, AllIdle
  <2>2. outcome # C!Nothing => artifact = [C!Empty EXCEPT ![outcome.mode] = outcome.value]
    BY DEF ClaudeInv, Delivery
  <2>3. QED BY <2>1, <2>2, Zenon DEF C!OneSource, OneFile
<1>3. QED BY <1>1, <1>2 DEF OneCredential

\* Whatever is attached to an agent and however many activations of claude overlap: what is
\* rendered under one name is what the daemon reads there, and an account is left with one
\* credential, the selected one.
THEOREM OneIsRead == MCSpec => [](TypesOK /\ OneCredential)
<1>1. MCInit => PartsInv BY PartsStart, ClaudeAssumption
<1>2. PartsInv /\ [MCNext]_all => PartsInv'
  BY PartsStep, PartsStutter, ClaudeAssumption DEF all
<1>3. PartsInv => TypesOK /\ OneCredential BY PartsTyped, PartsShown
<1>4. QED BY <1>1, <1>2, <1>3, PTL DEF MCSpec
=============================================================================
