--------------------------- MODULE RegistriesProofs ---------------------------
(***************************************************************************)
(* Proofs about Registries, Providers and PiCredentials, composed as in    *)
(* MCRegistries: for any number of commands, names, agents, keys and       *)
(* providers.  Each part has an inductive invariant of its own (RgInv,     *)
(* PvInv, PiInv), one lemma per conjunct of it and one step per action;    *)
(* MCInv joins them, and the properties of the run follow from it.         *)
(***************************************************************************)
EXTENDS MCRegistries, TLAPS, FiniteSetTheorems

(***************************************************************************)
(* Registries.                                                             *)
(***************************************************************************)
RgCommanded == cmd \in [Procs -> Commands]
\* The types of everything but the commands.
RgFiles ==
  /\ kind \in Kinds
  /\ registry \in [Names -> [type : Types, reg : Regs] \cup {Absent}]
  /\ keys \in [Names -> [Keys -> Regs \cup {NoReg}]]
  /\ attached \in [Agents -> SUBSET Names]
  /\ holder \in Procs \cup {NoProc}
  /\ fresh \subseteq Agents \X Names
  /\ begun \in 0 .. MaxCommands /\ made \in 0 .. MaxRegs
  /\ gone \subseteq Names /\ forcedOff \subseteq gone /\ late \subseteq Names

\* What a command is about, which one is at which label, and who has the lock.
RgKnown ==
  \A p \in Procs :
    /\ cmd[p].at # "idle" => cmd[p].name \in Names
    /\ cmd[p].at = "add" => cmd[p].type \in Types
    /\ cmd[p].at \in {"clear", "save"} <=> holder = p
    /\ cmd[p].at \in {"check", "clear", "save"} => cmd[p].op = "delete"

\* A credential is of the present registration, or written too late.  A removal that has
\* cleared the credentials finds none when it takes the record out.
RgInherited ==
  /\ NothingInherited
  /\ \A p \in Procs : cmd[p].at = "save" =>
       \A k \in Keys : keys[cmd[p].name][k] # NoReg => cmd[p].name \in late

\* What is attached or about to be is registered as the type attach has read, or was removed.
RgPlaced ==
  /\ \A a \in Agents : \A n \in attached[a] : Registered(n) \/ n \in gone
  /\ \A p \in Procs :
       /\ cmd[p].at \in {"look", "place"} => Registered(cmd[p].name) \/ cmd[p].name \in gone
       /\ cmd[p].at = "place" =>
            cmd[p].type = registry[cmd[p].name].type \/ cmd[p].name \in gone

\* An agent has one integration of a singleton type at most, and no channel is of one.
OneSingleton ==
  /\ \A a \in Agents : \A m, n \in attached[a] \ gone :
       registry[m].type = "singleton" /\ registry[n].type = "singleton" => m = n
  /\ kind = "channel" =>
       /\ \A n \in Names : registry[n].type # "singleton"
       /\ \A p \in Procs : cmd[p].at = "add" => cmd[p].type = "plain"

\* A rotation has yet to sync every agent it listed, or has done it, or knows better.
RgRotating ==
  \A p \in Procs :
    /\ cmd[p].at = "sync" => cmd[p].op = "rotate"
    /\ cmd[p].op # "rotate" => cmd[p].listed = {}
    /\ cmd[p].at = "list" => cmd[p].op = "rotate"
    /\ cmd[p].at \in {"add", "list"} => cmd[p].listed = {}
    /\ cmd[p].at \in {"update", "keys"} => cmd[p].listed \subseteq cmd[p].agents
    /\ \A a \in cmd[p].listed : cmd[p].name \in attached[a]
    /\ cmd[p].at = "sync" /\ ~ cmd[p].failed /\ ~ cmd[p].overtaken =>
         (cmd[p].listed \ cmd[p].agents) \X {cmd[p].name} \subseteq fresh

RgInv ==
  /\ TypeOK
  /\ RgKnown
  /\ RgInherited
  /\ RgPlaced
  /\ OneSingleton
  /\ RgRotating


(* Numbers and names of the registries, and the steps of a removal. *)
LEMMA RgDistinct ==
  /\ MaxRegs \in Nat /\ MaxCommands \in Nat /\ NoProc \notin Procs /\ NoName \notin Names
  /\ NoReg = 0 /\ Regs = 1 .. MaxRegs
  /\ DeleteSteps[1] = "clear" /\ DeleteSteps[2] = "save"
BY RegistriesAssumption DEF NoReg, Regs, DeleteSteps


(* What the longer actions do to the commands: p goes on or ends, nobody else moves, and *)
(* a rotation of the name learns of a write of the credentials.                          *)
Others(p) == \A q \in Procs \ {p} : cmd'[q] = cmd[q]
OthersHear(p) ==
  \A q \in Procs \ {p} :
    /\ cmd'[q].at = cmd[q].at /\ cmd'[q].op = cmd[q].op /\ cmd'[q].name = cmd[q].name
    /\ cmd'[q].type = cmd[q].type /\ cmd'[q].listed = cmd[q].listed
    /\ cmd'[q].agents = cmd[q].agents /\ cmd'[q].failed = cmd[q].failed
    /\ cmd[q].overtaken => cmd'[q].overtaken
    /\ cmd[q].op = "rotate" /\ cmd[q].name = cmd[p].name => cmd'[q].overtaken
Ends(p) == cmd'[p] = Idle
Moves(p, label) ==
  /\ cmd'[p].at = label /\ cmd'[p].op = cmd[p].op /\ cmd'[p].name = cmd[p].name
  /\ cmd'[p].type = cmd[p].type

AddEffect(p) ==
  /\ cmd[p].at = "add" /\ holder = NoProc /\ Others(p)
  /\ UNCHANGED <<kind, keys, fresh, attached, holder, begun, history>>
  /\ \/ UNCHANGED <<registry, made>> /\ Ends(p)
     \/ /\ registry[cmd[p].name] = Absent /\ made' = made + 1 /\ made < MaxRegs
        /\ registry' = [registry EXCEPT ![cmd[p].name] =
                          [type |-> cmd[p].type, reg |-> made + 1]]
        /\ registry'[cmd[p].name].reg = made + 1 /\ registry[cmd[p].name].reg = NoReg
        /\ \A n \in Names \ {cmd[p].name} : registry'[n] = registry[n]
        /\ Moves(p, "keys") /\ UNCHANGED <<cmd[p].listed, cmd[p].agents>>
LEMMA AddSteps == ASSUME NEW p \in Procs, RgCommanded, RgFiles, RgKnown, Add(p)
                  PROVE  AddEffect(p)
<1>1. /\ cmd[p].at = "add" /\ holder = NoProc
      /\ UNCHANGED <<kind, keys, fresh, attached, holder, begun, history>>
  BY DEF Add, On, LockFree, history
<1>2. CASE Registered(cmd[p].name)
  <2>1. UNCHANGED <<registry, made>> /\ cmd' = [cmd EXCEPT ![p] = Idle]
    BY <1>2 DEF Add, Done
  <2>2. Others(p) /\ Ends(p)
    BY <2>1 DEF Others, Ends, RgCommanded
  <2> QED
    BY <1>1, <2>1, <2>2 DEF AddEffect
<1>3. CASE ~ Registered(cmd[p].name)
  <2>1. /\ made' = made + 1 /\ made < MaxRegs
        /\ registry' = [registry EXCEPT ![cmd[p].name] =
                          [type |-> cmd[p].type, reg |-> made + 1]]
        /\ cmd' = [cmd EXCEPT ![p].at = "keys", ![p].reg = made + 1]
    BY <1>3 DEF Add
  <2>2. registry[cmd[p].name] = Absent /\ registry[cmd[p].name].reg = NoReg
    BY <1>3 DEF Registered, Absent
  <2>3. Others(p) /\ Moves(p, "keys") /\ UNCHANGED <<cmd[p].listed, cmd[p].agents>>
    BY <2>1 DEF Others, Moves, RgCommanded, Commands
  <2>4. cmd[p].name \in Names
    BY <1>1 DEF RgKnown
  <2>5. /\ registry'[cmd[p].name].reg = made + 1
        /\ \A n \in Names \ {cmd[p].name} : registry'[n] = registry[n]
    BY <2>1, <2>4 DEF RgFiles
  <2> QED
    BY <1>1, <2>1, <2>2, <2>3, <2>5 DEF AddEffect
<1> QED
  BY <1>2, <1>3

KeysStoredEffect(p) ==
  /\ cmd[p].at = "keys" /\ Others(p)
  /\ UNCHANGED <<kind, stored, attached, holder, begun, made, history>>
  /\ \/ Ends(p)
     \/ /\ cmd[p].op = "rotate" /\ Moves(p, "sync")
        /\ UNCHANGED <<cmd[p].listed, cmd[p].agents>>
LEMMA KeysStoredSteps == ASSUME NEW p \in Procs, RgCommanded, KeysStored(p)
                         PROVE  KeysStoredEffect(p)
BY DEF KeysStoredEffect, KeysStored, RgCommanded, Commands, Others, Ends, Moves, On, To, Done

UpdateEffect(p) ==
  /\ cmd[p].at = "update" /\ Others(p)
  /\ UNCHANGED <<kind, stored, attached, holder, begun, made, history>>
  /\ \/ Ends(p)
     \/ Moves(p, "keys") /\ UNCHANGED <<cmd[p].listed, cmd[p].agents>>
LEMMA UpdateSteps == ASSUME NEW p \in Procs, RgCommanded, Update(p)
                     PROVE  UpdateEffect(p)
BY DEF UpdateEffect, Update, RgCommanded, Commands, Others, Ends, Moves, On, Done

ListEffect(p) ==
  /\ cmd[p].at = "list" /\ Others(p) /\ Moves(p, "update")
  /\ UNCHANGED <<kind, stored, attached, holder, begun, made, history>>
  /\ cmd'[p].listed = AgentsUsing(cmd[p].name) /\ cmd'[p].agents = AgentsUsing(cmd[p].name)
LEMMA ListSteps == ASSUME NEW p \in Procs, RgCommanded, ListAgents(p)
                   PROVE  ListEffect(p)
BY DEF ListEffect, ListAgents, RgCommanded, Commands, Others, Moves, On

SyncEffect(p) ==
  /\ cmd[p].at = "sync" /\ Others(p) /\ Moves(p, "sync")
  /\ UNCHANGED <<kind, registry, keys, attached, holder, begun, made, history>>
  /\ cmd'[p].listed = cmd[p].listed /\ cmd'[p].overtaken = cmd[p].overtaken
  /\ \E a \in cmd[p].agents :
       /\ cmd'[p].agents = cmd[p].agents \ {a}
       /\ \/ fresh' = Synced(a) /\ cmd'[p].failed = cmd[p].failed
          \/ fresh' = fresh /\ cmd'[p].failed
LEMMA SyncSteps == ASSUME NEW p \in Procs, RgCommanded, SyncListed(p)
                   PROVE  SyncEffect(p)
<1>1. PICK a \in cmd[p].agents :
        \/ /\ fresh' = Synced(a)
           /\ cmd' = [cmd EXCEPT ![p].agents = @ \ {a}]
        \/ /\ cmd' = [cmd EXCEPT ![p].agents = @ \ {a}, ![p].failed = TRUE]
           /\ UNCHANGED fresh
  BY DEF SyncListed
<1>2. UNCHANGED <<kind, registry, keys, attached, holder, begun, made, history>>
  BY DEF SyncListed
<1>3. cmd[p].at = "sync" /\ Others(p) /\ Moves(p, "sync")
  BY <1>1 DEF SyncListed, On, RgCommanded, Commands, Others, Moves
<1>4. cmd'[p].listed = cmd[p].listed /\ cmd'[p].overtaken = cmd[p].overtaken
  BY <1>1 DEF RgCommanded, Commands
<1>5. /\ cmd'[p].agents = cmd[p].agents \ {a}
      /\ \/ fresh' = Synced(a) /\ cmd'[p].failed = cmd[p].failed
         \/ fresh' = fresh /\ cmd'[p].failed
  BY <1>1 DEF RgCommanded, Commands
<1> QED
  BY <1>2, <1>3, <1>4, <1>5 DEF SyncEffect

CheckEffect(p) ==
  /\ cmd[p].at = "check" /\ holder = NoProc /\ Others(p)
  /\ UNCHANGED <<kind, stored, attached, begun, made, history>>
  /\ \/ Ends(p) /\ UNCHANGED holder
     \/ holder' = p /\ Moves(p, "clear") /\ UNCHANGED <<cmd[p].listed, cmd[p].agents>>
LEMMA CheckSteps == ASSUME NEW p \in Procs, RgCommanded, CheckUse(p)
                    PROVE  CheckEffect(p)
BY RgDistinct DEF CheckEffect, CheckUse, RgCommanded, Commands, Others, Ends, Moves, On, To,
   LockFree, Done

ClearEffect(p) ==
  /\ cmd[p].at = "clear" /\ OthersHear(p) /\ Moves(p, "save")
  /\ UNCHANGED <<cmd[p].listed, cmd[p].agents>>
  /\ keys' = [keys EXCEPT ![cmd[p].name] = NoKeys]
  /\ fresh' = fresh \ StaleFor(cmd[p].name)
  /\ UNCHANGED <<kind, registry, attached, holder, begun, made, history>>
LEMMA ClearSteps == ASSUME NEW p \in Procs, RgCommanded, ClearKeys(p)
                    PROVE  ClearEffect(p)
<1>1. cmd' = [Overtaking(p, cmd) EXCEPT ![p].at = "save"] /\ UNCHANGED holder
  BY RgDistinct DEF ClearKeys, AfterStep
<1>2. OthersHear(p)
  BY <1>1 DEF OthersHear, Overtaking, RgCommanded, Commands
<1>3. Moves(p, "save") /\ UNCHANGED <<cmd[p].listed, cmd[p].agents>>
  BY <1>1 DEF Moves, Overtaking, RgCommanded, Commands
<1> QED
  BY <1>1, <1>2, <1>3 DEF ClearEffect, ClearKeys, Clear, On

SaveEffect(p) ==
  /\ cmd[p].at = "save" /\ Others(p) /\ holder' = NoProc
  /\ registry' = [registry EXCEPT ![cmd[p].name] = Absent]
  /\ gone' = gone \cup {cmd[p].name}
  /\ forcedOff' \in {forcedOff, forcedOff \cup {cmd[p].name}}
  /\ UNCHANGED <<kind, keys, fresh, attached, begun, made, late>>
  /\ \/ Ends(p)
     \/ Moves(p, "sweep") /\ UNCHANGED <<cmd[p].listed, cmd[p].agents>>
LEMMA SaveSteps == ASSUME NEW p \in Procs, RgCommanded, SaveWithout(p)
                   PROVE  SaveEffect(p)
<1>1. /\ holder' = NoProc
      /\ cmd' = [cmd EXCEPT ![p].at = "sweep"] \/ cmd' = [cmd EXCEPT ![p] = Idle]
  BY RgDistinct DEF SaveWithout, AfterStep
<1>2. /\ Others(p)
      /\ \/ Ends(p)
         \/ Moves(p, "sweep") /\ UNCHANGED <<cmd[p].listed, cmd[p].agents>>
  <2>1. CASE cmd' = [cmd EXCEPT ![p].at = "sweep"]
    BY <2>1 DEF Others, Moves, RgCommanded, Commands
  <2>2. CASE cmd' = [cmd EXCEPT ![p] = Idle]
    <3>1. Others(p) /\ Ends(p)
      BY <2>2 DEF Others, Ends, RgCommanded
    <3> QED
      BY <3>1
  <2> QED
    BY <1>1, <2>1, <2>2
<1>3. forcedOff' \in {forcedOff, forcedOff \cup {cmd[p].name}}
  BY DEF SaveWithout
<1> QED
  BY <1>1, <1>2, <1>3 DEF SaveEffect, SaveWithout, On

SweepEffect(p) ==
  /\ cmd[p].at = "sweep" /\ OthersHear(p) /\ Ends(p)
  /\ keys' = [keys EXCEPT ![cmd[p].name] = NoKeys]
  /\ fresh' = fresh \ StaleFor(cmd[p].name)
  /\ UNCHANGED <<kind, registry, attached, holder, begun, made, history>>
LEMMA SweepSteps == ASSUME NEW p \in Procs, RgCommanded, Sweep(p)
                    PROVE  SweepEffect(p)
<1>1. cmd' = [Overtaking(p, cmd) EXCEPT ![p] = Idle]
  BY DEF Sweep
<1>2. OthersHear(p) /\ Ends(p)
  BY <1>1 DEF OthersHear, Ends, Overtaking, RgCommanded, Commands
<1> QED
  BY <1>1, <1>2 DEF SweepEffect, Sweep, Clear, On

LEMMA NextRgKnown == RgInv /\ [Next]_vars => RgKnown'
<1> SUFFICES ASSUME RgInv, [Next]_vars
             PROVE  RgKnown'
  OBVIOUS
<1>0. /\ RgFiles /\ RgCommanded /\ RgKnown
  BY DEF RgFiles, RgCommanded, RgInv, TypeOK
<1>1. ASSUME NEW p \in Procs, AddIntegration(p)
      PROVE  RgKnown'
  <2>1. AddEffect(p)
    BY <1>0, <1>1, AddSteps DEF AddIntegration
  <2> QED
    BY <1>0, <2>1, RgDistinct DEF AddEffect, Others, Ends, Moves, Idle, RgKnown,
       RgFiles, history
<1>2. ASSUME NEW p \in Procs, AddChannel(p)
      PROVE  RgKnown'
  <2>1. AddEffect(p)
    BY <1>0, <1>2, AddSteps DEF AddChannel
  <2> QED
    BY <1>0, <2>1, RgDistinct DEF AddEffect, Others, Ends, Moves, Idle, RgKnown,
       RgFiles, history
<1>3. ASSUME NEW p \in Procs, KeysStored(p)
      PROVE  RgKnown'
  <2>1. KeysStoredEffect(p)
    BY <1>0, <1>3, KeysStoredSteps
  <2> QED
    BY <1>0, <2>1, RgDistinct DEF KeysStoredEffect, Others, Ends, Moves, Idle, RgKnown,
       RgFiles, history
<1>4. ASSUME NEW p \in Procs, Update(p)
      PROVE  RgKnown'
  <2>1. UpdateEffect(p)
    BY <1>0, <1>4, UpdateSteps
  <2> QED
    BY <1>0, <2>1, RgDistinct DEF UpdateEffect, Others, Ends, Moves, Idle, RgKnown,
       RgFiles, history
<1>5. ASSUME NEW p \in Procs, ListAgents(p)
      PROVE  RgKnown'
  <2>1. ListEffect(p)
    BY <1>0, <1>5, ListSteps
  <2> QED
    BY <1>0, <2>1, RgDistinct DEF ListEffect, Others, Ends, Moves, Idle, RgKnown,
       RgFiles, history
<1>6. ASSUME NEW p \in Procs, SyncListed(p)
      PROVE  RgKnown'
  <2>1. SyncEffect(p)
    BY <1>0, <1>6, SyncSteps
  <2> QED
    BY <1>0, <2>1, RgDistinct DEF SyncEffect, Others, Ends, Moves, Idle, RgKnown,
       RgFiles, history
<1>7. ASSUME NEW p \in Procs, CheckUse(p)
      PROVE  RgKnown'
  <2>1. CheckEffect(p)
    BY <1>0, <1>7, CheckSteps
  <2> QED
    BY <1>0, <2>1, RgDistinct DEF CheckEffect, Others, Ends, Moves, Idle, RgKnown,
       RgFiles, history
<1>8. ASSUME NEW p \in Procs, ClearKeys(p)
      PROVE  RgKnown'
  <2>1. ClearEffect(p)
    BY <1>0, <1>8, ClearSteps
  <2> QED
    BY <1>0, <2>1, RgDistinct DEF ClearEffect, OthersHear, Ends, Moves, Idle, RgKnown,
       RgFiles, history
<1>9. ASSUME NEW p \in Procs, RemoveIntegration(p)
      PROVE  RgKnown'
  <2>1. SaveEffect(p)
    BY <1>0, <1>9, SaveSteps DEF RemoveIntegration
  <2> QED
    BY <1>0, <2>1, RgDistinct DEF SaveEffect, Others, Ends, Moves, Idle, RgKnown,
       RgFiles, history
<1>10. ASSUME NEW p \in Procs, RemoveChannel(p)
      PROVE  RgKnown'
  <2>1. SaveEffect(p)
    BY <1>0, <1>10, SaveSteps DEF RemoveChannel
  <2> QED
    BY <1>0, <2>1, RgDistinct DEF SaveEffect, Others, Ends, Moves, Idle, RgKnown,
       RgFiles, history
<1>11. ASSUME NEW p \in Procs, Sweep(p)
      PROVE  RgKnown'
  <2>1. SweepEffect(p)
    BY <1>0, <1>11, SweepSteps
  <2> QED
    BY <1>0, <2>1, RgDistinct DEF SweepEffect, OthersHear, Ends, Moves, Idle, RgKnown,
       RgFiles, history
<1> USE <1>0, RgDistinct DEF On, Idle, vars, stored, history, LockFree, RgCommanded,
Commands, RgKnown, Absent, RgFiles, Types
<1>12. ASSUME NEW p \in Procs, BeginCreateIntegration(p)
      PROVE  RgKnown'
  BY <1>12 DEF BeginCreateIntegration, Create, Begin
<1>13. ASSUME NEW p \in Procs, BeginCreateChannel(p)
      PROVE  RgKnown'
  BY <1>13 DEF BeginCreateChannel, Create, Begin
<1>14. ASSUME NEW p \in Procs, BeginCreateInGui(p)
      PROVE  RgKnown'
  BY <1>14 DEF BeginCreateInGui, Create, Begin
<1>15. ASSUME NEW p \in Procs, StoreKey(p)
      PROVE  RgKnown'
  BY <1>15 DEF StoreKey, Overtaking
<1>16. ASSUME NEW p \in Procs, SkipKey(p)
      PROVE  RgKnown'
  BY <1>16 DEF SkipKey
<1>17. ASSUME NEW p \in Procs, EditIntegration(p)
      PROVE  RgKnown'
  BY <1>17 DEF EditIntegration, BeginEdit, Begin
<1>18. ASSUME NEW p \in Procs, EditChannel(p)
      PROVE  RgKnown'
  BY <1>18 DEF EditChannel, BeginEdit, Begin
<1>19. ASSUME NEW p \in Procs, BeginPatchInGui(p)
      PROVE  RgKnown'
  BY <1>19 DEF BeginPatchInGui, Begin
<1>20. ASSUME NEW p \in Procs, BeginRotate(p)
      PROVE  RgKnown'
  BY <1>20 DEF BeginRotate, Begin
<1>21. ASSUME NEW p \in Procs, RotationEnds(p)
      PROVE  RgKnown'
  BY <1>21 DEF RotationEnds, Done
<1>22. ASSUME NEW p \in Procs, BeginDeleteIntegration(p)
      PROVE  RgKnown'
  BY <1>22 DEF BeginDeleteIntegration, Delete, Begin
<1>23. ASSUME NEW p \in Procs, BeginDeleteChannel(p)
      PROVE  RgKnown'
  BY <1>23 DEF BeginDeleteChannel, Delete, Begin
<1>24. ASSUME NEW p \in Procs, BeginDeleteInGui(p)
      PROVE  RgKnown'
  BY <1>24 DEF BeginDeleteInGui, Delete, Begin
<1>25. ASSUME NEW p \in Procs, AttachIntegration(p)
      PROVE  RgKnown'
  BY <1>25 DEF AttachIntegration, BeginAttach, Begin
<1>26. ASSUME NEW p \in Procs, AttachChannel(p)
      PROVE  RgKnown'
  BY <1>26 DEF AttachChannel, BeginAttach, Begin
<1>27. ASSUME NEW p \in Procs, TargetType(p)
      PROVE  RgKnown'
  BY <1>27 DEF TargetType
<1>28. ASSUME NEW p \in Procs, AddAgentIntegration(p)
      PROVE  RgKnown'
  BY <1>28 DEF AddAgentIntegration, Place, Done
<1>29. ASSUME NEW p \in Procs, AddAgentChannel(p)
      PROVE  RgKnown'
  BY <1>29 DEF AddAgentChannel, Place, Done
<1>30. ASSUME NEW p \in Procs, Stop(p)
      PROVE  RgKnown'
  BY <1>30 DEF Stop, Done
<1>31. ASSUME NEW a \in Agents, AgentSync(a)
      PROVE  RgKnown'
  BY <1>31 DEF AgentSync, Synced
<1>32. ASSUME NEW a \in Agents, DetachIntegration(a)
      PROVE  RgKnown'
  BY <1>32 DEF DetachIntegration, Detach
<1>33. ASSUME NEW a \in Agents, DetachChannel(a)
      PROVE  RgKnown'
  BY <1>33 DEF DetachChannel, Detach
<1>34. CASE UNCHANGED vars
  BY <1>34
<1> HIDE DEF On, Idle, vars, stored, history, LockFree, RgCommanded, Commands, RgKnown,
Absent, RgFiles, Types
<1> QED
  BY <1>1, <1>2, <1>3, <1>4, <1>5, <1>6, <1>7, <1>8, <1>9, <1>10, <1>11, <1>12, <1>13,
     <1>14, <1>15, <1>16, <1>17, <1>18, <1>19, <1>20, <1>21, <1>22, <1>23, <1>24,
     <1>25, <1>26, <1>27, <1>28, <1>29, <1>30, <1>31, <1>32, <1>33, <1>34 DEF Next

LEMMA NextRgInherited == RgInv /\ [Next]_vars => RgInherited'
<1> SUFFICES ASSUME RgInv, [Next]_vars
             PROVE  RgInherited'
  OBVIOUS
<1>0. /\ RgFiles /\ RgCommanded /\ RgKnown /\ RgInherited
  BY DEF RgFiles, RgCommanded, RgInv, TypeOK
<1>1. ASSUME NEW p \in Procs, AddIntegration(p)
      PROVE  RgInherited'
  <2>1. AddEffect(p)
    BY <1>0, <1>1, AddSteps DEF AddIntegration
  <2>2. UNCHANGED <<keys, late>> /\ Others(p) /\ cmd'[p].at # "save"
    BY <2>1 DEF AddEffect, Ends, Moves, Idle, history
  <2>3. \A n \in Names : registry'[n].reg = registry[n].reg \/ registry[n].reg = NoReg
    BY <2>1 DEF AddEffect
  <2> QED
    BY <1>0, <2>2, <2>3 DEF RgInherited, NothingInherited, Others
<1>2. ASSUME NEW p \in Procs, AddChannel(p)
      PROVE  RgInherited'
  <2>1. AddEffect(p)
    BY <1>0, <1>2, AddSteps DEF AddChannel
  <2>2. UNCHANGED <<keys, late>> /\ Others(p) /\ cmd'[p].at # "save"
    BY <2>1 DEF AddEffect, Ends, Moves, Idle, history
  <2>3. \A n \in Names : registry'[n].reg = registry[n].reg \/ registry[n].reg = NoReg
    BY <2>1 DEF AddEffect
  <2> QED
    BY <1>0, <2>2, <2>3 DEF RgInherited, NothingInherited, Others
<1>3. ASSUME NEW p \in Procs, KeysStored(p)
      PROVE  RgInherited'
  <2>1. KeysStoredEffect(p)
    BY <1>0, <1>3, KeysStoredSteps
  <2> QED
    BY <1>0, <2>1, RgDistinct DEF KeysStoredEffect, Others, Ends, Moves, Idle, RgKnown,
       RgInherited, NothingInherited, RgFiles, NoKeys, stored, history, Absent
<1>4. ASSUME NEW p \in Procs, Update(p)
      PROVE  RgInherited'
  <2>1. UpdateEffect(p)
    BY <1>0, <1>4, UpdateSteps
  <2> QED
    BY <1>0, <2>1, RgDistinct DEF UpdateEffect, Others, Ends, Moves, Idle, RgKnown,
       RgInherited, NothingInherited, RgFiles, NoKeys, stored, history, Absent
<1>5. ASSUME NEW p \in Procs, ListAgents(p)
      PROVE  RgInherited'
  <2>1. ListEffect(p)
    BY <1>0, <1>5, ListSteps
  <2> QED
    BY <1>0, <2>1, RgDistinct DEF ListEffect, Others, Ends, Moves, Idle, RgKnown,
       RgInherited, NothingInherited, RgFiles, NoKeys, stored, history, Absent
<1>6. ASSUME NEW p \in Procs, SyncListed(p)
      PROVE  RgInherited'
  <2>1. SyncEffect(p)
    BY <1>0, <1>6, SyncSteps
  <2> QED
    BY <1>0, <2>1, RgDistinct DEF SyncEffect, Others, Ends, Moves, Idle, RgKnown,
       RgInherited, NothingInherited, RgFiles, NoKeys, stored, history, Absent
<1>7. ASSUME NEW p \in Procs, CheckUse(p)
      PROVE  RgInherited'
  <2>1. CheckEffect(p)
    BY <1>0, <1>7, CheckSteps
  <2> QED
    BY <1>0, <2>1, RgDistinct DEF CheckEffect, Others, Ends, Moves, Idle, RgKnown,
       RgInherited, NothingInherited, RgFiles, NoKeys, stored, history, Absent
<1>8. ASSUME NEW p \in Procs, ClearKeys(p)
      PROVE  RgInherited'
  <2>1. ClearEffect(p)
    BY <1>0, <1>8, ClearSteps
  <2>2. /\ UNCHANGED <<registry, late>> /\ OthersHear(p) /\ cmd[p].name \in Names
        /\ keys' = [keys EXCEPT ![cmd[p].name] = NoKeys]
        /\ cmd'[p].at = "save" => cmd'[p].name = cmd[p].name
    BY <1>0, <2>1 DEF ClearEffect, Ends, Moves, Idle, RgKnown, history
  <2>3. /\ \A k \in Keys : keys'[cmd[p].name][k] = NoReg
        /\ \A n \in Names \ {cmd[p].name} : keys'[n] = keys[n]
    BY <1>0, <2>2 DEF RgFiles, NoKeys
  <2>4. NothingInherited'
    BY <1>0, <2>2, <2>3 DEF RgInherited, NothingInherited
  <2>5. ASSUME NEW q \in Procs, cmd'[q].at = "save", NEW k \in Keys,
               keys'[cmd'[q].name][k] # NoReg
        PROVE  cmd'[q].name \in late'
    <3>1. CASE q = p
      BY <2>2, <2>3, <2>5, <3>1
    <3>2. CASE q # p
      <4>1. cmd[q].at = "save" /\ cmd'[q].name = cmd[q].name /\ cmd[q].name \in Names
        BY <1>0, <2>2, <2>5, <3>2 DEF OthersHear, RgKnown
      <4>2. keys[cmd[q].name][k] # NoReg
        BY <2>3, <2>5, <4>1
      <4> QED
        BY <1>0, <2>2, <4>1, <4>2 DEF RgInherited
    <3> QED
      BY <3>1, <3>2
  <2> QED
    BY <2>4, <2>5 DEF RgInherited
<1>9. ASSUME NEW p \in Procs, RemoveIntegration(p)
      PROVE  RgInherited'
  <2>1. SaveEffect(p)
    BY <1>0, <1>9, SaveSteps DEF RemoveIntegration
  <2>2. /\ UNCHANGED <<keys, late>> /\ Others(p) /\ cmd'[p].at # "save"
        /\ cmd[p].name \in Names /\ cmd[p].at = "save"
    BY <1>0, <2>1 DEF SaveEffect, Ends, Moves, Idle, RgKnown
  <2>3. \A n \in Names \ {cmd[p].name} : registry'[n] = registry[n]
    BY <1>0, <2>1 DEF SaveEffect, RgFiles
  <2>4. \A k \in Keys : keys[cmd[p].name][k] # NoReg => cmd[p].name \in late
    BY <1>0, <2>2 DEF RgInherited
  <2> QED
    BY <1>0, <2>2, <2>3, <2>4 DEF RgInherited, NothingInherited, Others
<1>10. ASSUME NEW p \in Procs, RemoveChannel(p)
      PROVE  RgInherited'
  <2>1. SaveEffect(p)
    BY <1>0, <1>10, SaveSteps DEF RemoveChannel
  <2>2. /\ UNCHANGED <<keys, late>> /\ Others(p) /\ cmd'[p].at # "save"
        /\ cmd[p].name \in Names /\ cmd[p].at = "save"
    BY <1>0, <2>1 DEF SaveEffect, Ends, Moves, Idle, RgKnown
  <2>3. \A n \in Names \ {cmd[p].name} : registry'[n] = registry[n]
    BY <1>0, <2>1 DEF SaveEffect, RgFiles
  <2>4. \A k \in Keys : keys[cmd[p].name][k] # NoReg => cmd[p].name \in late
    BY <1>0, <2>2 DEF RgInherited
  <2> QED
    BY <1>0, <2>2, <2>3, <2>4 DEF RgInherited, NothingInherited, Others
<1>11. ASSUME NEW p \in Procs, Sweep(p)
      PROVE  RgInherited'
  <2>1. SweepEffect(p)
    BY <1>0, <1>11, SweepSteps
  <2>2. /\ UNCHANGED <<registry, late>> /\ OthersHear(p) /\ cmd[p].name \in Names
        /\ keys' = [keys EXCEPT ![cmd[p].name] = NoKeys]
        /\ cmd'[p].at = "save" => cmd'[p].name = cmd[p].name
    BY <1>0, <2>1 DEF SweepEffect, Ends, Moves, Idle, RgKnown, history
  <2>3. /\ \A k \in Keys : keys'[cmd[p].name][k] = NoReg
        /\ \A n \in Names \ {cmd[p].name} : keys'[n] = keys[n]
    BY <1>0, <2>2 DEF RgFiles, NoKeys
  <2>4. NothingInherited'
    BY <1>0, <2>2, <2>3 DEF RgInherited, NothingInherited
  <2>5. ASSUME NEW q \in Procs, cmd'[q].at = "save", NEW k \in Keys,
               keys'[cmd'[q].name][k] # NoReg
        PROVE  cmd'[q].name \in late'
    <3>1. CASE q = p
      BY <2>2, <2>3, <2>5, <3>1
    <3>2. CASE q # p
      <4>1. cmd[q].at = "save" /\ cmd'[q].name = cmd[q].name /\ cmd[q].name \in Names
        BY <1>0, <2>2, <2>5, <3>2 DEF OthersHear, RgKnown
      <4>2. keys[cmd[q].name][k] # NoReg
        BY <2>3, <2>5, <4>1
      <4> QED
        BY <1>0, <2>2, <4>1, <4>2 DEF RgInherited
    <3> QED
      BY <3>1, <3>2
  <2> QED
    BY <2>4, <2>5 DEF RgInherited
<1> USE <1>0, RgDistinct DEF On, Idle, vars, stored, history, LockFree, RgCommanded,
Commands, RgKnown, RgInherited, NothingInherited, NoKeys, Over, Absent, RgFiles
<1>12. ASSUME NEW p \in Procs, BeginCreateIntegration(p)
      PROVE  RgInherited'
  BY <1>12 DEF BeginCreateIntegration, Create, Begin
<1>13. ASSUME NEW p \in Procs, BeginCreateChannel(p)
      PROVE  RgInherited'
  BY <1>13 DEF BeginCreateChannel, Create, Begin
<1>14. ASSUME NEW p \in Procs, BeginCreateInGui(p)
      PROVE  RgInherited'
  BY <1>14 DEF BeginCreateInGui, Create, Begin
<1>15. ASSUME NEW p \in Procs, StoreKey(p)
      PROVE  RgInherited'
  BY SMTT(150), <1>15 DEF StoreKey, Overtaking
<1>16. ASSUME NEW p \in Procs, SkipKey(p)
      PROVE  RgInherited'
  BY <1>16 DEF SkipKey
<1>17. ASSUME NEW p \in Procs, EditIntegration(p)
      PROVE  RgInherited'
  BY <1>17 DEF EditIntegration, BeginEdit, Begin
<1>18. ASSUME NEW p \in Procs, EditChannel(p)
      PROVE  RgInherited'
  BY <1>18 DEF EditChannel, BeginEdit, Begin
<1>19. ASSUME NEW p \in Procs, BeginPatchInGui(p)
      PROVE  RgInherited'
  BY <1>19 DEF BeginPatchInGui, Begin
<1>20. ASSUME NEW p \in Procs, BeginRotate(p)
      PROVE  RgInherited'
  BY <1>20 DEF BeginRotate, Begin
<1>21. ASSUME NEW p \in Procs, RotationEnds(p)
      PROVE  RgInherited'
  BY <1>21 DEF RotationEnds, Done
<1>22. ASSUME NEW p \in Procs, BeginDeleteIntegration(p)
      PROVE  RgInherited'
  BY <1>22 DEF BeginDeleteIntegration, Delete, Begin
<1>23. ASSUME NEW p \in Procs, BeginDeleteChannel(p)
      PROVE  RgInherited'
  BY <1>23 DEF BeginDeleteChannel, Delete, Begin
<1>24. ASSUME NEW p \in Procs, BeginDeleteInGui(p)
      PROVE  RgInherited'
  BY <1>24 DEF BeginDeleteInGui, Delete, Begin
<1>25. ASSUME NEW p \in Procs, AttachIntegration(p)
      PROVE  RgInherited'
  BY <1>25 DEF AttachIntegration, BeginAttach, Begin
<1>26. ASSUME NEW p \in Procs, AttachChannel(p)
      PROVE  RgInherited'
  BY <1>26 DEF AttachChannel, BeginAttach, Begin
<1>27. ASSUME NEW p \in Procs, TargetType(p)
      PROVE  RgInherited'
  BY <1>27 DEF TargetType
<1>28. ASSUME NEW p \in Procs, AddAgentIntegration(p)
      PROVE  RgInherited'
  BY <1>28 DEF AddAgentIntegration, Place, Done
<1>29. ASSUME NEW p \in Procs, AddAgentChannel(p)
      PROVE  RgInherited'
  BY <1>29 DEF AddAgentChannel, Place, Done
<1>30. ASSUME NEW p \in Procs, Stop(p)
      PROVE  RgInherited'
  BY <1>30 DEF Stop, Done
<1>31. ASSUME NEW a \in Agents, AgentSync(a)
      PROVE  RgInherited'
  BY <1>31 DEF AgentSync, Synced
<1>32. ASSUME NEW a \in Agents, DetachIntegration(a)
      PROVE  RgInherited'
  BY <1>32 DEF DetachIntegration, Detach
<1>33. ASSUME NEW a \in Agents, DetachChannel(a)
      PROVE  RgInherited'
  BY <1>33 DEF DetachChannel, Detach
<1>34. CASE UNCHANGED vars
  BY <1>34
<1> HIDE DEF On, Idle, vars, stored, history, LockFree, RgCommanded, Commands, RgKnown,
RgInherited, NothingInherited, NoKeys, Over, Absent, RgFiles
<1> QED
  BY <1>1, <1>2, <1>3, <1>4, <1>5, <1>6, <1>7, <1>8, <1>9, <1>10, <1>11, <1>12, <1>13,
     <1>14, <1>15, <1>16, <1>17, <1>18, <1>19, <1>20, <1>21, <1>22, <1>23, <1>24,
     <1>25, <1>26, <1>27, <1>28, <1>29, <1>30, <1>31, <1>32, <1>33, <1>34 DEF Next

LEMMA NextRgPlaced == RgInv /\ [Next]_vars => RgPlaced'
<1> SUFFICES ASSUME RgInv, [Next]_vars
             PROVE  RgPlaced'
  OBVIOUS
<1>0. /\ RgFiles /\ RgCommanded /\ RgKnown /\ RgPlaced
  BY DEF RgFiles, RgCommanded, RgInv, TypeOK
<1>1. ASSUME NEW p \in Procs, AddIntegration(p)
      PROVE  RgPlaced'
  <2>1. AddEffect(p)
    BY <1>0, <1>1, AddSteps DEF AddIntegration
  <2> QED
    BY SMTT(30), <1>0, <2>1, RgDistinct DEF AddEffect, Others, Ends, Moves, Idle, RgPlaced,
       RgKnown, RgFiles, Registered, Absent, Types, stored, history
<1>2. ASSUME NEW p \in Procs, AddChannel(p)
      PROVE  RgPlaced'
  <2>1. AddEffect(p)
    BY <1>0, <1>2, AddSteps DEF AddChannel
  <2> QED
    BY <1>0, <2>1, RgDistinct DEF AddEffect, Others, Ends, Moves, Idle, RgPlaced,
       RgKnown, RgFiles, Registered, Absent, Types, stored, history
<1>3. ASSUME NEW p \in Procs, KeysStored(p)
      PROVE  RgPlaced'
  <2>1. KeysStoredEffect(p)
    BY <1>0, <1>3, KeysStoredSteps
  <2> QED
    BY <1>0, <2>1, RgDistinct DEF KeysStoredEffect, Others, Ends, Moves, Idle,
       RgPlaced, RgKnown, RgFiles, Registered, Absent, Types, stored, history
<1>4. ASSUME NEW p \in Procs, Update(p)
      PROVE  RgPlaced'
  <2>1. UpdateEffect(p)
    BY <1>0, <1>4, UpdateSteps
  <2> QED
    BY <1>0, <2>1, RgDistinct DEF UpdateEffect, Others, Ends, Moves, Idle, RgPlaced,
       RgKnown, RgFiles, Registered, Absent, Types, stored, history
<1>5. ASSUME NEW p \in Procs, ListAgents(p)
      PROVE  RgPlaced'
  <2>1. ListEffect(p)
    BY <1>0, <1>5, ListSteps
  <2> QED
    BY <1>0, <2>1, RgDistinct DEF ListEffect, Others, Ends, Moves, Idle, RgPlaced,
       RgKnown, RgFiles, Registered, Absent, Types, stored, history
<1>6. ASSUME NEW p \in Procs, SyncListed(p)
      PROVE  RgPlaced'
  <2>1. SyncEffect(p)
    BY <1>0, <1>6, SyncSteps
  <2> QED
    BY <1>0, <2>1, RgDistinct DEF SyncEffect, Others, Ends, Moves, Idle, RgPlaced,
       RgKnown, RgFiles, Registered, Absent, Types, stored, history
<1>7. ASSUME NEW p \in Procs, CheckUse(p)
      PROVE  RgPlaced'
  <2>1. CheckEffect(p)
    BY <1>0, <1>7, CheckSteps
  <2> QED
    BY <1>0, <2>1, RgDistinct DEF CheckEffect, Others, Ends, Moves, Idle, RgPlaced,
       RgKnown, RgFiles, Registered, Absent, Types, stored, history
<1>8. ASSUME NEW p \in Procs, ClearKeys(p)
      PROVE  RgPlaced'
  <2>1. ClearEffect(p)
    BY <1>0, <1>8, ClearSteps
  <2> QED
    BY <1>0, <2>1, RgDistinct DEF ClearEffect, OthersHear, Ends, Moves, Idle, RgPlaced,
       RgKnown, RgFiles, Registered, Absent, Types, stored, history
<1>9. ASSUME NEW p \in Procs, RemoveIntegration(p)
      PROVE  RgPlaced'
  <2>1. SaveEffect(p)
    BY <1>0, <1>9, SaveSteps DEF RemoveIntegration
  <2>2. /\ UNCHANGED attached /\ Others(p) /\ gone \subseteq gone' /\ cmd[p].name \in gone'
        /\ cmd'[p].at \notin {"look", "place"}
    BY <2>1 DEF SaveEffect, Ends, Moves, Idle
  <2>3. \A n \in Names : registry'[n] = registry[n] \/ n \in gone'
    BY <1>0, <2>1 DEF SaveEffect, RgFiles
  <2>4. ASSUME NEW n \in Names
        PROVE  /\ Registered(n) \/ n \in gone => Registered(n)' \/ n \in gone'
               /\ n \in gone => n \in gone'
    BY <2>2, <2>3 DEF Registered
  <2>5. \A q \in Procs \ {p} : cmd'[q].at \in {"look", "place"} => cmd'[q].name \in Names
    BY <1>0, <2>2 DEF Others, RgKnown
  <2>6. \A a \in Agents : attached[a] \subseteq Names
    BY <1>0 DEF RgFiles
  <2> QED
    BY <1>0, <2>2, <2>3, <2>4, <2>5, <2>6 DEF RgPlaced, Others
<1>10. ASSUME NEW p \in Procs, RemoveChannel(p)
      PROVE  RgPlaced'
  <2>1. SaveEffect(p)
    BY <1>0, <1>10, SaveSteps DEF RemoveChannel
  <2>2. /\ UNCHANGED attached /\ Others(p) /\ gone \subseteq gone' /\ cmd[p].name \in gone'
        /\ cmd'[p].at \notin {"look", "place"}
    BY <2>1 DEF SaveEffect, Ends, Moves, Idle
  <2>3. \A n \in Names : registry'[n] = registry[n] \/ n \in gone'
    BY <1>0, <2>1 DEF SaveEffect, RgFiles
  <2>4. ASSUME NEW n \in Names
        PROVE  /\ Registered(n) \/ n \in gone => Registered(n)' \/ n \in gone'
               /\ n \in gone => n \in gone'
    BY <2>2, <2>3 DEF Registered
  <2>5. \A q \in Procs \ {p} : cmd'[q].at \in {"look", "place"} => cmd'[q].name \in Names
    BY <1>0, <2>2 DEF Others, RgKnown
  <2>6. \A a \in Agents : attached[a] \subseteq Names
    BY <1>0 DEF RgFiles
  <2> QED
    BY <1>0, <2>2, <2>3, <2>4, <2>5, <2>6 DEF RgPlaced, Others
<1>11. ASSUME NEW p \in Procs, Sweep(p)
      PROVE  RgPlaced'
  <2>1. SweepEffect(p)
    BY <1>0, <1>11, SweepSteps
  <2> QED
    BY <1>0, <2>1, RgDistinct DEF SweepEffect, OthersHear, Ends, Moves, Idle, RgPlaced,
       RgKnown, RgFiles, Registered, Absent, Types, stored, history
<1> USE <1>0, RgDistinct DEF On, Idle, vars, stored, history, LockFree, RgCommanded,
Commands, RgKnown, RgPlaced, Registered, RgFiles, Absent, Types
<1>12. ASSUME NEW p \in Procs, BeginCreateIntegration(p)
      PROVE  RgPlaced'
  BY <1>12 DEF BeginCreateIntegration, Create, Begin
<1>13. ASSUME NEW p \in Procs, BeginCreateChannel(p)
      PROVE  RgPlaced'
  BY <1>13 DEF BeginCreateChannel, Create, Begin
<1>14. ASSUME NEW p \in Procs, BeginCreateInGui(p)
      PROVE  RgPlaced'
  BY <1>14 DEF BeginCreateInGui, Create, Begin
<1>15. ASSUME NEW p \in Procs, StoreKey(p)
      PROVE  RgPlaced'
  BY <1>15 DEF StoreKey, Overtaking
<1>16. ASSUME NEW p \in Procs, SkipKey(p)
      PROVE  RgPlaced'
  BY <1>16 DEF SkipKey
<1>17. ASSUME NEW p \in Procs, EditIntegration(p)
      PROVE  RgPlaced'
  BY <1>17 DEF EditIntegration, BeginEdit, Begin
<1>18. ASSUME NEW p \in Procs, EditChannel(p)
      PROVE  RgPlaced'
  BY <1>18 DEF EditChannel, BeginEdit, Begin
<1>19. ASSUME NEW p \in Procs, BeginPatchInGui(p)
      PROVE  RgPlaced'
  BY <1>19 DEF BeginPatchInGui, Begin
<1>20. ASSUME NEW p \in Procs, BeginRotate(p)
      PROVE  RgPlaced'
  BY <1>20 DEF BeginRotate, Begin
<1>21. ASSUME NEW p \in Procs, RotationEnds(p)
      PROVE  RgPlaced'
  BY <1>21 DEF RotationEnds, Done
<1>22. ASSUME NEW p \in Procs, BeginDeleteIntegration(p)
      PROVE  RgPlaced'
  BY <1>22 DEF BeginDeleteIntegration, Delete, Begin
<1>23. ASSUME NEW p \in Procs, BeginDeleteChannel(p)
      PROVE  RgPlaced'
  BY <1>23 DEF BeginDeleteChannel, Delete, Begin
<1>24. ASSUME NEW p \in Procs, BeginDeleteInGui(p)
      PROVE  RgPlaced'
  BY <1>24 DEF BeginDeleteInGui, Delete, Begin
<1>25. ASSUME NEW p \in Procs, AttachIntegration(p)
      PROVE  RgPlaced'
  BY <1>25 DEF AttachIntegration, BeginAttach, Begin
<1>26. ASSUME NEW p \in Procs, AttachChannel(p)
      PROVE  RgPlaced'
  BY <1>26 DEF AttachChannel, BeginAttach, Begin
<1>27. ASSUME NEW p \in Procs, TargetType(p)
      PROVE  RgPlaced'
  BY <1>27 DEF TargetType
<1>28. ASSUME NEW p \in Procs, AddAgentIntegration(p)
      PROVE  RgPlaced'
  BY <1>28 DEF AddAgentIntegration, Place, Done
<1>29. ASSUME NEW p \in Procs, AddAgentChannel(p)
      PROVE  RgPlaced'
  BY <1>29 DEF AddAgentChannel, Place, Done
<1>30. ASSUME NEW p \in Procs, Stop(p)
      PROVE  RgPlaced'
  BY <1>30 DEF Stop, Done
<1>31. ASSUME NEW a \in Agents, AgentSync(a)
      PROVE  RgPlaced'
  BY <1>31 DEF AgentSync, Synced
<1>32. ASSUME NEW a \in Agents, DetachIntegration(a)
      PROVE  RgPlaced'
  BY <1>32 DEF DetachIntegration, Detach
<1>33. ASSUME NEW a \in Agents, DetachChannel(a)
      PROVE  RgPlaced'
  BY <1>33 DEF DetachChannel, Detach
<1>34. CASE UNCHANGED vars
  BY <1>34
<1> HIDE DEF On, Idle, vars, stored, history, LockFree, RgCommanded, Commands, RgKnown,
RgPlaced, Registered, RgFiles, Absent, Types
<1> QED
  BY <1>1, <1>2, <1>3, <1>4, <1>5, <1>6, <1>7, <1>8, <1>9, <1>10, <1>11, <1>12, <1>13,
     <1>14, <1>15, <1>16, <1>17, <1>18, <1>19, <1>20, <1>21, <1>22, <1>23, <1>24,
     <1>25, <1>26, <1>27, <1>28, <1>29, <1>30, <1>31, <1>32, <1>33, <1>34 DEF Next

LEMMA NextRgRotating == RgInv /\ [Next]_vars => RgRotating'
<1> SUFFICES ASSUME RgInv, [Next]_vars
             PROVE  RgRotating'
  OBVIOUS
<1>0. /\ RgFiles /\ RgCommanded /\ RgKnown /\ RgRotating
  BY DEF RgFiles, RgCommanded, RgInv, TypeOK
<1>1. ASSUME NEW p \in Procs, AddIntegration(p)
      PROVE  RgRotating'
  <2>1. AddEffect(p)
    BY <1>0, <1>1, AddSteps DEF AddIntegration
  <2> QED
    BY <1>0, <2>1, RgDistinct DEF AddEffect, Others, Ends, Moves, Idle, RgRotating,
       RgKnown, RgFiles, StaleFor, stored, history
<1>2. ASSUME NEW p \in Procs, AddChannel(p)
      PROVE  RgRotating'
  <2>1. AddEffect(p)
    BY <1>0, <1>2, AddSteps DEF AddChannel
  <2> QED
    BY <1>0, <2>1, RgDistinct DEF AddEffect, Others, Ends, Moves, Idle, RgRotating,
       RgKnown, RgFiles, StaleFor, stored, history
<1>3. ASSUME NEW p \in Procs, KeysStored(p)
      PROVE  RgRotating'
  <2>1. KeysStoredEffect(p)
    BY <1>0, <1>3, KeysStoredSteps
  <2> QED
    BY <1>0, <2>1, RgDistinct DEF KeysStoredEffect, Others, Ends, Moves, Idle,
       RgRotating, RgKnown, RgFiles, StaleFor, stored, history
<1>4. ASSUME NEW p \in Procs, Update(p)
      PROVE  RgRotating'
  <2>1. UpdateEffect(p)
    BY <1>0, <1>4, UpdateSteps
  <2> QED
    BY <1>0, <2>1, RgDistinct DEF UpdateEffect, Others, Ends, Moves, Idle, RgRotating,
       RgKnown, RgFiles, StaleFor, stored, history
<1>5. ASSUME NEW p \in Procs, ListAgents(p)
      PROVE  RgRotating'
  <2>1. ListEffect(p)
    BY <1>0, <1>5, ListSteps
  <2>2. \A a \in AgentsUsing(cmd[p].name) : cmd[p].name \in attached[a]
    BY DEF AgentsUsing
  <2>3. /\ cmd'[p].at = "update" /\ cmd'[p].op = cmd[p].op /\ cmd'[p].name = cmd[p].name
        /\ cmd'[p].listed = AgentsUsing(cmd[p].name) /\ cmd'[p].agents = cmd'[p].listed
        /\ UNCHANGED <<attached, fresh>> /\ Others(p) /\ cmd[p].at = "list"
    BY <2>1 DEF ListEffect, Moves, stored
  <2>4. cmd[p].op = "rotate"
    BY <1>0, <2>3 DEF RgRotating
  <2> QED
    BY <1>0, <2>2, <2>3, <2>4 DEF RgRotating, Others
<1>6. ASSUME NEW p \in Procs, SyncListed(p)
      PROVE  RgRotating'
  <2>1. SyncEffect(p)
    BY <1>0, <1>6, SyncSteps
  <2> QED
    BY <1>0, <2>1, RgDistinct DEF SyncEffect, Others, Ends, Moves, Idle, RgRotating,
       RgKnown, RgFiles, StaleFor, stored, history, Synced
<1>7. ASSUME NEW p \in Procs, CheckUse(p)
      PROVE  RgRotating'
  <2>1. CheckEffect(p)
    BY <1>0, <1>7, CheckSteps
  <2> QED
    BY <1>0, <2>1, RgDistinct DEF CheckEffect, Others, Ends, Moves, Idle, RgRotating,
       RgKnown, RgFiles, StaleFor, stored, history
<1>8. ASSUME NEW p \in Procs, ClearKeys(p)
      PROVE  RgRotating'
  <2>1. ClearEffect(p)
    BY <1>0, <1>8, ClearSteps
  <2> QED
    BY <1>0, <2>1, RgDistinct DEF ClearEffect, OthersHear, Ends, Moves, Idle,
       RgRotating, RgKnown, RgFiles, StaleFor, stored, history
<1>9. ASSUME NEW p \in Procs, RemoveIntegration(p)
      PROVE  RgRotating'
  <2>1. SaveEffect(p)
    BY <1>0, <1>9, SaveSteps DEF RemoveIntegration
  <2> QED
    BY <1>0, <2>1, RgDistinct DEF SaveEffect, Others, Ends, Moves, Idle, RgRotating,
       RgKnown, RgFiles, StaleFor, stored, history
<1>10. ASSUME NEW p \in Procs, RemoveChannel(p)
      PROVE  RgRotating'
  <2>1. SaveEffect(p)
    BY <1>0, <1>10, SaveSteps DEF RemoveChannel
  <2> QED
    BY <1>0, <2>1, RgDistinct DEF SaveEffect, Others, Ends, Moves, Idle, RgRotating,
       RgKnown, RgFiles, StaleFor, stored, history
<1>11. ASSUME NEW p \in Procs, Sweep(p)
      PROVE  RgRotating'
  <2>1. SweepEffect(p)
    BY <1>0, <1>11, SweepSteps
  <2> QED
    BY <1>0, <2>1, RgDistinct DEF SweepEffect, OthersHear, Ends, Moves, Idle,
       RgRotating, RgKnown, RgFiles, StaleFor, stored, history
<1> USE <1>0, RgDistinct DEF On, Idle, vars, stored, history, LockFree, RgCommanded,
Commands, RgKnown, RgRotating, RgFiles, Absent, StaleFor
<1>12. ASSUME NEW p \in Procs, BeginCreateIntegration(p)
      PROVE  RgRotating'
  BY <1>12 DEF BeginCreateIntegration, Create, Begin
<1>13. ASSUME NEW p \in Procs, BeginCreateChannel(p)
      PROVE  RgRotating'
  BY <1>13 DEF BeginCreateChannel, Create, Begin
<1>14. ASSUME NEW p \in Procs, BeginCreateInGui(p)
      PROVE  RgRotating'
  BY <1>14 DEF BeginCreateInGui, Create, Begin
<1>15. ASSUME NEW p \in Procs, StoreKey(p)
      PROVE  RgRotating'
  BY SMTT(30), <1>15 DEF StoreKey, Overtaking
<1>16. ASSUME NEW p \in Procs, SkipKey(p)
      PROVE  RgRotating'
  BY <1>16 DEF SkipKey
<1>17. ASSUME NEW p \in Procs, EditIntegration(p)
      PROVE  RgRotating'
  BY <1>17 DEF EditIntegration, BeginEdit, Begin
<1>18. ASSUME NEW p \in Procs, EditChannel(p)
      PROVE  RgRotating'
  BY <1>18 DEF EditChannel, BeginEdit, Begin
<1>19. ASSUME NEW p \in Procs, BeginPatchInGui(p)
      PROVE  RgRotating'
  BY <1>19 DEF BeginPatchInGui, Begin
<1>20. ASSUME NEW p \in Procs, BeginRotate(p)
      PROVE  RgRotating'
  BY <1>20 DEF BeginRotate, Begin
<1>21. ASSUME NEW p \in Procs, RotationEnds(p)
      PROVE  RgRotating'
  BY <1>21 DEF RotationEnds, Done
<1>22. ASSUME NEW p \in Procs, BeginDeleteIntegration(p)
      PROVE  RgRotating'
  BY <1>22 DEF BeginDeleteIntegration, Delete, Begin
<1>23. ASSUME NEW p \in Procs, BeginDeleteChannel(p)
      PROVE  RgRotating'
  BY <1>23 DEF BeginDeleteChannel, Delete, Begin
<1>24. ASSUME NEW p \in Procs, BeginDeleteInGui(p)
      PROVE  RgRotating'
  BY <1>24 DEF BeginDeleteInGui, Delete, Begin
<1>25. ASSUME NEW p \in Procs, AttachIntegration(p)
      PROVE  RgRotating'
  BY <1>25 DEF AttachIntegration, BeginAttach, Begin
<1>26. ASSUME NEW p \in Procs, AttachChannel(p)
      PROVE  RgRotating'
  BY <1>26 DEF AttachChannel, BeginAttach, Begin
<1>27. ASSUME NEW p \in Procs, TargetType(p)
      PROVE  RgRotating'
  BY <1>27 DEF TargetType
<1>28. ASSUME NEW p \in Procs, AddAgentIntegration(p)
      PROVE  RgRotating'
  BY <1>28 DEF AddAgentIntegration, Place, Done
<1>29. ASSUME NEW p \in Procs, AddAgentChannel(p)
      PROVE  RgRotating'
  BY <1>29 DEF AddAgentChannel, Place, Done
<1>30. ASSUME NEW p \in Procs, Stop(p)
      PROVE  RgRotating'
  BY <1>30 DEF Stop, Done
<1>31. ASSUME NEW a \in Agents, AgentSync(a)
      PROVE  RgRotating'
  BY <1>31 DEF AgentSync, Synced
<1>32. ASSUME NEW a \in Agents, DetachIntegration(a)
      PROVE  RgRotating'
  BY <1>32 DEF DetachIntegration, Detach
<1>33. ASSUME NEW a \in Agents, DetachChannel(a)
      PROVE  RgRotating'
  BY <1>33 DEF DetachChannel, Detach
<1>34. CASE UNCHANGED vars
  BY <1>34
<1> HIDE DEF On, Idle, vars, stored, history, LockFree, RgCommanded, Commands, RgKnown,
RgRotating, RgFiles, Absent, StaleFor
<1> QED
  BY SMTT(60), <1>1, <1>2, <1>3, <1>4, <1>5, <1>6, <1>7, <1>8, <1>9, <1>10, <1>11, <1>12, <1>13,
     <1>14, <1>15, <1>16, <1>17, <1>18, <1>19, <1>20, <1>21, <1>22, <1>23, <1>24,
     <1>25, <1>26, <1>27, <1>28, <1>29, <1>30, <1>31, <1>32, <1>33, <1>34 DEF Next

LEMMA NextRgFiles == RgInv /\ [Next]_vars => RgFiles'
<1> SUFFICES ASSUME RgInv, [Next]_vars
             PROVE  RgFiles'
  OBVIOUS
<1>0. /\ RgFiles /\ RgCommanded /\ RgKnown
  BY DEF RgFiles, RgCommanded, RgInv, TypeOK
<1>1. ASSUME NEW p \in Procs, AddIntegration(p)
      PROVE  RgFiles'
  <2>1. AddEffect(p)
    BY <1>0, <1>1, AddSteps DEF AddIntegration
  <2> QED
    BY SMTT(40), <1>0, <2>1, RgDistinct DEF AddEffect, Others, Ends, Moves, Idle, RgKnown,
       RgFiles, Absent, StaleFor, NoKeys, stored, history
<1>2. ASSUME NEW p \in Procs, AddChannel(p)
      PROVE  RgFiles'
  <2>1. AddEffect(p)
    BY <1>0, <1>2, AddSteps DEF AddChannel
  <2> QED
    BY <1>0, <2>1, RgDistinct DEF AddEffect, Others, Ends, Moves, Idle, RgKnown,
       RgFiles, Absent, StaleFor, NoKeys, stored, history
<1>3. ASSUME NEW p \in Procs, KeysStored(p)
      PROVE  RgFiles'
  <2>1. KeysStoredEffect(p)
    BY <1>0, <1>3, KeysStoredSteps
  <2> QED
    BY <1>0, <2>1, RgDistinct DEF KeysStoredEffect, Others, Ends, Moves, Idle, RgKnown,
       RgFiles, Absent, StaleFor, NoKeys, stored, history
<1>4. ASSUME NEW p \in Procs, Update(p)
      PROVE  RgFiles'
  <2>1. UpdateEffect(p)
    BY <1>0, <1>4, UpdateSteps
  <2> QED
    BY <1>0, <2>1, RgDistinct DEF UpdateEffect, Others, Ends, Moves, Idle, RgKnown,
       RgFiles, Absent, StaleFor, NoKeys, stored, history
<1>5. ASSUME NEW p \in Procs, ListAgents(p)
      PROVE  RgFiles'
  <2>1. ListEffect(p)
    BY <1>0, <1>5, ListSteps
  <2> QED
    BY <1>0, <2>1, RgDistinct DEF ListEffect, Others, Ends, Moves, Idle, RgKnown,
       RgFiles, Absent, StaleFor, NoKeys, stored, history
<1>6. ASSUME NEW p \in Procs, SyncListed(p)
      PROVE  RgFiles'
  <2>1. SyncEffect(p)
    BY <1>0, <1>6, SyncSteps
  <2>2. PICK a \in cmd[p].agents : fresh' \in {fresh, Synced(a)}
    BY <2>1 DEF SyncEffect
  <2>3. a \in Agents
    BY <1>0 DEF RgCommanded, Commands
  <2>4. Synced(a) \subseteq Agents \X Names
    BY <1>0, <2>3 DEF Synced, RgFiles
  <2> QED
    BY <1>0, <2>1, <2>2, <2>4 DEF SyncEffect, RgFiles, history
<1>7. ASSUME NEW p \in Procs, CheckUse(p)
      PROVE  RgFiles'
  <2>1. CheckEffect(p)
    BY <1>0, <1>7, CheckSteps
  <2> QED
    BY <1>0, <2>1, RgDistinct DEF CheckEffect, Others, Ends, Moves, Idle, RgKnown,
       RgFiles, Absent, StaleFor, NoKeys, stored, history
<1>8. ASSUME NEW p \in Procs, ClearKeys(p)
      PROVE  RgFiles'
  <2>1. ClearEffect(p)
    BY <1>0, <1>8, ClearSteps
  <2> QED
    BY <1>0, <2>1, RgDistinct DEF ClearEffect, OthersHear, Ends, Moves, Idle, RgKnown,
       RgFiles, Absent, StaleFor, NoKeys, stored, history
<1>9. ASSUME NEW p \in Procs, RemoveIntegration(p)
      PROVE  RgFiles'
  <2>1. SaveEffect(p)
    BY <1>0, <1>9, SaveSteps DEF RemoveIntegration
  <2> QED
    BY <1>0, <2>1, RgDistinct DEF SaveEffect, Others, Ends, Moves, Idle, RgKnown,
       RgFiles, Absent, StaleFor, NoKeys, stored, history
<1>10. ASSUME NEW p \in Procs, RemoveChannel(p)
      PROVE  RgFiles'
  <2>1. SaveEffect(p)
    BY <1>0, <1>10, SaveSteps DEF RemoveChannel
  <2> QED
    BY <1>0, <2>1, RgDistinct DEF SaveEffect, Others, Ends, Moves, Idle, RgKnown,
       RgFiles, Absent, StaleFor, NoKeys, stored, history
<1>11. ASSUME NEW p \in Procs, Sweep(p)
      PROVE  RgFiles'
  <2>1. SweepEffect(p)
    BY <1>0, <1>11, SweepSteps
  <2> QED
    BY <1>0, <2>1, RgDistinct DEF SweepEffect, OthersHear, Ends, Moves, Idle, RgKnown,
       RgFiles, Absent, StaleFor, NoKeys, stored, history
<1> USE <1>0, RgDistinct DEF On, Idle, vars, stored, history, LockFree, RgCommanded,
Commands, RgKnown, RgFiles, Absent, StaleFor, NoKeys
<1>12. ASSUME NEW p \in Procs, BeginCreateIntegration(p)
      PROVE  RgFiles'
  BY <1>12 DEF BeginCreateIntegration, Create, Begin
<1>13. ASSUME NEW p \in Procs, BeginCreateChannel(p)
      PROVE  RgFiles'
  BY <1>13 DEF BeginCreateChannel, Create, Begin
<1>14. ASSUME NEW p \in Procs, BeginCreateInGui(p)
      PROVE  RgFiles'
  BY <1>14 DEF BeginCreateInGui, Create, Begin
<1>15. ASSUME NEW p \in Procs, StoreKey(p)
      PROVE  RgFiles'
  BY <1>15 DEF StoreKey, Overtaking
<1>16. ASSUME NEW p \in Procs, SkipKey(p)
      PROVE  RgFiles'
  BY <1>16 DEF SkipKey
<1>17. ASSUME NEW p \in Procs, EditIntegration(p)
      PROVE  RgFiles'
  BY <1>17 DEF EditIntegration, BeginEdit, Begin
<1>18. ASSUME NEW p \in Procs, EditChannel(p)
      PROVE  RgFiles'
  BY <1>18 DEF EditChannel, BeginEdit, Begin
<1>19. ASSUME NEW p \in Procs, BeginPatchInGui(p)
      PROVE  RgFiles'
  BY <1>19 DEF BeginPatchInGui, Begin
<1>20. ASSUME NEW p \in Procs, BeginRotate(p)
      PROVE  RgFiles'
  BY <1>20 DEF BeginRotate, Begin
<1>21. ASSUME NEW p \in Procs, RotationEnds(p)
      PROVE  RgFiles'
  BY <1>21 DEF RotationEnds, Done
<1>22. ASSUME NEW p \in Procs, BeginDeleteIntegration(p)
      PROVE  RgFiles'
  BY <1>22 DEF BeginDeleteIntegration, Delete, Begin
<1>23. ASSUME NEW p \in Procs, BeginDeleteChannel(p)
      PROVE  RgFiles'
  BY <1>23 DEF BeginDeleteChannel, Delete, Begin
<1>24. ASSUME NEW p \in Procs, BeginDeleteInGui(p)
      PROVE  RgFiles'
  BY <1>24 DEF BeginDeleteInGui, Delete, Begin
<1>25. ASSUME NEW p \in Procs, AttachIntegration(p)
      PROVE  RgFiles'
  BY <1>25 DEF AttachIntegration, BeginAttach, Begin
<1>26. ASSUME NEW p \in Procs, AttachChannel(p)
      PROVE  RgFiles'
  BY <1>26 DEF AttachChannel, BeginAttach, Begin
<1>27. ASSUME NEW p \in Procs, TargetType(p)
      PROVE  RgFiles'
  BY <1>27 DEF TargetType
<1>28. ASSUME NEW p \in Procs, AddAgentIntegration(p)
      PROVE  RgFiles'
  BY <1>28 DEF AddAgentIntegration, Place, Done
<1>29. ASSUME NEW p \in Procs, AddAgentChannel(p)
      PROVE  RgFiles'
  BY <1>29 DEF AddAgentChannel, Place, Done
<1>30. ASSUME NEW p \in Procs, Stop(p)
      PROVE  RgFiles'
  BY <1>30 DEF Stop, Done
<1>31. ASSUME NEW a \in Agents, AgentSync(a)
      PROVE  RgFiles'
  BY <1>31 DEF AgentSync, Synced
<1>32. ASSUME NEW a \in Agents, DetachIntegration(a)
      PROVE  RgFiles'
  BY <1>32 DEF DetachIntegration, Detach
<1>33. ASSUME NEW a \in Agents, DetachChannel(a)
      PROVE  RgFiles'
  BY <1>33 DEF DetachChannel, Detach
<1>34. CASE UNCHANGED vars
  BY <1>34
<1> HIDE DEF On, Idle, vars, stored, history, LockFree, RgCommanded, Commands, RgKnown,
RgFiles, Absent, StaleFor, NoKeys
<1> QED
  BY <1>1, <1>2, <1>3, <1>4, <1>5, <1>6, <1>7, <1>8, <1>9, <1>10, <1>11, <1>12, <1>13,
     <1>14, <1>15, <1>16, <1>17, <1>18, <1>19, <1>20, <1>21, <1>22, <1>23, <1>24,
     <1>25, <1>26, <1>27, <1>28, <1>29, <1>30, <1>31, <1>32, <1>33, <1>34 DEF Next

LEMMA NextOneSingleton == RgInv /\ [Next]_vars => OneSingleton'
<1> SUFFICES ASSUME RgInv, [Next]_vars
             PROVE  OneSingleton'
  OBVIOUS
<1>0. /\ RgFiles /\ RgCommanded /\ RgKnown /\ RgPlaced /\ OneSingleton
  BY DEF RgFiles, RgCommanded, RgInv, TypeOK
<1>1. ASSUME NEW p \in Procs, AddIntegration(p)
      PROVE  OneSingleton'
  <2>1. AddEffect(p)
    BY <1>0, <1>1, AddSteps DEF AddIntegration
  <2>2. /\ UNCHANGED <<attached, gone, kind>> /\ kind = "integration"
        /\ \A n \in Names : registry'[n] = registry[n] \/ registry[n] = Absent
    BY <2>1, <1>1 DEF AddEffect, history, AddIntegration
  <2>3. \A a \in Agents : \A n \in attached[a] \ gone : registry'[n] = registry[n]
    BY <1>0, <2>2 DEF RgPlaced, RgFiles, Registered
  <2> QED
    BY <1>0, <2>2, <2>3 DEF OneSingleton
<1>2. ASSUME NEW p \in Procs, AddChannel(p)
      PROVE  OneSingleton'
  <2>1. AddEffect(p)
    BY <1>0, <1>2, AddSteps DEF AddChannel
  <2> QED
    BY SMTT(30), <1>0, <2>1, RgDistinct DEF AddEffect, Others, Ends, Moves, Idle, OneSingleton,
       RgPlaced, RgKnown, RgFiles, Registered, Absent, Types, stored, history
<1>3. ASSUME NEW p \in Procs, KeysStored(p)
      PROVE  OneSingleton'
  <2>1. KeysStoredEffect(p)
    BY <1>0, <1>3, KeysStoredSteps
  <2> QED
    BY <1>0, <2>1, RgDistinct DEF KeysStoredEffect, Others, Ends, Moves, Idle,
       OneSingleton, RgPlaced, RgKnown, RgFiles, Registered, Absent, Types, stored,
       history
<1>4. ASSUME NEW p \in Procs, Update(p)
      PROVE  OneSingleton'
  <2>1. UpdateEffect(p)
    BY <1>0, <1>4, UpdateSteps
  <2> QED
    BY <1>0, <2>1, RgDistinct DEF UpdateEffect, Others, Ends, Moves, Idle,
       OneSingleton, RgPlaced, RgKnown, RgFiles, Registered, Absent, Types, stored,
       history
<1>5. ASSUME NEW p \in Procs, ListAgents(p)
      PROVE  OneSingleton'
  <2>1. ListEffect(p)
    BY <1>0, <1>5, ListSteps
  <2> QED
    BY <1>0, <2>1, RgDistinct DEF ListEffect, Others, Ends, Moves, Idle, OneSingleton,
       RgPlaced, RgKnown, RgFiles, Registered, Absent, Types, stored, history
<1>6. ASSUME NEW p \in Procs, SyncListed(p)
      PROVE  OneSingleton'
  <2>1. SyncEffect(p)
    BY <1>0, <1>6, SyncSteps
  <2> QED
    BY <1>0, <2>1, RgDistinct DEF SyncEffect, Others, Ends, Moves, Idle, OneSingleton,
       RgPlaced, RgKnown, RgFiles, Registered, Absent, Types, stored, history
<1>7. ASSUME NEW p \in Procs, CheckUse(p)
      PROVE  OneSingleton'
  <2>1. CheckEffect(p)
    BY <1>0, <1>7, CheckSteps
  <2> QED
    BY <1>0, <2>1, RgDistinct DEF CheckEffect, Others, Ends, Moves, Idle, OneSingleton,
       RgPlaced, RgKnown, RgFiles, Registered, Absent, Types, stored, history
<1>8. ASSUME NEW p \in Procs, ClearKeys(p)
      PROVE  OneSingleton'
  <2>1. ClearEffect(p)
    BY <1>0, <1>8, ClearSteps
  <2> QED
    BY SMTT(30), <1>0, <2>1, RgDistinct DEF ClearEffect, OthersHear, Ends, Moves, Idle,
       OneSingleton, RgPlaced, RgKnown, RgFiles, Registered, Absent, Types, stored,
       history
<1>9. ASSUME NEW p \in Procs, RemoveIntegration(p)
      PROVE  OneSingleton'
  <2>1. SaveEffect(p)
    BY <1>0, <1>9, SaveSteps DEF RemoveIntegration
  <2> QED
    BY <1>0, <2>1, RgDistinct DEF SaveEffect, Others, Ends, Moves, Idle, OneSingleton,
       RgPlaced, RgKnown, RgFiles, Registered, Absent, Types, stored, history
<1>10. ASSUME NEW p \in Procs, RemoveChannel(p)
      PROVE  OneSingleton'
  <2>1. SaveEffect(p)
    BY <1>0, <1>10, SaveSteps DEF RemoveChannel
  <2> QED
    BY <1>0, <2>1, RgDistinct DEF SaveEffect, Others, Ends, Moves, Idle, OneSingleton,
       RgPlaced, RgKnown, RgFiles, Registered, Absent, Types, stored, history
<1>11. ASSUME NEW p \in Procs, Sweep(p)
      PROVE  OneSingleton'
  <2>1. SweepEffect(p)
    BY <1>0, <1>11, SweepSteps
  <2> QED
    BY <1>0, <2>1, RgDistinct DEF SweepEffect, OthersHear, Ends, Moves, Idle,
       OneSingleton, RgPlaced, RgKnown, RgFiles, Registered, Absent, Types, stored,
       history
<1>12. ASSUME NEW p \in Procs, AddAgentIntegration(p)
      PROVE  OneSingleton'
  <2>1. /\ UNCHANGED <<kind, registry, gone>> /\ kind = "integration" /\ cmd[p].at = "place"
        /\ attached' = [a \in Agents |->
             IF a \in cmd[p].agents /\ ~ Conflicts(p, a)
             THEN attached[a] \cup {cmd[p].name} ELSE attached[a]]
    BY <1>12 DEF AddAgentIntegration, Place, On, stored, history
  <2>2. cmd[p].type = registry[cmd[p].name].type \/ cmd[p].name \in gone
    BY <1>0, <2>1 DEF RgPlaced
  <2>3. ASSUME NEW a \in Agents, NEW m \in attached'[a] \ gone, NEW n \in attached'[a] \ gone,
               registry[m].type = "singleton", registry[n].type = "singleton"
        PROVE  m = n
    <3>1. CASE m \in attached[a] /\ n \in attached[a]
      BY <1>0, <2>3, <3>1 DEF OneSingleton
    <3>2. CASE ~ (m \in attached[a] /\ n \in attached[a])
      <4>1. ~ Conflicts(p, a) /\ attached'[a] = attached[a] \cup {cmd[p].name}
        BY <2>1, <2>3, <3>2
      <4>2. cmd[p].name \notin gone => cmd[p].type = registry[cmd[p].name].type
        BY <2>2
      <4> QED
        BY <2>1, <2>3, <3>2, <4>1, <4>2 DEF Conflicts
    <3> QED
      BY <3>1, <3>2
  <2> QED
    BY <1>0, <2>1, <2>3 DEF OneSingleton
<1> USE <1>0, RgDistinct DEF On, Idle, vars, stored, history, LockFree, RgCommanded,
Commands, RgKnown, RgPlaced, OneSingleton, RgFiles, Registered, Absent, Types
<1>13. ASSUME NEW p \in Procs, BeginCreateIntegration(p)
      PROVE  OneSingleton'
  BY <1>13 DEF BeginCreateIntegration, Create, Begin
<1>14. ASSUME NEW p \in Procs, BeginCreateChannel(p)
      PROVE  OneSingleton'
  BY <1>14 DEF BeginCreateChannel, Create, Begin
<1>15. ASSUME NEW p \in Procs, BeginCreateInGui(p)
      PROVE  OneSingleton'
  BY <1>15 DEF BeginCreateInGui, Create, Begin
<1>16. ASSUME NEW p \in Procs, StoreKey(p)
      PROVE  OneSingleton'
  BY <1>16 DEF StoreKey, Overtaking
<1>17. ASSUME NEW p \in Procs, SkipKey(p)
      PROVE  OneSingleton'
  BY <1>17 DEF SkipKey
<1>18. ASSUME NEW p \in Procs, EditIntegration(p)
      PROVE  OneSingleton'
  BY <1>18 DEF EditIntegration, BeginEdit, Begin
<1>19. ASSUME NEW p \in Procs, EditChannel(p)
      PROVE  OneSingleton'
  BY <1>19 DEF EditChannel, BeginEdit, Begin
<1>20. ASSUME NEW p \in Procs, BeginPatchInGui(p)
      PROVE  OneSingleton'
  BY <1>20 DEF BeginPatchInGui, Begin
<1>21. ASSUME NEW p \in Procs, BeginRotate(p)
      PROVE  OneSingleton'
  BY <1>21 DEF BeginRotate, Begin
<1>22. ASSUME NEW p \in Procs, RotationEnds(p)
      PROVE  OneSingleton'
  BY <1>22 DEF RotationEnds, Done
<1>23. ASSUME NEW p \in Procs, BeginDeleteIntegration(p)
      PROVE  OneSingleton'
  BY <1>23 DEF BeginDeleteIntegration, Delete, Begin
<1>24. ASSUME NEW p \in Procs, BeginDeleteChannel(p)
      PROVE  OneSingleton'
  BY <1>24 DEF BeginDeleteChannel, Delete, Begin
<1>25. ASSUME NEW p \in Procs, BeginDeleteInGui(p)
      PROVE  OneSingleton'
  BY <1>25 DEF BeginDeleteInGui, Delete, Begin
<1>26. ASSUME NEW p \in Procs, AttachIntegration(p)
      PROVE  OneSingleton'
  BY <1>26 DEF AttachIntegration, BeginAttach, Begin
<1>27. ASSUME NEW p \in Procs, AttachChannel(p)
      PROVE  OneSingleton'
  BY <1>27 DEF AttachChannel, BeginAttach, Begin
<1>28. ASSUME NEW p \in Procs, TargetType(p)
      PROVE  OneSingleton'
  BY <1>28 DEF TargetType
<1>29. ASSUME NEW p \in Procs, AddAgentChannel(p)
      PROVE  OneSingleton'
  BY <1>29 DEF AddAgentChannel, Place, Done
<1>30. ASSUME NEW p \in Procs, Stop(p)
      PROVE  OneSingleton'
  BY <1>30 DEF Stop, Done
<1>31. ASSUME NEW a \in Agents, AgentSync(a)
      PROVE  OneSingleton'
  BY <1>31 DEF AgentSync, Synced
<1>32. ASSUME NEW a \in Agents, DetachIntegration(a)
      PROVE  OneSingleton'
  BY <1>32 DEF DetachIntegration, Detach
<1>33. ASSUME NEW a \in Agents, DetachChannel(a)
      PROVE  OneSingleton'
  BY <1>33 DEF DetachChannel, Detach
<1>34. CASE UNCHANGED vars
  BY <1>34
<1> HIDE DEF On, Idle, vars, stored, history, LockFree, RgCommanded, Commands, RgKnown,
RgPlaced, OneSingleton, RgFiles, Registered, Absent, Types
<1> QED
  BY <1>1, <1>2, <1>3, <1>4, <1>5, <1>6, <1>7, <1>8, <1>9, <1>10, <1>11, <1>12, <1>13,
     <1>14, <1>15, <1>16, <1>17, <1>18, <1>19, <1>20, <1>21, <1>22, <1>23, <1>24,
     <1>25, <1>26, <1>27, <1>28, <1>29, <1>30, <1>31, <1>32, <1>33, <1>34 DEF Next


(* A command keeps its type when it begins, changes or ends. *)
LEMMA RgIdleType == Idle \in Commands
BY DEF Idle, Commands, NoReg

LEMMA RgFields ==
  ASSUME NEW c \in Commands
  PROVE  /\ \A label \in {"clear", "save", "sweep", "sync"} : [c EXCEPT !.at = label] \in Commands
         /\ [c EXCEPT !.overtaken = TRUE] \in Commands
         /\ \A ks \in SUBSET Keys : [c EXCEPT !.supplied = ks] \in Commands
         /\ \A as \in SUBSET Agents : [c EXCEPT !.listed = as] \in Commands
         /\ \A as \in SUBSET Agents : [c EXCEPT !.agents = as] \in Commands
         /\ \A as \in SUBSET Agents : [c EXCEPT !.agents = as, !.failed = TRUE] \in Commands
         /\ \A as \in SUBSET Agents :
              [c EXCEPT !.at = "update", !.agents = as, !.listed = as] \in Commands
         /\ \A r \in Regs \cup {NoReg} : [c EXCEPT !.at = "keys", !.reg = r] \in Commands
         /\ \A t \in Types \cup {"none"} : [c EXCEPT !.at = "place", !.type = t] \in Commands
<1>1. \A label \in {"clear", "save", "sweep", "sync"} : [c EXCEPT !.at = label] \in Commands
  BY DEF Commands
<1>2. [c EXCEPT !.overtaken = TRUE] \in Commands
  BY DEF Commands
<1>3. \A ks \in SUBSET Keys : [c EXCEPT !.supplied = ks] \in Commands
  BY DEF Commands
<1>4. \A as \in SUBSET Agents : /\ [c EXCEPT !.listed = as] \in Commands
                                /\ [c EXCEPT !.agents = as] \in Commands
  BY DEF Commands
<1>5. \A as \in SUBSET Agents : [c EXCEPT !.agents = as, !.failed = TRUE] \in Commands
  BY DEF Commands
<1>6. \A as \in SUBSET Agents :
        [c EXCEPT !.at = "update", !.agents = as, !.listed = as] \in Commands
  BY DEF Commands
<1>7. \A r \in Regs \cup {NoReg} : [c EXCEPT !.at = "keys", !.reg = r] \in Commands
  BY DEF Commands
<1>8. \A t \in Types \cup {"none"} : [c EXCEPT !.at = "place", !.type = t] \in Commands
  BY DEF Commands
<1> QED
  BY <1>1, <1>2, <1>3, <1>4, <1>5, <1>6, <1>7, <1>8

LEMMA RgBeginType ==
  ASSUME NEW p \in Procs, NEW c \in Commands, RgCommanded, Begin(p, c)
  PROVE  RgCommanded'
BY DEF Begin, RgCommanded

LEMMA RgDoneType ==
  ASSUME NEW p \in Procs, RgCommanded, Done(p)
  PROVE  RgCommanded'
BY RgIdleType DEF Done, RgCommanded

LEMMA RgToType ==
  ASSUME NEW p \in Procs, NEW label \in {"clear", "save", "sweep", "sync"}, RgCommanded,
         To(p, label)
  PROVE  RgCommanded'
BY RgFields DEF To, RgCommanded

LEMMA RgChangeType ==
  ASSUME NEW p \in Procs, NEW c \in Commands, RgCommanded, cmd' = [cmd EXCEPT ![p] = c]
  PROVE  RgCommanded'
BY DEF RgCommanded

LEMMA RgOvertakenType ==
  ASSUME NEW p \in Procs, NEW next \in [Procs -> Commands], RgCommanded
  PROVE  Overtaking(p, next) \in [Procs -> Commands]
BY RgFields DEF Overtaking, RgCommanded

LEMMA NextRgCommanded == RgInv /\ [Next]_vars => RgCommanded'
<1> SUFFICES ASSUME RgInv, [Next]_vars
             PROVE  RgCommanded'
  OBVIOUS
<1>0. /\ RgFiles /\ RgCommanded /\ RgKnown
  BY DEF RgFiles, RgCommanded, RgInv, TypeOK
<1>1. ASSUME NEW p \in Procs, BeginCreateIntegration(p)
      PROVE  RgCommanded'
  <2>1. PICK n \in Names, t \in Types, ks \in SUBSET Keys :
          Begin(p, [Idle EXCEPT !.op = "create", !.at = "add", !.via = "cli", !.name = n,
                           !.type = t, !.supplied = ks])
    BY <1>1 DEF BeginCreateIntegration, Create, Types
  <2>2. [Idle EXCEPT !.op = "create", !.at = "add", !.via = "cli", !.name = n,
                           !.type = t, !.supplied = ks] \in Commands
    BY <1>0 DEF Idle, Commands, NoReg
  <2> QED
    BY <1>0, <2>1, <2>2, RgBeginType
<1>2. ASSUME NEW p \in Procs, BeginCreateChannel(p)
      PROVE  RgCommanded'
  <2>1. PICK n \in Names, t \in Types, ks \in SUBSET Keys :
          Begin(p, [Idle EXCEPT !.op = "create", !.at = "add", !.via = "cli", !.name = n,
                           !.type = t, !.supplied = ks])
    BY <1>2 DEF BeginCreateChannel, Create, Types
  <2>2. [Idle EXCEPT !.op = "create", !.at = "add", !.via = "cli", !.name = n,
                           !.type = t, !.supplied = ks] \in Commands
    BY <1>0 DEF Idle, Commands, NoReg
  <2> QED
    BY <1>0, <2>1, <2>2, RgBeginType
<1>3. ASSUME NEW p \in Procs, BeginCreateInGui(p)
      PROVE  RgCommanded'
  <2>1. PICK n \in Names, t \in Types, ks \in SUBSET Keys :
          Begin(p, [Idle EXCEPT !.op = "create", !.at = "add", !.via = "gui", !.name = n,
                           !.type = t, !.supplied = ks])
    BY <1>3 DEF BeginCreateInGui, Create, Types
  <2>2. [Idle EXCEPT !.op = "create", !.at = "add", !.via = "gui", !.name = n,
                           !.type = t, !.supplied = ks] \in Commands
    BY <1>0 DEF Idle, Commands, NoReg
  <2> QED
    BY <1>0, <2>1, <2>2, RgBeginType
<1>4. ASSUME NEW p \in Procs, AddIntegration(p)
      PROVE  RgCommanded'
  <2>1. CASE Done(p)
    BY <1>0, <2>1, RgDoneType
  <2>2. CASE ~ Done(p)
    <3>1. /\ cmd' = [cmd EXCEPT ![p].at = "keys", ![p].reg = made + 1]
          /\ made + 1 \in Regs
      BY <1>0, <1>4, <2>2, RgDistinct DEF AddIntegration, Add, RgFiles
    <3> QED
      BY <1>0, <3>1, RgFields DEF RgCommanded
  <2> QED
    BY <2>1, <2>2
<1>5. ASSUME NEW p \in Procs, AddChannel(p)
      PROVE  RgCommanded'
  <2>1. CASE Done(p)
    BY <1>0, <2>1, RgDoneType
  <2>2. CASE ~ Done(p)
    <3>1. /\ cmd' = [cmd EXCEPT ![p].at = "keys", ![p].reg = made + 1]
          /\ made + 1 \in Regs
      BY <1>0, <1>5, <2>2, RgDistinct DEF AddChannel, Add, RgFiles
    <3> QED
      BY <1>0, <3>1, RgFields DEF RgCommanded
  <2> QED
    BY <2>1, <2>2
<1>6. ASSUME NEW p \in Procs, StoreKey(p)
      PROVE  RgCommanded'
  <2>1. PICK ks \in SUBSET cmd[p].supplied :
          cmd' = Overtaking(p, [cmd EXCEPT ![p].supplied = ks])
    BY <1>6 DEF StoreKey
  <2>2. ks \in SUBSET Keys
    BY <1>0 DEF RgCommanded, Commands
  <2>3. [cmd EXCEPT ![p].supplied = ks] \in [Procs -> Commands]
    BY <1>0, <2>2, RgFields DEF RgCommanded
  <2> QED
    BY <1>0, <2>1, <2>3, RgOvertakenType DEF RgCommanded
<1>7. ASSUME NEW p \in Procs, SkipKey(p)
      PROVE  RgCommanded'
  <2>1. PICK ks \in SUBSET cmd[p].supplied : cmd' = [cmd EXCEPT ![p].supplied = ks]
    BY <1>7 DEF SkipKey
  <2>2. ks \in SUBSET Keys
    BY <1>0 DEF RgCommanded, Commands
  <2> QED
    BY <1>0, <2>1, <2>2, RgFields DEF RgCommanded
<1>8. ASSUME NEW p \in Procs, KeysStored(p)
      PROVE  RgCommanded'
  BY <1>0, <1>8, RgDoneType, RgToType, RgDistinct DEF KeysStored
<1>9. ASSUME NEW p \in Procs, EditIntegration(p)
      PROVE  RgCommanded'
  <2>1. PICK n \in Names, ks \in SUBSET Keys :
          Begin(p, [Idle EXCEPT !.op = "edit", !.at = "update", !.name = n, !.supplied = ks])
    BY <1>9 DEF EditIntegration, BeginEdit
  <2>2. [Idle EXCEPT !.op = "edit", !.at = "update", !.name = n, !.supplied = ks] \in Commands
    BY <1>0 DEF Idle, Commands, NoReg
  <2> QED
    BY <1>0, <2>1, <2>2, RgBeginType
<1>10. ASSUME NEW p \in Procs, EditChannel(p)
      PROVE  RgCommanded'
  <2>1. PICK n \in Names, ks \in SUBSET Keys :
          Begin(p, [Idle EXCEPT !.op = "edit", !.at = "update", !.name = n, !.supplied = ks])
    BY <1>10 DEF EditChannel, BeginEdit
  <2>2. [Idle EXCEPT !.op = "edit", !.at = "update", !.name = n, !.supplied = ks] \in Commands
    BY <1>0 DEF Idle, Commands, NoReg
  <2> QED
    BY <1>0, <2>1, <2>2, RgBeginType
<1>11. ASSUME NEW p \in Procs, BeginPatchInGui(p)
      PROVE  RgCommanded'
  <2>1. PICK n \in Names, ks \in SUBSET Keys :
          Begin(p, [Idle EXCEPT !.op = "edit", !.at = "keys", !.via = "gui", !.name = n,
                           !.reg = registry[n].reg, !.supplied = ks])
    BY <1>11 DEF BeginPatchInGui
  <2>3. registry[n].reg \in Regs \cup {NoReg}
    BY <1>0 DEF RgFiles, Absent
  <2>2. [Idle EXCEPT !.op = "edit", !.at = "keys", !.via = "gui", !.name = n,
                           !.reg = registry[n].reg, !.supplied = ks] \in Commands
    BY <1>0, <2>3 DEF Idle, Commands, NoReg
  <2> QED
    BY <1>0, <2>1, <2>2, RgBeginType
<1>12. ASSUME NEW p \in Procs, Update(p)
      PROVE  RgCommanded'
  <2>1. CASE Done(p)
    BY <1>0, <2>1, RgDoneType
  <2>2. CASE ~ Done(p)
    <3>1. /\ cmd' = [cmd EXCEPT ![p].at = "keys", ![p].reg = registry[cmd[p].name].reg]
          /\ cmd[p].name \in Names
      BY <1>0, <1>12, <2>2 DEF Update, RgKnown, On
    <3>2. registry[cmd[p].name].reg \in Regs \cup {NoReg}
      BY <1>0, <3>1 DEF RgFiles, Absent
    <3> QED
      BY <1>0, <3>1, <3>2, RgFields DEF RgCommanded
  <2> QED
    BY <2>1, <2>2
<1>13. ASSUME NEW p \in Procs, BeginRotate(p)
      PROVE  RgCommanded'
  <2>1. PICK n \in Names, ks \in SUBSET Keys :
          Begin(p, [Idle EXCEPT !.op = "rotate", !.at = "list", !.name = n, !.supplied = ks])
    BY <1>13 DEF BeginRotate
  <2>2. [Idle EXCEPT !.op = "rotate", !.at = "list", !.name = n, !.supplied = ks] \in Commands
    BY <1>0 DEF Idle, Commands, NoReg
  <2> QED
    BY <1>0, <2>1, <2>2, RgBeginType
<1>14. ASSUME NEW p \in Procs, ListAgents(p)
      PROVE  RgCommanded'
  <2> DEFINE users == AgentsUsing(cmd[p].name)
  <2>1. cmd' = [cmd EXCEPT ![p].at = "update", ![p].agents = users, ![p].listed = users]
    BY <1>14 DEF ListAgents
  <2>2. users \in SUBSET Agents
    BY DEF AgentsUsing
  <2> HIDE DEF users
  <2> QED
    BY <1>0, <2>1, <2>2, RgFields DEF RgCommanded
<1>15. ASSUME NEW p \in Procs, SyncListed(p)
      PROVE  RgCommanded'
  <2>1. PICK as \in SUBSET cmd[p].agents :
          \/ cmd' = [cmd EXCEPT ![p].agents = as]
          \/ cmd' = [cmd EXCEPT ![p].agents = as, ![p].failed = TRUE]
    BY <1>15 DEF SyncListed
  <2>2. as \in SUBSET Agents
    BY <1>0 DEF RgCommanded, Commands
  <2>3. CASE cmd' = [cmd EXCEPT ![p].agents = as]
    BY <1>0, <2>2, <2>3, RgFields DEF RgCommanded
  <2>4. CASE cmd' = [cmd EXCEPT ![p].agents = as, ![p].failed = TRUE]
    BY <1>0, <2>2, <2>4, RgFields DEF RgCommanded
  <2> QED
    BY <2>1, <2>3, <2>4
<1>16. ASSUME NEW p \in Procs, RotationEnds(p)
      PROVE  RgCommanded'
  BY <1>0, <1>16, RgDoneType DEF RotationEnds
<1>17. ASSUME NEW p \in Procs, BeginDeleteIntegration(p)
      PROVE  RgCommanded'
  <2>1. PICK n \in Names, force \in BOOLEAN :
          Begin(p, [Idle EXCEPT !.op = "delete", !.at = "check", !.via = "cli", !.name = n,
                           !.force = force])
    BY <1>17 DEF BeginDeleteIntegration, Delete
  <2>2. [Idle EXCEPT !.op = "delete", !.at = "check", !.via = "cli", !.name = n,
                           !.force = force] \in Commands
    BY <1>0 DEF Idle, Commands, NoReg
  <2> QED
    BY <1>0, <2>1, <2>2, RgBeginType
<1>18. ASSUME NEW p \in Procs, BeginDeleteChannel(p)
      PROVE  RgCommanded'
  <2>1. PICK n \in Names, force \in BOOLEAN :
          Begin(p, [Idle EXCEPT !.op = "delete", !.at = "check", !.via = "cli", !.name = n,
                           !.force = force])
    BY <1>18 DEF BeginDeleteChannel, Delete
  <2>2. [Idle EXCEPT !.op = "delete", !.at = "check", !.via = "cli", !.name = n,
                           !.force = force] \in Commands
    BY <1>0 DEF Idle, Commands, NoReg
  <2> QED
    BY <1>0, <2>1, <2>2, RgBeginType
<1>19. ASSUME NEW p \in Procs, BeginDeleteInGui(p)
      PROVE  RgCommanded'
  <2>1. PICK n \in Names, force \in BOOLEAN :
          Begin(p, [Idle EXCEPT !.op = "delete", !.at = "check", !.via = "gui", !.name = n,
                           !.force = force])
    BY <1>19 DEF BeginDeleteInGui, Delete
  <2>2. [Idle EXCEPT !.op = "delete", !.at = "check", !.via = "gui", !.name = n,
                           !.force = force] \in Commands
    BY <1>0 DEF Idle, Commands, NoReg
  <2> QED
    BY <1>0, <2>1, <2>2, RgBeginType
<1>20. ASSUME NEW p \in Procs, CheckUse(p)
      PROVE  RgCommanded'
  BY <1>0, <1>20, RgDoneType, RgToType, RgDistinct DEF CheckUse
<1>21. ASSUME NEW p \in Procs, ClearKeys(p)
      PROVE  RgCommanded'
  <2>1. cmd' = [Overtaking(p, cmd) EXCEPT ![p].at = "save"]
    BY <1>21, RgDistinct DEF ClearKeys, AfterStep
  <2>2. Overtaking(p, cmd) \in [Procs -> Commands]
    BY <1>0, RgOvertakenType DEF RgCommanded
  <2> QED
    BY <2>1, <2>2, RgFields DEF RgCommanded
<1>22. ASSUME NEW p \in Procs, RemoveIntegration(p)
      PROVE  RgCommanded'
  <2>1. \/ cmd' = [cmd EXCEPT ![p].at = "sweep"]
        \/ cmd' = [cmd EXCEPT ![p] = Idle]
    BY <1>22, RgDistinct DEF RemoveIntegration, SaveWithout, AfterStep
  <2>2. CASE cmd' = [cmd EXCEPT ![p].at = "sweep"]
    BY <1>0, <2>2, RgFields DEF RgCommanded
  <2>3. CASE cmd' = [cmd EXCEPT ![p] = Idle]
    BY <1>0, <2>3, RgIdleType DEF RgCommanded
  <2> QED
    BY <2>1, <2>2, <2>3
<1>23. ASSUME NEW p \in Procs, RemoveChannel(p)
      PROVE  RgCommanded'
  <2>1. \/ cmd' = [cmd EXCEPT ![p].at = "sweep"]
        \/ cmd' = [cmd EXCEPT ![p] = Idle]
    BY <1>23, RgDistinct DEF RemoveChannel, SaveWithout, AfterStep
  <2>2. CASE cmd' = [cmd EXCEPT ![p].at = "sweep"]
    BY <1>0, <2>2, RgFields DEF RgCommanded
  <2>3. CASE cmd' = [cmd EXCEPT ![p] = Idle]
    BY <1>0, <2>3, RgIdleType DEF RgCommanded
  <2> QED
    BY <2>1, <2>2, <2>3
<1>24. ASSUME NEW p \in Procs, Sweep(p)
      PROVE  RgCommanded'
  <2>1. cmd' = [Overtaking(p, cmd) EXCEPT ![p] = Idle]
    BY <1>24 DEF Sweep
  <2>2. Overtaking(p, cmd) \in [Procs -> Commands]
    BY <1>0, RgOvertakenType DEF RgCommanded
  <2> QED
    BY <2>1, <2>2, RgIdleType DEF RgCommanded
<1>25. ASSUME NEW p \in Procs, AttachIntegration(p)
      PROVE  RgCommanded'
  <2>1. PICK n \in Names, a \in Agents :
          Begin(p, [Idle EXCEPT !.op = "attach", !.at = "look", !.name = n, !.agents = {a}])
    BY <1>25 DEF AttachIntegration, BeginAttach
  <2>2. [Idle EXCEPT !.op = "attach", !.at = "look", !.name = n, !.agents = {a}] \in Commands
    BY <1>0 DEF Idle, Commands, NoReg
  <2> QED
    BY <1>0, <2>1, <2>2, RgBeginType
<1>26. ASSUME NEW p \in Procs, AttachChannel(p)
      PROVE  RgCommanded'
  <2>1. PICK n \in Names, a \in Agents :
          Begin(p, [Idle EXCEPT !.op = "attach", !.at = "look", !.name = n, !.agents = {a}])
    BY <1>26 DEF AttachChannel, BeginAttach
  <2>2. [Idle EXCEPT !.op = "attach", !.at = "look", !.name = n, !.agents = {a}] \in Commands
    BY <1>0 DEF Idle, Commands, NoReg
  <2> QED
    BY <1>0, <2>1, <2>2, RgBeginType
<1>27. ASSUME NEW p \in Procs, TargetType(p)
      PROVE  RgCommanded'
  <2>1. /\ cmd' = [cmd EXCEPT ![p].at = "place", ![p].type = registry[cmd[p].name].type]
        /\ cmd[p].name \in Names
    BY <1>0, <1>27 DEF TargetType, RgKnown, On
  <2>2. registry[cmd[p].name].type \in Types \cup {"none"}
    BY <1>0, <2>1 DEF RgFiles, Absent
  <2> QED
    BY <1>0, <2>1, <2>2, RgFields DEF RgCommanded
<1>28. ASSUME NEW p \in Procs, AddAgentIntegration(p)
      PROVE  RgCommanded'
  BY <1>0, <1>28, RgDoneType DEF AddAgentIntegration, Place
<1>29. ASSUME NEW p \in Procs, AddAgentChannel(p)
      PROVE  RgCommanded'
  BY <1>0, <1>29, RgDoneType DEF AddAgentChannel, Place
<1>30. ASSUME NEW p \in Procs, Stop(p)
      PROVE  RgCommanded'
  BY <1>0, <1>30, RgDoneType DEF Stop
<1>31. ASSUME NEW a \in Agents, AgentSync(a)
      PROVE  RgCommanded'
  BY <1>0, <1>31 DEF AgentSync, RgCommanded
<1>32. ASSUME NEW a \in Agents, DetachIntegration(a)
      PROVE  RgCommanded'
  <2>1. PICK n \in attached[a] :
          cmd' = [q \in Procs |-> IF cmd[q].op = "rotate" /\ cmd[q].name = n
                                  THEN [cmd[q] EXCEPT !.listed = @ \ {a}] ELSE cmd[q]]
    BY <1>32 DEF DetachIntegration, Detach
  <2>2. ASSUME NEW q \in Procs
        PROVE  cmd'[q] \in Commands
    <3>1. cmd[q] \in Commands /\ cmd[q].listed \ {a} \in SUBSET Agents
      BY <1>0 DEF RgCommanded, Commands
    <3>2. [cmd[q] EXCEPT !.listed = @ \ {a}] \in Commands
      BY <3>1, RgFields
    <3> QED
      BY <2>1, <3>1, <3>2
  <2> QED
    BY <2>1, <2>2 DEF RgCommanded
<1>33. ASSUME NEW a \in Agents, DetachChannel(a)
      PROVE  RgCommanded'
  <2>1. PICK n \in attached[a] :
          cmd' = [q \in Procs |-> IF cmd[q].op = "rotate" /\ cmd[q].name = n
                                  THEN [cmd[q] EXCEPT !.listed = @ \ {a}] ELSE cmd[q]]
    BY <1>33 DEF DetachChannel, Detach
  <2>2. ASSUME NEW q \in Procs
        PROVE  cmd'[q] \in Commands
    <3>1. cmd[q] \in Commands /\ cmd[q].listed \ {a} \in SUBSET Agents
      BY <1>0 DEF RgCommanded, Commands
    <3>2. [cmd[q] EXCEPT !.listed = @ \ {a}] \in Commands
      BY <3>1, RgFields
    <3> QED
      BY <2>1, <3>1, <3>2
  <2> QED
    BY <2>1, <2>2 DEF RgCommanded
<1> USE <1>0 DEF RgCommanded, vars
<1>34. CASE UNCHANGED vars
  BY <1>34
<1> HIDE DEF RgCommanded, vars
<1> QED
  BY <1>1, <1>2, <1>3, <1>4, <1>5, <1>6, <1>7, <1>8, <1>9, <1>10, <1>11, <1>12, <1>13,
     <1>14, <1>15, <1>16, <1>17, <1>18, <1>19, <1>20, <1>21, <1>22, <1>23, <1>24,
     <1>25, <1>26, <1>27, <1>28, <1>29, <1>30, <1>31, <1>32, <1>33, <1>34 DEF Next

(* A behaviour of the registries begins in RgInv, with nothing or after a create. *)
LEMMA InitRgInv == Init => RgInv
<1> SUFFICES ASSUME Init
             PROVE  RgInv
  OBVIOUS
<1> USE RgDistinct DEF Init
<1>1. RgFiles
  BY DEF RgFiles, NoKeys
<1>2. RgCommanded
  BY RgIdleType DEF RgCommanded
<1>3. TypeOK
  BY <1>1, <1>2 DEF TypeOK, RgFiles, RgCommanded
<1>4. RgKnown
  BY DEF RgKnown, Idle
<1>5. RgInherited
  BY DEF RgInherited, NothingInherited, NoKeys, Idle
<1>6. RgPlaced
  BY DEF RgPlaced, Idle
<1>7. OneSingleton
  BY DEF OneSingleton, Absent, Idle
<1>8. RgRotating
  BY DEF RgRotating, Idle
<1> QED
  BY <1>3, <1>4, <1>5, <1>6, <1>7, <1>8 DEF RgInv

LEMMA AfterCreateRgInv == AfterCreate => RgInv
<1> SUFFICES ASSUME AfterCreate
             PROVE  RgInv
  OBVIOUS
<1>1. PICK n \in Names, t \in Types :
        /\ kind = "channel" => t = "plain"
        /\ registry = [m \in Names |-> IF m = n THEN [type |-> t, reg |-> 1] ELSE Absent]
        /\ keys = [m \in Names |-> [k \in Keys |-> IF m = n THEN 1 ELSE NoReg]]
  BY DEF AfterCreate
<1>2. /\ kind \in Kinds /\ holder = NoProc /\ fresh = {} /\ begun = 0 /\ made = 1
      /\ gone = {} /\ forcedOff = {} /\ late = {}
      /\ attached = [a \in Agents |-> {}] /\ cmd = [p \in Procs |-> Idle]
  BY DEF AfterCreate
<1>3. 1 \in Regs /\ 1 \in 0 .. MaxRegs /\ 0 \in 0 .. MaxCommands
  BY RgDistinct, MCAssumption DEF Regs
<1>4. RgFiles
  BY <1>1, <1>2, <1>3 DEF RgFiles
<1>5. RgCommanded
  BY <1>2, RgIdleType DEF RgCommanded
<1>6. TypeOK
  BY <1>2, <1>4, <1>5 DEF TypeOK, RgFiles, RgCommanded
<1>7. RgKnown
  BY <1>2, RgDistinct DEF RgKnown, Idle
<1>8. RgInherited
  BY <1>1, <1>2 DEF RgInherited, NothingInherited, Idle
<1>9. RgPlaced
  BY <1>2 DEF RgPlaced, Idle
<1>10. OneSingleton
  BY <1>1, <1>2 DEF OneSingleton, Absent, Idle
<1>11. RgRotating
  BY <1>2 DEF RgRotating, Idle
<1> QED
  BY <1>6, <1>7, <1>8, <1>9, <1>10, <1>11 DEF RgInv

LEMMA NextRgInv == RgInv /\ [Next]_vars => RgInv'
<1> SUFFICES ASSUME RgInv, [Next]_vars
             PROVE  RgInv'
  OBVIOUS
<1>1. RgFiles' /\ RgCommanded'
  BY NextRgFiles, NextRgCommanded
<1>2. RgKnown' /\ RgInherited' /\ RgPlaced' /\ OneSingleton' /\ RgRotating'
  BY NextRgKnown, NextRgInherited, NextRgPlaced, NextOneSingleton, NextRgRotating
<1>3. (holder # NoProc => cmd[holder].at \in {"clear", "save"})'
  BY <1>1, <1>2 DEF RgFiles, RgKnown
<1>4. TypeOK'
  BY <1>1, <1>3 DEF TypeOK, RgFiles, RgCommanded
<1> QED
  BY <1>2, <1>4 DEF RgInv

(* What an agent refers to and was not removed has one of a singleton type at most. *)
LEMMA OneIsOnce == RgInv => SingletonOnce
<1> SUFFICES ASSUME OneSingleton, NEW a \in Agents
             PROVE  Cardinality({n \in attached[a] \ gone : registry[n].type = "singleton"}) <= 1
  BY DEF RgInv, SingletonOnce
<1> DEFINE S == {n \in attached[a] \ gone : registry[n].type = "singleton"}
<1>1. CASE S = {}
  BY <1>1, FS_EmptySet
<1>2. ASSUME NEW n \in S
      PROVE  Cardinality(S) <= 1
  <2>1. S = {n}
    BY DEF OneSingleton
  <2> QED
    BY <2>1, FS_Singleton
<1> QED
  BY <1>1, <1>2

(***************************************************************************)
(* Providers.                                                              *)
(***************************************************************************)
\* What a command is about, and that what it may write is a list the renderer accepts.
PvKnown ==
  \A p \in Procs :
    /\ pcmd[p].at # "idle" => pcmd[p].name \in Names
    /\ pcmd[p].at = "add" => pcmd[p].type \in P!Types
    /\ pcmd[p].at \in {"write", "import", "restore"} =>
         \A a \in pcmd[p].agents : P!Valid(a, pcmd[p].list) /\ P!Valid(a, pcmd[p].before)

\* The registrations are numbered in the order they are made.
PvNumbered ==
  /\ \A n \in Names : records[n].reg <= pmade
  /\ \A n, m \in Names : records[n].reg = records[m].reg => n = m \/ records[n] = P!Absent

PvCommanded == pcmd \in [Procs -> P!Commands]
\* The types of everything but the commands.
PvFiles ==
  /\ records \in [Names -> [type : P!Types, reg : P!Regs] \cup {P!Absent}]
  /\ creds \in [Names -> [P!Slots -> P!Regs \cup {P!NoReg}]]
  /\ \A a \in P!AllAgents : providers[a] \subseteq P!Entries
  /\ pbegun \in 0 .. MaxProviderCommands /\ pmade \in 0 .. MaxProviders
  /\ orphaned \subseteq Names

PvInv ==
  /\ P!TypeOK
  /\ PvKnown
  /\ PvNumbered
  /\ P!ListsValid
  /\ P!CredentialsOwned


(* Numbers and names of the registry of providers. *)
LEMMA PvDistinct ==
  /\ MaxProviders \in Nat /\ MaxProviderCommands \in Nat /\ NoName \notin Names
  /\ Hermes \cap (Singles \cup Claudes) = {} /\ Singles \cap Claudes = {}
  /\ P!NoReg = 0 /\ P!Regs = 1 .. MaxProviders
BY MCAssumption DEF P!ProvidersAssumption, P!NoReg, P!Regs

LEMMA SameCardinality == \A S : P!Cardinality(S) = Cardinality(S)
BY DEF P!Cardinality, Cardinality

(* The renderer accepts an empty list, and one entry for an agent with one provider. *)
LEMMA EmptyIsValid == \A a \in P!AllAgents : P!Valid(a, {})
BY FS_EmptySet, SameCardinality DEF P!Valid

LEMMA OneIsValid == \A a \in Claudes, e \in P!Entries : P!Valid(a, {e})
<1> SUFFICES ASSUME NEW a \in Claudes, NEW e \in P!Entries
             PROVE  P!Valid(a, {e})
  OBVIOUS
<1>1. a \notin Hermes
  BY PvDistinct
<1>2. P!Cardinality({e}) = 1
  BY FS_Singleton, SameCardinality
<1> QED
  BY <1>1, <1>2 DEF P!Valid

(* The two outcomes of add_provider. *)
LEMMA PvAddCases ==
  ASSUME NEW p \in Procs, PvFiles, PvCommanded, PvKnown, P!AddProvider(p)
  PROVE  /\ UNCHANGED <<creds, providers, pbegun, orphaned>>
         /\ pcmd[p].at = "add" /\ pcmd[p].name \in Names /\ pcmd[p].type \in P!Types
         /\ \A q \in Procs : pcmd[q].at = "clear" => pcmd'[q] = pcmd[q]
         /\ \A n \in Names \ {pcmd[p].name} : records'[n] = records[n]
         /\ \/ UNCHANGED <<records, pmade>> /\ P!Done(p)
            \/ /\ records[pcmd[p].name] = P!Absent /\ records[pcmd[p].name].reg = P!NoReg
               /\ pmade' = pmade + 1 /\ pmade + 1 \in P!Regs
               /\ records' = [records EXCEPT ![pcmd[p].name] =
                                [type |-> pcmd[p].type, reg |-> pmade + 1]]
               /\ records'[pcmd[p].name].reg = pmade + 1
               /\ pcmd' = [pcmd EXCEPT ![p].at = "store", ![p].reg = pmade + 1]
<1>1. /\ UNCHANGED <<creds, providers, pbegun, orphaned>> /\ pcmd[p].at = "add"
      /\ pmade < MaxProviders
  BY DEF P!AddProvider, P!On
<1>2. pcmd[p].name \in Names /\ pcmd[p].type \in P!Types
  BY <1>1 DEF PvKnown
<1>3. CASE P!Registered(pcmd[p].name)
  <2>1. UNCHANGED <<records, pmade>> /\ P!Done(p)
    BY <1>3 DEF P!AddProvider
  <2> QED
    BY <1>1, <1>2, <2>1 DEF P!Done, PvCommanded
<1>4. CASE ~ P!Registered(pcmd[p].name)
  <2>1. /\ records[pcmd[p].name] = P!Absent /\ records[pcmd[p].name].reg = P!NoReg
    BY <1>4 DEF P!Registered, P!Absent
  <2>2. /\ pmade' = pmade + 1
        /\ records' = [records EXCEPT ![pcmd[p].name] =
                         [type |-> pcmd[p].type, reg |-> pmade + 1]]
        /\ pcmd' = [pcmd EXCEPT ![p].at = "store", ![p].reg = pmade + 1]
    BY <1>4 DEF P!AddProvider
  <2>3. pmade + 1 \in P!Regs
    BY <1>1, PvDistinct DEF PvFiles
  <2>4. /\ records'[pcmd[p].name].reg = pmade + 1
        /\ \A n \in Names \ {pcmd[p].name} : records'[n] = records[n]
    BY <1>2, <2>2 DEF PvFiles
  <2>5. \A q \in Procs : pcmd[q].at = "clear" => pcmd'[q] = pcmd[q]
    BY <1>1, <2>2 DEF PvCommanded
  <2> QED
    BY <1>1, <1>2, <2>1, <2>2, <2>3, <2>4, <2>5
<1> QED
  BY <1>3, <1>4

(* What is owned stays owned while nothing is written and no removal goes on. *)
LEMMA PvOwnedKept ==
  ASSUME P!CredentialsOwned, UNCHANGED <<creds, orphaned>>,
         \A q \in Procs : pcmd[q].at = "clear" => pcmd'[q] = pcmd[q],
         \A n \in Names : records'[n].reg = records[n].reg \/ records[n].reg = P!NoReg
  PROVE  P!CredentialsOwned'
BY DEF P!CredentialsOwned, P!On

(* What attach has checked when it begins. *)
LEMMA PvAttachBegins ==
  ASSUME NEW p \in Procs, P!BeginAttach(p)
  PROVE  \E n \in Names, a \in Hermes \cup Singles, r \in P!Roles \cup {"only"} :
           /\ P!Valid(a, providers[a] \cup {P!Entry(n, r)})
           /\ P!Begin(p, [P!Idle EXCEPT !.op = "attach", !.at = "write", !.name = n,
                            !.agents = {a}, !.list = providers[a] \cup {P!Entry(n, r)}])
BY DEF P!BeginAttach

LEMMA PvAttachClaudeBegins ==
  ASSUME NEW p \in Procs, P!BeginAttachClaude(p)
  PROVE  \E n \in Names, a \in Claudes :
           /\ providers[a] \in {{}, {P!Entry(n, "only")}}
           /\ P!Begin(p, [P!Idle EXCEPT !.op = "claude", !.name = n, !.agents = {a},
                            !.at = IF providers[a] = {} THEN "write" ELSE "import",
                            !.list = {P!Entry(n, "only")}, !.before = providers[a]])
BY DEF P!BeginAttachClaude

(* A command keeps its type when it begins, goes on to a label or ends. *)
LEMMA PvIdleType == P!Idle \in P!Commands
BY DEF P!Idle, P!Commands, P!NoReg

LEMMA PvBeginType ==
  ASSUME NEW p \in Procs, NEW c \in P!Commands, PvCommanded, P!Begin(p, c)
  PROVE  PvCommanded'
BY DEF P!Begin, PvCommanded

LEMMA PvDoneType ==
  ASSUME NEW p \in Procs, PvCommanded, P!Done(p)
  PROVE  PvCommanded'
BY PvIdleType DEF P!Done, PvCommanded

LEMMA PvRelabeled ==
  \A c \in P!Commands, label \in {"store", "rollback", "clear", "import", "restore"} :
    [c EXCEPT !.at = label] \in P!Commands
BY DEF P!Commands

LEMMA PvStoring ==
  \A c \in P!Commands, n \in P!Regs \cup {P!NoReg} :
    [c EXCEPT !.at = "store", !.reg = n] \in P!Commands
BY ZenonT(60) DEF P!Commands

LEMMA PvToType ==
  ASSUME NEW p \in Procs, NEW label \in {"store", "rollback", "clear", "import", "restore"},
         PvCommanded, P!To(p, label)
  PROVE  PvCommanded'
BY PvRelabeled DEF P!To, PvCommanded

LEMMA NextPvKnown == PvInv /\ [P!Next]_P!vars => PvKnown'
<1> SUFFICES ASSUME PvInv, [P!Next]_P!vars
             PROVE  PvKnown'
  OBVIOUS
<1>0. /\ pcmd \in [Procs -> P!Commands] /\ PvKnown
     /\ \A a \in P!AllAgents : providers[a] \subseteq P!Entries
  BY DEF PvInv, P!TypeOK
<1> USE <1>0, PvDistinct, EmptyIsValid, OneIsValid DEF P!On, P!Idle, P!vars,
P!Commands, PvKnown
<1>1. ASSUME NEW p \in Procs, P!BeginCreate(p)
      PROVE  PvKnown'
  BY <1>1 DEF P!BeginCreate, P!Begin
<1>2. ASSUME NEW p \in Procs, P!BeginCreateInGui(p)
      PROVE  PvKnown'
  BY <1>2 DEF P!BeginCreateInGui, P!Begin
<1>3. ASSUME NEW p \in Procs, P!AddProvider(p)
      PROVE  PvKnown'
  BY <1>3 DEF P!AddProvider, P!Registered, P!Done
<1>4. ASSUME NEW p \in Procs, P!StoreCredential(p)
      PROVE  PvKnown'
  BY <1>4 DEF P!StoreCredential, P!Done
<1>5. ASSUME NEW p \in Procs, P!StoreFails(p)
      PROVE  PvKnown'
  BY <1>5 DEF P!StoreFails, P!To
<1>6. ASSUME NEW p \in Procs, P!Rollback(p)
      PROVE  PvKnown'
  BY <1>6 DEF P!Rollback, P!Left, P!Done
<1>7. ASSUME NEW p \in Procs, P!BeginEdit(p)
      PROVE  PvKnown'
  BY <1>7 DEF P!BeginEdit, P!Begin
<1>8. ASSUME NEW p \in Procs, P!UpdateProvider(p)
      PROVE  PvKnown'
  BY <1>8 DEF P!UpdateProvider, P!Registered, P!Done
<1>9. ASSUME NEW p \in Procs, P!BeginPut(p)
      PROVE  PvKnown'
  BY <1>9 DEF P!BeginPut, P!Begin
<1>10. ASSUME NEW p \in Procs, P!BeginDelete(p)
      PROVE  PvKnown'
  BY <1>10 DEF P!BeginDelete, P!Begin
<1>11. ASSUME NEW p \in Procs, P!RemoveProvider(p)
      PROVE  PvKnown'
  BY <1>11 DEF P!RemoveProvider, P!Registered, P!Done, P!To
<1>12. ASSUME NEW p \in Procs, P!ClearCredential(p)
      PROVE  PvKnown'
  BY <1>12 DEF P!ClearCredential, P!Cleared, P!Done
<1>13. ASSUME NEW p \in Procs, P!BeginAttach(p)
      PROVE  PvKnown'
  <2>1. PICK n \in Names, a \in Hermes \cup Singles, r \in P!Roles \cup {"only"} :
          /\ P!Valid(a, providers[a] \cup {P!Entry(n, r)})
          /\ P!Begin(p, [P!Idle EXCEPT !.op = "attach", !.at = "write", !.name = n,
                           !.agents = {a}, !.list = providers[a] \cup {P!Entry(n, r)}])
    BY <1>13, PvAttachBegins
  <2>2. P!Valid(a, {})
    BY EmptyIsValid DEF P!AllAgents
  <2>3. /\ pcmd'[p].name = n /\ pcmd'[p].agents = {a} /\ pcmd'[p].before = {}
        /\ pcmd'[p].at # "add"
        /\ pcmd'[p].list = providers[a] \cup {P!Entry(n, r)}
    BY <2>1 DEF P!Begin
  <2>4. \A q \in Procs \ {p} : pcmd'[q] = pcmd[q]
    BY <2>1 DEF P!Begin
  <2> QED
    BY ZenonT(60), <2>1, <2>2, <2>3, <2>4
<1>14. ASSUME NEW p \in Procs, P!BeginDetach(p)
      PROVE  PvKnown'
  BY <1>14 DEF P!BeginDetach, P!Begin
<1>15. ASSUME NEW p \in Procs, P!SetAttachments(p)
      PROVE  PvKnown'
  BY <1>15 DEF P!SetAttachments, P!Write, P!To, P!Done
<1>16. ASSUME NEW p \in Procs, P!BeginAttachClaude(p)
      PROVE  PvKnown'
  <2>1. PICK n \in Names, a \in Claudes :
          /\ providers[a] \in {{}, {P!Entry(n, "only")}}
          /\ P!Begin(p, [P!Idle EXCEPT !.op = "claude", !.name = n, !.agents = {a},
                           !.at = IF providers[a] = {} THEN "write" ELSE "import",
                           !.list = {P!Entry(n, "only")}, !.before = providers[a]])
    BY <1>16, PvAttachClaudeBegins
  <2>2. P!Valid(a, {}) /\ P!Valid(a, {P!Entry(n, "only")})
    BY EmptyIsValid, OneIsValid DEF P!AllAgents, P!Entry, P!Entries, P!Roles
  <2>3. /\ pcmd'[p].name = n /\ pcmd'[p].agents = {a} /\ pcmd'[p].before = providers[a]
        /\ pcmd'[p].at # "add"
        /\ pcmd'[p].list = {P!Entry(n, "only")}
    BY <2>1 DEF P!Begin
  <2>4. \A q \in Procs \ {p} : pcmd'[q] = pcmd[q]
    BY <2>1 DEF P!Begin
  <2> QED
    BY ZenonT(60), <2>1, <2>2, <2>3, <2>4
<1>17. ASSUME NEW p \in Procs, P!Import(p)
      PROVE  PvKnown'
  BY <1>17 DEF P!Import, P!Done
<1>18. ASSUME NEW p \in Procs, P!ImportFails(p)
      PROVE  PvKnown'
  BY <1>18 DEF P!ImportFails, P!To, P!Done
<1>19. ASSUME NEW p \in Procs, P!RestoreAttachment(p)
      PROVE  PvKnown'
  BY <1>19 DEF P!RestoreAttachment, P!Write, P!Done
<1>20. ASSUME NEW p \in Procs, P!Stop(p)
      PROVE  PvKnown'
  BY <1>20 DEF P!Stop, P!Done, P!Left
<1>21. ASSUME NEW n \in Names, P!PutClears(n)
      PROVE  PvKnown'
  BY <1>21 DEF P!PutClears, P!Registered
<1>22. ASSUME NEW n \in Names, P!RemoveWithAgent(n)
      PROVE  PvKnown'
  BY <1>22 DEF P!RemoveWithAgent, P!Registered, P!Left
<1>23. CASE UNCHANGED P!vars
  BY <1>23
<1> HIDE DEF P!On, P!Idle, P!vars, P!Commands, PvKnown
<1> QED
  BY <1>1, <1>2, <1>3, <1>4, <1>5, <1>6, <1>7, <1>8, <1>9, <1>10, <1>11, <1>12, <1>13,
     <1>14, <1>15, <1>16, <1>17, <1>18, <1>19, <1>20, <1>21, <1>22, <1>23 DEF P!Next

LEMMA NextPvNumbered == PvInv /\ [P!Next]_P!vars => PvNumbered'
<1> SUFFICES ASSUME PvInv, [P!Next]_P!vars
             PROVE  PvNumbered'
  OBVIOUS
<1>0. /\ PvFiles /\ PvCommanded /\ PvKnown /\ PvNumbered
  BY DEF PvFiles, PvCommanded, PvInv, P!TypeOK
<1>1. ASSUME NEW p \in Procs, P!AddProvider(p)
      PROVE  PvNumbered'
  <2>1. CASE UNCHANGED <<records, pmade>> /\ P!Done(p)
    BY <1>0, <1>1, <2>1, PvAddCases DEF P!Done, PvNumbered, PvFiles
  <2>2. CASE ~ (UNCHANGED <<records, pmade>> /\ P!Done(p))
    <3>1. /\ UNCHANGED <<creds, providers, pbegun, orphaned>>
          /\ pcmd[p].name \in Names /\ pcmd[p].type \in P!Types
          /\ \A q \in Procs : pcmd[q].at = "clear" => pcmd'[q] = pcmd[q]
          /\ \A n \in Names \ {pcmd[p].name} : records'[n] = records[n]
      BY <1>0, <1>1, PvAddCases
    <3>2. /\ records[pcmd[p].name] = P!Absent /\ records[pcmd[p].name].reg = P!NoReg
          /\ pmade' = pmade + 1 /\ pmade + 1 \in P!Regs
          /\ records' = [records EXCEPT ![pcmd[p].name] =
                           [type |-> pcmd[p].type, reg |-> pmade + 1]]
          /\ records'[pcmd[p].name].reg = pmade + 1
      BY <1>0, <1>1, <2>2, PvAddCases
    <3> QED
      BY SMTT(30), <1>0, <3>1, <3>2, PvDistinct DEF PvNumbered, PvFiles
  <2> QED
    BY <2>1, <2>2
<1> USE <1>0, PvDistinct DEF P!On, P!Idle, P!vars, P!Commands, PvKnown, PvNumbered,
PvFiles, PvCommanded, P!Absent
<1>2. ASSUME NEW p \in Procs, P!BeginCreate(p)
      PROVE  PvNumbered'
  BY <1>2 DEF P!BeginCreate, P!Begin
<1>3. ASSUME NEW p \in Procs, P!BeginCreateInGui(p)
      PROVE  PvNumbered'
  BY <1>3 DEF P!BeginCreateInGui, P!Begin
<1>4. ASSUME NEW p \in Procs, P!StoreCredential(p)
      PROVE  PvNumbered'
  BY <1>4 DEF P!StoreCredential, P!Done
<1>5. ASSUME NEW p \in Procs, P!StoreFails(p)
      PROVE  PvNumbered'
  BY <1>5 DEF P!StoreFails, P!To
<1>6. ASSUME NEW p \in Procs, P!Rollback(p)
      PROVE  PvNumbered'
  BY <1>6 DEF P!Rollback, P!Left, P!Done
<1>7. ASSUME NEW p \in Procs, P!BeginEdit(p)
      PROVE  PvNumbered'
  BY <1>7 DEF P!BeginEdit, P!Begin
<1>8. ASSUME NEW p \in Procs, P!UpdateProvider(p)
      PROVE  PvNumbered'
  BY <1>8 DEF P!UpdateProvider, P!Registered, P!Done
<1>9. ASSUME NEW p \in Procs, P!BeginPut(p)
      PROVE  PvNumbered'
  BY <1>9 DEF P!BeginPut, P!Begin
<1>10. ASSUME NEW p \in Procs, P!BeginDelete(p)
      PROVE  PvNumbered'
  BY <1>10 DEF P!BeginDelete, P!Begin
<1>11. ASSUME NEW p \in Procs, P!RemoveProvider(p)
      PROVE  PvNumbered'
  <2>1. UNCHANGED pmade
    BY <1>11 DEF P!RemoveProvider
  <2>2. CASE UNCHANGED records
    BY <2>1, <2>2
  <2>3. CASE records' = [records EXCEPT ![pcmd[p].name] = P!Absent]
    BY <2>1, <2>3
  <2> QED
    BY <1>11, <2>2, <2>3 DEF P!RemoveProvider
<1>12. ASSUME NEW p \in Procs, P!ClearCredential(p)
      PROVE  PvNumbered'
  BY <1>12 DEF P!ClearCredential, P!Cleared, P!Done
<1>13. ASSUME NEW p \in Procs, P!BeginAttach(p)
      PROVE  PvNumbered'
  BY <1>13 DEF P!BeginAttach, P!Begin
<1>14. ASSUME NEW p \in Procs, P!BeginDetach(p)
      PROVE  PvNumbered'
  BY <1>14 DEF P!BeginDetach, P!Begin
<1>15. ASSUME NEW p \in Procs, P!SetAttachments(p)
      PROVE  PvNumbered'
  BY <1>15 DEF P!SetAttachments, P!Write, P!To, P!Done
<1>16. ASSUME NEW p \in Procs, P!BeginAttachClaude(p)
      PROVE  PvNumbered'
  BY <1>16 DEF P!BeginAttachClaude, P!Begin
<1>17. ASSUME NEW p \in Procs, P!Import(p)
      PROVE  PvNumbered'
  BY <1>17 DEF P!Import, P!Done
<1>18. ASSUME NEW p \in Procs, P!ImportFails(p)
      PROVE  PvNumbered'
  BY <1>18 DEF P!ImportFails, P!To, P!Done
<1>19. ASSUME NEW p \in Procs, P!RestoreAttachment(p)
      PROVE  PvNumbered'
  BY <1>19 DEF P!RestoreAttachment, P!Write, P!Done
<1>20. ASSUME NEW p \in Procs, P!Stop(p)
      PROVE  PvNumbered'
  BY <1>20 DEF P!Stop, P!Done, P!Left
<1>21. ASSUME NEW n \in Names, P!PutClears(n)
      PROVE  PvNumbered'
  BY <1>21 DEF P!PutClears, P!Registered
<1>22. ASSUME NEW n \in Names, P!RemoveWithAgent(n)
      PROVE  PvNumbered'
  BY <1>22 DEF P!RemoveWithAgent, P!Registered, P!Left
<1>23. CASE UNCHANGED P!vars
  BY <1>23
<1> HIDE DEF P!On, P!Idle, P!vars, P!Commands, PvKnown, PvNumbered, PvFiles,
PvCommanded, P!Absent
<1> QED
  BY <1>1, <1>2, <1>3, <1>4, <1>5, <1>6, <1>7, <1>8, <1>9, <1>10, <1>11, <1>12, <1>13,
     <1>14, <1>15, <1>16, <1>17, <1>18, <1>19, <1>20, <1>21, <1>22, <1>23 DEF P!Next

LEMMA NextPvFiles == PvInv /\ [P!Next]_P!vars => PvFiles'
<1> SUFFICES ASSUME PvInv, [P!Next]_P!vars
             PROVE  PvFiles'
  OBVIOUS
<1>0. /\ PvFiles /\ PvCommanded /\ PvKnown /\ PvNumbered
  BY DEF PvFiles, PvCommanded, PvInv, P!TypeOK
<1>1. ASSUME NEW p \in Procs, P!AddProvider(p)
      PROVE  PvFiles'
  <2>1. CASE UNCHANGED <<records, pmade>> /\ P!Done(p)
    BY <1>0, <1>1, <2>1, PvAddCases DEF P!Done, PvNumbered, PvFiles
  <2>2. CASE ~ (UNCHANGED <<records, pmade>> /\ P!Done(p))
    <3>1. /\ UNCHANGED <<creds, providers, pbegun, orphaned>>
          /\ pcmd[p].name \in Names /\ pcmd[p].type \in P!Types
          /\ \A q \in Procs : pcmd[q].at = "clear" => pcmd'[q] = pcmd[q]
          /\ \A n \in Names \ {pcmd[p].name} : records'[n] = records[n]
      BY <1>0, <1>1, PvAddCases
    <3>2. /\ records[pcmd[p].name] = P!Absent /\ records[pcmd[p].name].reg = P!NoReg
          /\ pmade' = pmade + 1 /\ pmade + 1 \in P!Regs
          /\ records' = [records EXCEPT ![pcmd[p].name] =
                           [type |-> pcmd[p].type, reg |-> pmade + 1]]
          /\ records'[pcmd[p].name].reg = pmade + 1
      BY <1>0, <1>1, <2>2, PvAddCases
    <3> QED
      BY <1>0, <3>1, <3>2, PvDistinct DEF PvNumbered, PvFiles
  <2> QED
    BY <2>1, <2>2
<1> USE <1>0, PvDistinct DEF P!On, P!Idle, P!vars, P!Commands, PvKnown, PvNumbered,
PvFiles, PvCommanded, P!Absent
<1>2. ASSUME NEW p \in Procs, P!BeginCreate(p)
      PROVE  PvFiles'
  BY <1>2 DEF P!BeginCreate, P!Begin
<1>3. ASSUME NEW p \in Procs, P!BeginCreateInGui(p)
      PROVE  PvFiles'
  BY <1>3 DEF P!BeginCreateInGui, P!Begin
<1>4. ASSUME NEW p \in Procs, P!StoreCredential(p)
      PROVE  PvFiles'
  BY <1>4 DEF P!StoreCredential, P!Done
<1>5. ASSUME NEW p \in Procs, P!StoreFails(p)
      PROVE  PvFiles'
  BY <1>5 DEF P!StoreFails, P!To
<1>6. ASSUME NEW p \in Procs, P!Rollback(p)
      PROVE  PvFiles'
  BY <1>6 DEF P!Rollback, P!Left, P!Done
<1>7. ASSUME NEW p \in Procs, P!BeginEdit(p)
      PROVE  PvFiles'
  BY <1>7 DEF P!BeginEdit, P!Begin
<1>8. ASSUME NEW p \in Procs, P!UpdateProvider(p)
      PROVE  PvFiles'
  BY <1>8 DEF P!UpdateProvider, P!Registered, P!Done
<1>9. ASSUME NEW p \in Procs, P!BeginPut(p)
      PROVE  PvFiles'
  BY <1>9 DEF P!BeginPut, P!Begin
<1>10. ASSUME NEW p \in Procs, P!BeginDelete(p)
      PROVE  PvFiles'
  BY <1>10 DEF P!BeginDelete, P!Begin
<1>11. ASSUME NEW p \in Procs, P!RemoveProvider(p)
      PROVE  PvFiles'
  BY <1>11 DEF P!RemoveProvider, P!Registered, P!Done, P!To
<1>12. ASSUME NEW p \in Procs, P!ClearCredential(p)
      PROVE  PvFiles'
  BY <1>12 DEF P!ClearCredential, P!Cleared, P!Done
<1>13. ASSUME NEW p \in Procs, P!BeginAttach(p)
      PROVE  PvFiles'
  BY <1>13 DEF P!BeginAttach, P!Begin
<1>14. ASSUME NEW p \in Procs, P!BeginDetach(p)
      PROVE  PvFiles'
  BY <1>14 DEF P!BeginDetach, P!Begin
<1>15. ASSUME NEW p \in Procs, P!SetAttachments(p)
      PROVE  PvFiles'
  BY <1>15 DEF P!SetAttachments, P!Write, P!To, P!Done
<1>16. ASSUME NEW p \in Procs, P!BeginAttachClaude(p)
      PROVE  PvFiles'
  BY <1>16 DEF P!BeginAttachClaude, P!Begin
<1>17. ASSUME NEW p \in Procs, P!Import(p)
      PROVE  PvFiles'
  BY <1>17 DEF P!Import, P!Done
<1>18. ASSUME NEW p \in Procs, P!ImportFails(p)
      PROVE  PvFiles'
  BY <1>18 DEF P!ImportFails, P!To, P!Done
<1>19. ASSUME NEW p \in Procs, P!RestoreAttachment(p)
      PROVE  PvFiles'
  BY <1>19 DEF P!RestoreAttachment, P!Write, P!Done
<1>20. ASSUME NEW p \in Procs, P!Stop(p)
      PROVE  PvFiles'
  BY <1>20 DEF P!Stop, P!Done, P!Left
<1>21. ASSUME NEW n \in Names, P!PutClears(n)
      PROVE  PvFiles'
  BY <1>21 DEF P!PutClears, P!Registered
<1>22. ASSUME NEW n \in Names, P!RemoveWithAgent(n)
      PROVE  PvFiles'
  BY <1>22 DEF P!RemoveWithAgent, P!Registered, P!Left
<1>23. CASE UNCHANGED P!vars
  BY <1>23
<1> HIDE DEF P!On, P!Idle, P!vars, P!Commands, PvKnown, PvNumbered, PvFiles,
PvCommanded, P!Absent
<1> QED
  BY <1>1, <1>2, <1>3, <1>4, <1>5, <1>6, <1>7, <1>8, <1>9, <1>10, <1>11, <1>12, <1>13,
     <1>14, <1>15, <1>16, <1>17, <1>18, <1>19, <1>20, <1>21, <1>22, <1>23 DEF P!Next

LEMMA NextPvLists == PvInv /\ [P!Next]_P!vars => P!ListsValid'
<1> SUFFICES ASSUME PvInv, [P!Next]_P!vars
             PROVE  P!ListsValid'
  OBVIOUS
<1>0. /\ pcmd \in [Procs -> P!Commands] /\ PvKnown /\ P!ListsValid
  BY DEF PvInv, P!TypeOK
<1> USE <1>0 DEF P!On, P!Idle, P!vars, P!Commands, PvKnown, P!ListsValid
<1>1. ASSUME NEW p \in Procs, P!BeginCreate(p)
      PROVE  P!ListsValid'
  BY <1>1 DEF P!BeginCreate, P!Begin
<1>2. ASSUME NEW p \in Procs, P!BeginCreateInGui(p)
      PROVE  P!ListsValid'
  BY <1>2 DEF P!BeginCreateInGui, P!Begin
<1>3. ASSUME NEW p \in Procs, P!AddProvider(p)
      PROVE  P!ListsValid'
  BY <1>3 DEF P!AddProvider, P!Registered, P!Done
<1>4. ASSUME NEW p \in Procs, P!StoreCredential(p)
      PROVE  P!ListsValid'
  BY <1>4 DEF P!StoreCredential, P!Done
<1>5. ASSUME NEW p \in Procs, P!StoreFails(p)
      PROVE  P!ListsValid'
  BY <1>5 DEF P!StoreFails, P!To
<1>6. ASSUME NEW p \in Procs, P!Rollback(p)
      PROVE  P!ListsValid'
  BY <1>6 DEF P!Rollback, P!Left, P!Done
<1>7. ASSUME NEW p \in Procs, P!BeginEdit(p)
      PROVE  P!ListsValid'
  BY <1>7 DEF P!BeginEdit, P!Begin
<1>8. ASSUME NEW p \in Procs, P!UpdateProvider(p)
      PROVE  P!ListsValid'
  BY <1>8 DEF P!UpdateProvider, P!Registered, P!Done
<1>9. ASSUME NEW p \in Procs, P!BeginPut(p)
      PROVE  P!ListsValid'
  BY <1>9 DEF P!BeginPut, P!Begin
<1>10. ASSUME NEW p \in Procs, P!BeginDelete(p)
      PROVE  P!ListsValid'
  BY <1>10 DEF P!BeginDelete, P!Begin
<1>11. ASSUME NEW p \in Procs, P!RemoveProvider(p)
      PROVE  P!ListsValid'
  BY <1>11 DEF P!RemoveProvider, P!Registered, P!Done, P!To
<1>12. ASSUME NEW p \in Procs, P!ClearCredential(p)
      PROVE  P!ListsValid'
  BY <1>12 DEF P!ClearCredential, P!Cleared, P!Done
<1>13. ASSUME NEW p \in Procs, P!BeginAttach(p)
      PROVE  P!ListsValid'
  BY <1>13 DEF P!BeginAttach, P!Begin
<1>14. ASSUME NEW p \in Procs, P!BeginDetach(p)
      PROVE  P!ListsValid'
  BY <1>14 DEF P!BeginDetach, P!Begin
<1>15. ASSUME NEW p \in Procs, P!SetAttachments(p)
      PROVE  P!ListsValid'
  BY <1>15 DEF P!SetAttachments, P!Write, P!To, P!Done
<1>16. ASSUME NEW p \in Procs, P!BeginAttachClaude(p)
      PROVE  P!ListsValid'
  BY <1>16 DEF P!BeginAttachClaude, P!Begin
<1>17. ASSUME NEW p \in Procs, P!Import(p)
      PROVE  P!ListsValid'
  BY <1>17 DEF P!Import, P!Done
<1>18. ASSUME NEW p \in Procs, P!ImportFails(p)
      PROVE  P!ListsValid'
  BY <1>18 DEF P!ImportFails, P!To, P!Done
<1>19. ASSUME NEW p \in Procs, P!RestoreAttachment(p)
      PROVE  P!ListsValid'
  BY <1>19 DEF P!RestoreAttachment, P!Write, P!Done
<1>20. ASSUME NEW p \in Procs, P!Stop(p)
      PROVE  P!ListsValid'
  BY <1>20 DEF P!Stop, P!Done, P!Left
<1>21. ASSUME NEW n \in Names, P!PutClears(n)
      PROVE  P!ListsValid'
  BY <1>21 DEF P!PutClears, P!Registered
<1>22. ASSUME NEW n \in Names, P!RemoveWithAgent(n)
      PROVE  P!ListsValid'
  BY <1>22 DEF P!RemoveWithAgent, P!Registered, P!Left
<1>23. CASE UNCHANGED P!vars
  BY <1>23
<1> HIDE DEF P!On, P!Idle, P!vars, P!Commands, PvKnown, P!ListsValid
<1> QED
  BY <1>1, <1>2, <1>3, <1>4, <1>5, <1>6, <1>7, <1>8, <1>9, <1>10, <1>11, <1>12, <1>13,
     <1>14, <1>15, <1>16, <1>17, <1>18, <1>19, <1>20, <1>21, <1>22, <1>23 DEF P!Next

LEMMA NextPvOwned == PvInv /\ [P!Next]_P!vars => P!CredentialsOwned'
<1> SUFFICES ASSUME PvInv, [P!Next]_P!vars
             PROVE  P!CredentialsOwned'
  OBVIOUS
<1>0. /\ PvFiles /\ PvCommanded /\ PvKnown /\ PvNumbered /\ P!CredentialsOwned
  BY DEF PvFiles, PvCommanded, PvInv, P!TypeOK
<1>1. ASSUME NEW p \in Procs, P!AddProvider(p)
      PROVE  P!CredentialsOwned'
  <2>1. /\ UNCHANGED <<creds, orphaned>>
        /\ \A q \in Procs : pcmd[q].at = "clear" => pcmd'[q] = pcmd[q]
        /\ \A n \in Names \ {pcmd[p].name} : records'[n] = records[n]
        /\ UNCHANGED records \/ records[pcmd[p].name].reg = P!NoReg
    BY <1>0, <1>1, PvAddCases
  <2>2. \A n \in Names : records'[n].reg = records[n].reg \/ records[n].reg = P!NoReg
    BY <2>1
  <2> QED
    BY <1>0, <2>1, <2>2, PvOwnedKept
<1>2. ASSUME NEW p \in Procs, P!RemoveProvider(p)
      PROVE  P!CredentialsOwned'
  <2>1. UNCHANGED <<creds, orphaned>> /\ pcmd[p].name \in Names /\ pcmd[p].at = "drop"
    BY <1>0, <1>2 DEF P!RemoveProvider, PvKnown, P!On
  <2>2. CASE UNCHANGED records /\ P!Done(p)
    BY <1>0, <2>1, <2>2 DEF P!Done, PvCommanded, P!CredentialsOwned, P!On
  <2>3. CASE records' = [records EXCEPT ![pcmd[p].name] = P!Absent] /\ P!To(p, "clear")
    <3>1. pcmd'[p].at = "clear" /\ pcmd'[p].name = pcmd[p].name
      BY <1>0, <2>3 DEF P!To, PvCommanded, P!Commands
    <3>2. \A q \in Procs \ {p} : pcmd'[q] = pcmd[q]
      BY <1>0, <2>3 DEF P!To, PvCommanded
    <3>3. \A n \in Names \ {pcmd[p].name} : records'[n] = records[n]
      BY <1>0, <2>3 DEF PvFiles
    <3> QED
      BY <1>0, <2>1, <3>1, <3>2, <3>3 DEF P!CredentialsOwned, P!On
  <2> QED
    BY <1>2, <2>2, <2>3 DEF P!RemoveProvider
<1> USE <1>0, PvDistinct DEF P!On, P!Idle, P!vars, P!Commands, PvKnown,
P!CredentialsOwned, PvFiles, PvCommanded, P!Absent, P!NoCreds
<1>3. ASSUME NEW p \in Procs, P!BeginCreate(p)
      PROVE  P!CredentialsOwned'
  BY <1>3 DEF P!BeginCreate, P!Begin
<1>4. ASSUME NEW p \in Procs, P!BeginCreateInGui(p)
      PROVE  P!CredentialsOwned'
  BY <1>4 DEF P!BeginCreateInGui, P!Begin
<1>5. ASSUME NEW p \in Procs, P!StoreCredential(p)
      PROVE  P!CredentialsOwned'
  BY <1>5 DEF P!StoreCredential, P!Done
<1>6. ASSUME NEW p \in Procs, P!StoreFails(p)
      PROVE  P!CredentialsOwned'
  BY <1>6 DEF P!StoreFails, P!To
<1>7. ASSUME NEW p \in Procs, P!Rollback(p)
      PROVE  P!CredentialsOwned'
  BY <1>7 DEF P!Rollback, P!Left, P!Done
<1>8. ASSUME NEW p \in Procs, P!BeginEdit(p)
      PROVE  P!CredentialsOwned'
  BY <1>8 DEF P!BeginEdit, P!Begin
<1>9. ASSUME NEW p \in Procs, P!UpdateProvider(p)
      PROVE  P!CredentialsOwned'
  <2>1. UNCHANGED <<records, creds, providers, orphaned>>
    BY <1>9 DEF P!UpdateProvider
  <2>2. \A q \in Procs : pcmd[q].at = "clear" => pcmd'[q] = pcmd[q]
    BY <1>9 DEF P!UpdateProvider, P!Done
  <2> QED
    BY <2>1, <2>2
<1>10. ASSUME NEW p \in Procs, P!BeginPut(p)
      PROVE  P!CredentialsOwned'
  BY <1>10 DEF P!BeginPut, P!Begin
<1>11. ASSUME NEW p \in Procs, P!BeginDelete(p)
      PROVE  P!CredentialsOwned'
  BY <1>11 DEF P!BeginDelete, P!Begin
<1>12. ASSUME NEW p \in Procs, P!ClearCredential(p)
      PROVE  P!CredentialsOwned'
  BY <1>12 DEF P!ClearCredential, P!Cleared, P!Done
<1>13. ASSUME NEW p \in Procs, P!BeginAttach(p)
      PROVE  P!CredentialsOwned'
  BY <1>13 DEF P!BeginAttach, P!Begin
<1>14. ASSUME NEW p \in Procs, P!BeginDetach(p)
      PROVE  P!CredentialsOwned'
  BY <1>14 DEF P!BeginDetach, P!Begin
<1>15. ASSUME NEW p \in Procs, P!SetAttachments(p)
      PROVE  P!CredentialsOwned'
  <2>1. UNCHANGED <<records, creds, orphaned>>
    BY <1>15 DEF P!SetAttachments
  <2>2. \A q \in Procs : pcmd[q].at = "clear" => pcmd'[q] = pcmd[q]
    BY <1>15 DEF P!SetAttachments, P!Done, P!To
  <2> QED
    BY <2>1, <2>2
<1>16. ASSUME NEW p \in Procs, P!BeginAttachClaude(p)
      PROVE  P!CredentialsOwned'
  BY <1>16 DEF P!BeginAttachClaude, P!Begin
<1>17. ASSUME NEW p \in Procs, P!Import(p)
      PROVE  P!CredentialsOwned'
  BY <1>17 DEF P!Import, P!Done
<1>18. ASSUME NEW p \in Procs, P!ImportFails(p)
      PROVE  P!CredentialsOwned'
  BY <1>18 DEF P!ImportFails, P!To, P!Done
<1>19. ASSUME NEW p \in Procs, P!RestoreAttachment(p)
      PROVE  P!CredentialsOwned'
  BY <1>19 DEF P!RestoreAttachment, P!Write, P!Done
<1>20. ASSUME NEW p \in Procs, P!Stop(p)
      PROVE  P!CredentialsOwned'
  BY <1>20 DEF P!Stop, P!Done, P!Left
<1>21. ASSUME NEW n \in Names, P!PutClears(n)
      PROVE  P!CredentialsOwned'
  BY <1>21 DEF P!PutClears, P!Registered
<1>22. ASSUME NEW n \in Names, P!RemoveWithAgent(n)
      PROVE  P!CredentialsOwned'
  BY <1>22 DEF P!RemoveWithAgent, P!Registered, P!Left
<1>23. CASE UNCHANGED P!vars
  BY <1>23
<1> HIDE DEF P!On, P!Idle, P!vars, P!Commands, PvKnown, P!CredentialsOwned, PvFiles,
PvCommanded, P!Absent, P!NoCreds
<1> QED
  BY <1>1, <1>2, <1>3, <1>4, <1>5, <1>6, <1>7, <1>8, <1>9, <1>10, <1>11, <1>12, <1>13,
     <1>14, <1>15, <1>16, <1>17, <1>18, <1>19, <1>20, <1>21, <1>22, <1>23 DEF P!Next

LEMMA NextPvCommanded == PvInv /\ [P!Next]_P!vars => PvCommanded'
<1> SUFFICES ASSUME PvInv, [P!Next]_P!vars
             PROVE  PvCommanded'
  OBVIOUS
<1>0. /\ PvFiles /\ PvCommanded /\ PvKnown /\ PvNumbered
  BY DEF PvFiles, PvCommanded, PvInv, P!TypeOK
<1>1. ASSUME NEW p \in Procs, P!BeginCreate(p)
      PROVE  PvCommanded'
  BY ZenonT(60), <1>0, <1>1, PvBeginType, PvDistinct DEF P!BeginCreate, P!Idle, P!Commands, PvFiles,
     P!SlotsOf, P!Slots, P!Types, P!Entries, P!Entry, P!AllAgents, P!Roles
<1>2. ASSUME NEW p \in Procs, P!BeginCreateInGui(p)
      PROVE  PvCommanded'
  BY ZenonT(60), <1>0, <1>2, PvBeginType, PvDistinct DEF P!BeginCreateInGui, P!Idle, P!Commands,
     PvFiles, P!SlotsOf, P!Slots, P!Types, P!Entries, P!Entry, P!AllAgents, P!Roles
<1>3. ASSUME NEW p \in Procs, P!AddProvider(p)
      PROVE  PvCommanded'
  <2>1. CASE P!Done(p)
    BY <1>0, <2>1, PvDoneType
  <2>2. CASE ~ P!Done(p)
    <3>1. /\ pcmd' = [pcmd EXCEPT ![p].at = "store", ![p].reg = pmade + 1]
          /\ pmade + 1 \in P!Regs
      BY <1>0, <1>3, <2>2, PvAddCases
    <3> QED
      BY <1>0, <3>1, PvStoring DEF PvCommanded
  <2> QED
    BY <2>1, <2>2
<1>4. ASSUME NEW p \in Procs, P!StoreCredential(p)
      PROVE  PvCommanded'
  <2>1. CASE P!Done(p)
    BY <1>0, <2>1, PvDoneType
  <2>2. CASE \E label \in {"store", "rollback", "clear", "import", "restore"} : P!To(p, label)
    BY <1>0, <2>2, PvToType
  <2> QED
    BY <1>4, <2>1, <2>2 DEF P!StoreCredential
<1>5. ASSUME NEW p \in Procs, P!StoreFails(p)
      PROVE  PvCommanded'
  <2>1. CASE P!Done(p)
    BY <1>0, <2>1, PvDoneType
  <2>2. CASE \E label \in {"store", "rollback", "clear", "import", "restore"} : P!To(p, label)
    BY <1>0, <2>2, PvToType
  <2> QED
    BY <1>5, <2>1, <2>2 DEF P!StoreFails
<1>6. ASSUME NEW p \in Procs, P!Rollback(p)
      PROVE  PvCommanded'
  <2>1. CASE P!Done(p)
    BY <1>0, <2>1, PvDoneType
  <2>2. CASE \E label \in {"store", "rollback", "clear", "import", "restore"} : P!To(p, label)
    BY <1>0, <2>2, PvToType
  <2> QED
    BY <1>6, <2>1, <2>2 DEF P!Rollback
<1>7. ASSUME NEW p \in Procs, P!BeginEdit(p)
      PROVE  PvCommanded'
  BY ZenonT(60), <1>0, <1>7, PvBeginType, PvDistinct DEF P!BeginEdit, P!Idle, P!Commands, PvFiles,
     P!SlotsOf, P!Slots, P!Types, P!Entries, P!Entry, P!AllAgents, P!Roles
<1>8. ASSUME NEW p \in Procs, P!UpdateProvider(p)
      PROVE  PvCommanded'
  <2>1. CASE P!Done(p)
    BY <1>0, <2>1, PvDoneType
  <2>2. CASE ~ P!Done(p)
    <3>1. /\ pcmd' = [pcmd EXCEPT ![p].at = "store", ![p].reg = records[pcmd[p].name].reg]
          /\ pcmd[p].name \in Names
      BY <1>0, <1>8, <2>2 DEF P!UpdateProvider, PvKnown, P!On
    <3>2. records[pcmd[p].name].reg \in P!Regs \cup {P!NoReg}
      BY <1>0, <3>1 DEF PvFiles, P!Absent
    <3> QED
      BY <1>0, <3>1, <3>2, PvStoring DEF PvCommanded
  <2> QED
    BY <2>1, <2>2
<1>9. ASSUME NEW p \in Procs, P!BeginPut(p)
      PROVE  PvCommanded'
  <2>1. PICK n \in Names, ss \in SUBSET P!Slots :
          P!Begin(p, [P!Idle EXCEPT !.op = "edit", !.at = "store", !.via = "gui", !.name = n,
                                    !.reg = records[n].reg, !.slots = ss])
    BY <1>9 DEF P!BeginPut, P!Slots
  <2>2. records[n].reg \in P!Regs \cup {P!NoReg}
    BY <1>0 DEF PvFiles, P!Absent
  <2>3. [P!Idle EXCEPT !.op = "edit", !.at = "store", !.via = "gui", !.name = n,
                       !.reg = records[n].reg, !.slots = ss] \in P!Commands
    BY <2>2 DEF P!Idle, P!Commands
  <2> QED
    BY <1>0, <2>1, <2>3, PvBeginType
<1>10. ASSUME NEW p \in Procs, P!BeginDelete(p)
      PROVE  PvCommanded'
  <2>1. PICK n \in Names, via \in {"cli", "gui"}, ss \in SUBSET P!Slots :
          P!Begin(p, [P!Idle EXCEPT !.op = "delete", !.at = "drop", !.via = via, !.name = n,
                                    !.slots = ss])
    BY <1>10 DEF P!BeginDelete, P!Slots, P!SlotsOf
  <2>2. [P!Idle EXCEPT !.op = "delete", !.at = "drop", !.via = via, !.name = n,
                       !.slots = ss] \in P!Commands
    BY PvDistinct DEF P!Idle, P!Commands
  <2> QED
    BY <1>0, <2>1, <2>2, PvBeginType
<1>11. ASSUME NEW p \in Procs, P!RemoveProvider(p)
      PROVE  PvCommanded'
  <2>1. CASE P!Done(p)
    BY <1>0, <2>1, PvDoneType
  <2>2. CASE \E label \in {"store", "rollback", "clear", "import", "restore"} : P!To(p, label)
    BY <1>0, <2>2, PvToType
  <2> QED
    BY <1>11, <2>1, <2>2 DEF P!RemoveProvider
<1>12. ASSUME NEW p \in Procs, P!ClearCredential(p)
      PROVE  PvCommanded'
  <2>1. CASE P!Done(p)
    BY <1>0, <2>1, PvDoneType
  <2>2. CASE \E label \in {"store", "rollback", "clear", "import", "restore"} : P!To(p, label)
    BY <1>0, <2>2, PvToType
  <2> QED
    BY <1>12, <2>1, <2>2 DEF P!ClearCredential
<1>13. ASSUME NEW p \in Procs, P!BeginAttach(p)
      PROVE  PvCommanded'
  <2>1. PICK n \in Names, a \in Hermes \cup Singles, r \in P!Roles \cup {"only"} :
          P!Begin(p, [P!Idle EXCEPT !.op = "attach", !.at = "write", !.name = n,
                           !.agents = {a}, !.list = providers[a] \cup {P!Entry(n, r)}])
    BY <1>13, PvAttachBegins
  <2> DEFINE list == providers[a] \cup {P!Entry(n, r)}
  <2>2. list \in SUBSET P!Entries /\ a \in P!AllAgents
    BY <1>0 DEF PvFiles, P!Entry, P!Entries, P!AllAgents
  <2> HIDE DEF list
  <2>3. [P!Idle EXCEPT !.op = "attach", !.at = "write", !.name = n, !.agents = {a},
                       !.list = list] \in P!Commands
    BY <2>2, PvDistinct DEF P!Idle, P!Commands
  <2> QED
    BY <1>0, <2>1, <2>3, PvBeginType DEF list
<1>14. ASSUME NEW p \in Procs, P!BeginDetach(p)
      PROVE  PvCommanded'
  BY ZenonT(60), <1>0, <1>14, PvBeginType, PvDistinct DEF P!BeginDetach, P!Idle, P!Commands, PvFiles,
     P!SlotsOf, P!Slots, P!Types, P!Entries, P!Entry, P!AllAgents, P!Roles
<1>15. ASSUME NEW p \in Procs, P!SetAttachments(p)
      PROVE  PvCommanded'
  <2>1. CASE P!Done(p)
    BY <1>0, <2>1, PvDoneType
  <2>2. CASE \E label \in {"store", "rollback", "clear", "import", "restore"} : P!To(p, label)
    BY <1>0, <2>2, PvToType
  <2> QED
    BY <1>15, <2>1, <2>2 DEF P!SetAttachments
<1>16. ASSUME NEW p \in Procs, P!BeginAttachClaude(p)
      PROVE  PvCommanded'
  <2>1. PICK n \in Names, a \in Claudes :
          P!Begin(p, [P!Idle EXCEPT !.op = "claude", !.name = n, !.agents = {a},
                           !.at = IF providers[a] = {} THEN "write" ELSE "import",
                           !.list = {P!Entry(n, "only")}, !.before = providers[a]])
    BY <1>16, PvAttachClaudeBegins
  <2> DEFINE at == IF providers[a] = {} THEN "write" ELSE "import"
             list == {P!Entry(n, "only")}
  <2>2. /\ list \in SUBSET P!Entries /\ providers[a] \in SUBSET P!Entries
        /\ a \in P!AllAgents /\ at \in {"write", "import"}
    BY <1>0 DEF PvFiles, P!Entry, P!Entries, P!AllAgents
  <2> HIDE DEF at, list
  <2>3. [P!Idle EXCEPT !.op = "claude", !.name = n, !.agents = {a}, !.at = at,
                       !.list = list, !.before = providers[a]] \in P!Commands
    BY <2>2, PvDistinct DEF P!Idle, P!Commands
  <2> QED
    BY <1>0, <2>1, <2>3, PvBeginType DEF at, list
<1>17. ASSUME NEW p \in Procs, P!Import(p)
      PROVE  PvCommanded'
  <2>1. CASE P!Done(p)
    BY <1>0, <2>1, PvDoneType
  <2>2. CASE \E label \in {"store", "rollback", "clear", "import", "restore"} : P!To(p, label)
    BY <1>0, <2>2, PvToType
  <2> QED
    BY <1>17, <2>1, <2>2 DEF P!Import
<1>18. ASSUME NEW p \in Procs, P!ImportFails(p)
      PROVE  PvCommanded'
  <2>1. CASE P!Done(p)
    BY <1>0, <2>1, PvDoneType
  <2>2. CASE \E label \in {"store", "rollback", "clear", "import", "restore"} : P!To(p, label)
    BY <1>0, <2>2, PvToType
  <2> QED
    BY <1>18, <2>1, <2>2 DEF P!ImportFails
<1>19. ASSUME NEW p \in Procs, P!RestoreAttachment(p)
      PROVE  PvCommanded'
  <2>1. CASE P!Done(p)
    BY <1>0, <2>1, PvDoneType
  <2>2. CASE \E label \in {"store", "rollback", "clear", "import", "restore"} : P!To(p, label)
    BY <1>0, <2>2, PvToType
  <2> QED
    BY <1>19, <2>1, <2>2 DEF P!RestoreAttachment
<1>20. ASSUME NEW p \in Procs, P!Stop(p)
      PROVE  PvCommanded'
  <2>1. CASE P!Done(p)
    BY <1>0, <2>1, PvDoneType
  <2>2. CASE \E label \in {"store", "rollback", "clear", "import", "restore"} : P!To(p, label)
    BY <1>0, <2>2, PvToType
  <2> QED
    BY <1>20, <2>1, <2>2 DEF P!Stop
<1>21. ASSUME NEW n \in Names, P!PutClears(n)
      PROVE  PvCommanded'
  BY <1>0, <1>21 DEF P!PutClears, PvCommanded
<1>22. ASSUME NEW n \in Names, P!RemoveWithAgent(n)
      PROVE  PvCommanded'
  BY <1>0, <1>22 DEF P!RemoveWithAgent, PvCommanded
<1> USE <1>0 DEF PvCommanded, P!vars
<1>23. CASE UNCHANGED P!vars
  BY <1>23
<1> HIDE DEF PvCommanded, P!vars
<1> QED
  BY <1>1, <1>2, <1>3, <1>4, <1>5, <1>6, <1>7, <1>8, <1>9, <1>10, <1>11, <1>12, <1>13,
     <1>14, <1>15, <1>16, <1>17, <1>18, <1>19, <1>20, <1>21, <1>22, <1>23 DEF P!Next

LEMMA InitPvInv == P!Init => PvInv
<1> SUFFICES ASSUME P!Init
             PROVE  PvInv
  OBVIOUS
<1> USE PvDistinct DEF P!Init
<1>1. PvFiles /\ PvCommanded
  BY PvIdleType DEF PvFiles, PvCommanded, P!NoCreds
<1>2. PvNumbered
  BY DEF PvNumbered, P!Absent, P!NoReg
<1>3. P!TypeOK
  BY <1>1, <1>2 DEF P!TypeOK, PvFiles, PvCommanded, PvNumbered
<1>4. PvKnown
  BY DEF PvKnown, P!Idle
<1>5. P!ListsValid
  BY EmptyIsValid DEF P!ListsValid
<1>6. P!CredentialsOwned
  BY DEF P!CredentialsOwned, P!NoCreds
<1> QED
  BY <1>2, <1>3, <1>4, <1>5, <1>6 DEF PvInv

LEMMA NextPvInv == PvInv /\ [P!Next]_P!vars => PvInv'
<1> SUFFICES ASSUME PvInv, [P!Next]_P!vars
             PROVE  PvInv'
  OBVIOUS
<1>1. PvFiles' /\ PvCommanded' /\ PvNumbered'
  BY NextPvFiles, NextPvCommanded, NextPvNumbered
<1>2. PvKnown' /\ P!ListsValid' /\ P!CredentialsOwned'
  BY NextPvKnown, NextPvLists, NextPvOwned
<1>3. P!TypeOK'
  BY <1>1 DEF P!TypeOK, PvFiles, PvCommanded, PvNumbered
<1> QED
  BY <1>1, <1>2, <1>3 DEF PvInv

(***************************************************************************)
(* PiCredentials.                                                          *)
(***************************************************************************)
\* The lock is had by whoever is at a label behind it.
PiHeld == \A p \in Procs : picmd[p].at \notin C!Unlocked <=> piLock = p

\* What a command is about, and which one is at which label.
PiKnown ==
  \A p \in Procs :
    /\ picmd[p].at # "idle" => picmd[p].provider \in C!Providers
    /\ picmd[p].at \in {"native", "verify"} => picmd[p].provider \in Codexes
    /\ picmd[p].at # "idle" /\ picmd[p].op = "login" => picmd[p].provider \in Codexes

\* What a detach has removed stays away: nobody is about to bring it back.
PiRevoked ==
  /\ selection \notin revoked
  /\ selection \in Codexes => revoked \cap Codexes = {}
  /\ C!NoneResurrected
  /\ \A p \in Procs :
       /\ picmd[p].at = "persist" =>
            IF picmd[p].provider \in Codexes
            THEN ~ oauth ELSE environment = NoProvider /\ awsHome = NoProvider
       /\ picmd[p].at = "provision" => picmd[p].provider \notin revoked
       /\ picmd[p].at \in {"native", "verify"} => revoked \cap Codexes = {}

\* A login that is lost is marked in hosts.json, whoever has the lock: it may only go once
\* the mark is there, and a configure knows whether the selection it replaces had one.
PiMarked ==
  /\ selection \in Codexes /\ loggedIn /\ ~ oauth /\ ~ dropped => recovery
  /\ \A p \in Procs :
       /\ picmd[p].at = "purge" => recovery
       /\ picmd[p].at \in {"purge", "clean", "select"} /\ picmd[p].had
            /\ picmd[p].previous \in Codexes /\ ~ oauth /\ ~ dropped => recovery
       /\ picmd[p].at = "restore" => C!LeavesCodex(p) \/ picmd[p].previous = NoProvider
       /\ picmd[p].at = "infer" => oauth /\ ~ recovery

PiLabels == {"idle", "write", "lock", "revoke", "persist", "purge", "clean", "select",
             "resolve", "provision", "undo", "restore", "native", "verify", "infer"}
PiCommanded == picmd \in [Procs -> C!Commands]
\* The types of everything but the commands.
PiFiles ==
  /\ selection \in C!Providers \cup {NoProvider}
  /\ {recovery, oauth, loggedIn, dropped} \subseteq BOOLEAN
  /\ environment \in OpenRouters \cup Bedrocks \cup {NoProvider}
  /\ awsHome \in Bedrocks \cup {NoProvider}
  /\ piLock \in Procs \cup {NoProc}
  /\ jobs \subseteq Procs
  /\ pibegun \in 0 .. MaxPiCommands
  /\ revoked \subseteq C!Providers

PiInv ==
  /\ C!TypeOK
  /\ PiHeld
  /\ PiKnown
  /\ PiRevoked
  /\ PiMarked


(* No provider is among what a command or a list of its own is. *)
LEMMA PiDistinct ==
  /\ NoProvider \notin C!Providers /\ NoProc \notin Procs
  /\ OpenRouters \cap Bedrocks = {} /\ (OpenRouters \cup Bedrocks) \cap Codexes = {}
  /\ C!Providers = OpenRouters \cup Bedrocks \cup Codexes /\ MaxPiCommands \in Nat
BY MCAssumption DEF C!PiAssumption, C!Providers

(* The two outcomes of a configure that gets the lock. *)
LEMMA LockConfigureCases ==
  ASSUME NEW p \in Procs, picmd \in [Procs -> C!Commands], C!LockConfigure(p)
  PROVE  \/ piLock = NoProc /\ C!End(p) /\ UNCHANGED recovery
         \/ \E label \in {"purge", "clean"} :
              /\ label = "purge" <=> selection \in Codexes /\ picmd[p].provider \notin Codexes
              /\ recovery' = (recovery \/ label = "purge")
              /\ piLock = NoProc /\ piLock' = p
              /\ picmd' = [picmd EXCEPT ![p] = [picmd[p] EXCEPT !.at = label,
                                                   !.previous = selection, !.had = loggedIn]]
<1> DEFINE leaving == selection \in Codexes /\ picmd[p].provider \notin Codexes
           label == IF leaving THEN "purge" ELSE "clean"
<1>1. CASE recovery /\ picmd[p].provider \in Codexes
  BY <1>1 DEF C!LockConfigure
<1>2. CASE ~ (recovery /\ picmd[p].provider \in Codexes)
  <2>1. /\ C!Take(p, [[picmd[p] EXCEPT !.previous = selection, !.had = loggedIn]
                       EXCEPT !.at = label])
        /\ recovery' = (recovery \/ leaving)
    BY <1>2 DEF C!LockConfigure
  <2>2. [[picmd[p] EXCEPT !.previous = selection, !.had = loggedIn] EXCEPT !.at = label]
          = [picmd[p] EXCEPT !.at = label, !.previous = selection, !.had = loggedIn]
    BY DEF C!Commands
  <2>3. label \in {"purge", "clean"} /\ (label = "purge" <=> leaving)
    OBVIOUS
  <2> QED
    BY <2>1, <2>2, <2>3 DEF C!Take
<1> QED
  BY <1>1, <1>2

LEMMA NextPiHeld == PiInv /\ [C!Next]_C!vars => PiHeld'
<1> SUFFICES ASSUME PiInv, [C!Next]_C!vars
             PROVE  PiHeld'
  OBVIOUS
<1>0. picmd \in [Procs -> C!Commands]
  BY DEF PiInv, C!TypeOK
<1> USE <1>0, PiDistinct DEF PiInv, C!On, C!Idle, C!vars, C!local, C!remote, C!history,
C!Commands, PiHeld, C!Unlocked
<1>1. ASSUME NEW p \in Procs, C!BeginAttach(p)
      PROVE  PiHeld'
  BY <1>1 DEF C!BeginAttach, C!Begin
<1>2. ASSUME NEW p \in Procs, C!WriteAttachment(p)
      PROVE  PiHeld'
  BY <1>2 DEF C!WriteAttachment, C!Select, C!End
<1>3. ASSUME NEW p \in Procs, C!BeginDetach(p)
      PROVE  PiHeld'
  BY <1>3 DEF C!BeginDetach, C!Begin
<1>4. ASSUME NEW p \in Procs, C!LockDetach(p)
      PROVE  PiHeld'
  BY <1>4 DEF C!LockDetach, C!Take, C!End
<1>5. ASSUME NEW p \in Procs, C!RevokeDetached(p)
      PROVE  PiHeld'
  BY <1>5 DEF C!RevokeDetached, C!RevokeLogin, C!RevokeAll, C!To
<1>6. ASSUME NEW p \in Procs, C!RevokeFails(p)
      PROVE  PiHeld'
  BY <1>6 DEF C!RevokeFails, C!RevokeSome, C!End
<1>7. ASSUME NEW p \in Procs, C!PersistDetach(p)
      PROVE  PiHeld'
  BY <1>7 DEF C!PersistDetach, C!End
<1>8. ASSUME NEW p \in Procs, C!BeginSync(p)
      PROVE  PiHeld'
  BY <1>8 DEF C!BeginSync, C!Begin
<1>9. ASSUME NEW p \in Procs, C!LockSync(p)
      PROVE  PiHeld'
  BY <1>9 DEF C!LockSync, C!Take
<1>10. ASSUME NEW p \in Procs, C!Resolve(p)
      PROVE  PiHeld'
  BY <1>10 DEF C!Resolve, C!End, C!To
<1>11. ASSUME NEW p \in Procs, C!Provision(p)
      PROVE  PiHeld'
  BY <1>11 DEF C!Provision, C!Provisioned, C!End
<1>12. ASSUME NEW p \in Procs, C!ProvisionFails(p)
      PROVE  PiHeld'
  BY <1>12 DEF C!ProvisionFails, C!Provisioned, C!ProvisionedPartly, C!End, C!To
<1>13. ASSUME NEW p \in Procs, C!BeginConfigure(p)
      PROVE  PiHeld'
  BY <1>13 DEF C!BeginConfigure, C!Begin
<1>14. ASSUME NEW p \in Procs, C!LockConfigure(p)
      PROVE  PiHeld'
  <2>1. /\ picmd[p].at = "lock" /\ picmd[p].op = "configure"
        /\ UNCHANGED <<selection, environment, awsHome, oauth, loggedIn, dropped, revoked>>
    BY <1>14 DEF C!LockConfigure
  <2>2. CASE C!End(p) /\ UNCHANGED recovery
    BY <1>14, <2>1, <2>2 DEF C!End
  <2>3. ASSUME NEW label \in {"purge", "clean"},
               label = "purge" <=> selection \in Codexes /\ picmd[p].provider \notin Codexes,
               recovery' = (recovery \/ label = "purge"),
               piLock = NoProc, piLock' = p,
               picmd' = [picmd EXCEPT ![p] = [picmd[p] EXCEPT !.at = label,
                                                !.previous = selection, !.had = loggedIn]]
        PROVE  PiHeld'
    BY <1>14, <2>1, <2>3
  <2> QED
    BY <1>14, <2>2, <2>3, LockConfigureCases
<1>15. ASSUME NEW p \in Procs, C!Purge(p)
      PROVE  PiHeld'
  BY <1>15 DEF C!Purge, C!RevokeLogin, C!To
<1>16. ASSUME NEW p \in Procs, C!Clean(p)
      PROVE  PiHeld'
  BY <1>16 DEF C!Clean, C!RevokeAll, C!RevokeSome, C!To, C!End
<1>17. ASSUME NEW p \in Procs, C!SelectReplacement(p)
      PROVE  PiHeld'
  BY <1>17 DEF C!SelectReplacement, C!Select, C!LeavesCodex, C!To
<1>18. ASSUME NEW p \in Procs, C!Undo(p)
      PROVE  PiHeld'
  BY <1>18 DEF C!Undo, C!RevokeAll, C!RevokeSome, C!LeavesCodex, C!To, C!End
<1>19. ASSUME NEW p \in Procs, C!RestoreAttachment(p)
      PROVE  PiHeld'
  BY <1>19 DEF C!RestoreAttachment, C!Select, C!LeavesCodex, C!End
<1>20. ASSUME NEW p \in Procs, C!BeginLogin(p)
      PROVE  PiHeld'
  BY <1>20 DEF C!BeginLogin, C!Begin
<1>21. ASSUME NEW p \in Procs, C!LockLogin(p)
      PROVE  PiHeld'
  BY <1>21 DEF C!LockLogin, C!Take, C!End
<1>22. ASSUME NEW p \in Procs, C!NativeLogin(p)
      PROVE  PiHeld'
  BY <1>22 DEF C!NativeLogin, C!To
<1>23. ASSUME NEW p \in Procs, C!VerifyLogin(p)
      PROVE  PiHeld'
  BY <1>23 DEF C!VerifyLogin, C!End
<1>24. ASSUME NEW p \in Procs, C!BeginInference(p)
      PROVE  PiHeld'
  BY <1>24 DEF C!BeginInference, C!Begin
<1>25. ASSUME NEW p \in Procs, C!LockInference(p)
      PROVE  PiHeld'
  BY <1>25 DEF C!LockInference, C!Take, C!End
<1>26. ASSUME NEW p \in Procs, C!InferenceEnds(p)
      PROVE  PiHeld'
  BY <1>26 DEF C!InferenceEnds, C!End
<1>27. ASSUME NEW p \in Procs, C!JobEnds(p)
      PROVE  PiHeld'
  BY <1>27 DEF C!JobEnds
<1>28. ASSUME NEW p \in Procs, C!Stop(p)
      PROVE  PiHeld'
  BY <1>28 DEF C!Stop, C!End
<1>29. CASE UNCHANGED C!vars
  BY <1>29
<1> HIDE DEF PiInv, C!On, C!Idle, C!vars, C!local, C!remote, C!history, C!Commands,
PiHeld, C!Unlocked
<1> QED
  BY <1>1, <1>2, <1>3, <1>4, <1>5, <1>6, <1>7, <1>8, <1>9, <1>10, <1>11, <1>12, <1>13,
     <1>14, <1>15, <1>16, <1>17, <1>18, <1>19, <1>20, <1>21, <1>22, <1>23, <1>24,
     <1>25, <1>26, <1>27, <1>28, <1>29 DEF C!Next

LEMMA NextPiKnown == PiInv /\ [C!Next]_C!vars => PiKnown'
<1> SUFFICES ASSUME PiInv, [C!Next]_C!vars
             PROVE  PiKnown'
  OBVIOUS
<1>0. picmd \in [Procs -> C!Commands] /\ selection \in C!Providers \cup {NoProvider}
  BY DEF PiInv, C!TypeOK
<1> USE <1>0, PiDistinct DEF PiInv, C!On, C!Idle, C!vars, C!local, C!remote, C!history,
C!Commands, PiHeld, C!Unlocked, PiKnown
<1>1. ASSUME NEW p \in Procs, C!BeginAttach(p)
      PROVE  PiKnown'
  BY <1>1 DEF C!BeginAttach, C!Begin
<1>2. ASSUME NEW p \in Procs, C!WriteAttachment(p)
      PROVE  PiKnown'
  BY <1>2 DEF C!WriteAttachment, C!Select, C!End
<1>3. ASSUME NEW p \in Procs, C!BeginDetach(p)
      PROVE  PiKnown'
  BY <1>3 DEF C!BeginDetach, C!Begin
<1>4. ASSUME NEW p \in Procs, C!LockDetach(p)
      PROVE  PiKnown'
  BY <1>4 DEF C!LockDetach, C!Take, C!End
<1>5. ASSUME NEW p \in Procs, C!RevokeDetached(p)
      PROVE  PiKnown'
  BY <1>5 DEF C!RevokeDetached, C!RevokeLogin, C!RevokeAll, C!To
<1>6. ASSUME NEW p \in Procs, C!RevokeFails(p)
      PROVE  PiKnown'
  BY <1>6 DEF C!RevokeFails, C!RevokeSome, C!End
<1>7. ASSUME NEW p \in Procs, C!PersistDetach(p)
      PROVE  PiKnown'
  BY <1>7 DEF C!PersistDetach, C!End
<1>8. ASSUME NEW p \in Procs, C!BeginSync(p)
      PROVE  PiKnown'
  BY <1>8 DEF C!BeginSync, C!Begin
<1>9. ASSUME NEW p \in Procs, C!LockSync(p)
      PROVE  PiKnown'
  BY <1>9 DEF C!LockSync, C!Take
<1>10. ASSUME NEW p \in Procs, C!Resolve(p)
      PROVE  PiKnown'
  BY <1>10 DEF C!Resolve, C!End, C!To
<1>11. ASSUME NEW p \in Procs, C!Provision(p)
      PROVE  PiKnown'
  BY <1>11 DEF C!Provision, C!Provisioned, C!End
<1>12. ASSUME NEW p \in Procs, C!ProvisionFails(p)
      PROVE  PiKnown'
  BY <1>12 DEF C!ProvisionFails, C!Provisioned, C!ProvisionedPartly, C!End, C!To
<1>13. ASSUME NEW p \in Procs, C!BeginConfigure(p)
      PROVE  PiKnown'
  BY <1>13 DEF C!BeginConfigure, C!Begin
<1>14. ASSUME NEW p \in Procs, C!LockConfigure(p)
      PROVE  PiKnown'
  <2>1. /\ picmd[p].at = "lock" /\ picmd[p].op = "configure"
        /\ UNCHANGED <<selection, environment, awsHome, oauth, loggedIn, dropped, revoked>>
    BY <1>14 DEF C!LockConfigure
  <2>2. CASE C!End(p) /\ UNCHANGED recovery
    BY <1>14, <2>1, <2>2 DEF C!End
  <2>3. ASSUME NEW label \in {"purge", "clean"},
               label = "purge" <=> selection \in Codexes /\ picmd[p].provider \notin Codexes,
               recovery' = (recovery \/ label = "purge"),
               piLock = NoProc, piLock' = p,
               picmd' = [picmd EXCEPT ![p] = [picmd[p] EXCEPT !.at = label,
                                                !.previous = selection, !.had = loggedIn]]
        PROVE  PiKnown'
    BY <1>14, <2>1, <2>3
  <2> QED
    BY <1>14, <2>2, <2>3, LockConfigureCases
<1>15. ASSUME NEW p \in Procs, C!Purge(p)
      PROVE  PiKnown'
  BY <1>15 DEF C!Purge, C!RevokeLogin, C!To
<1>16. ASSUME NEW p \in Procs, C!Clean(p)
      PROVE  PiKnown'
  BY <1>16 DEF C!Clean, C!RevokeAll, C!RevokeSome, C!To, C!End
<1>17. ASSUME NEW p \in Procs, C!SelectReplacement(p)
      PROVE  PiKnown'
  BY <1>17 DEF C!SelectReplacement, C!Select, C!LeavesCodex, C!To
<1>18. ASSUME NEW p \in Procs, C!Undo(p)
      PROVE  PiKnown'
  BY <1>18 DEF C!Undo, C!RevokeAll, C!RevokeSome, C!LeavesCodex, C!To, C!End
<1>19. ASSUME NEW p \in Procs, C!RestoreAttachment(p)
      PROVE  PiKnown'
  BY <1>19 DEF C!RestoreAttachment, C!Select, C!LeavesCodex, C!End
<1>20. ASSUME NEW p \in Procs, C!BeginLogin(p)
      PROVE  PiKnown'
  BY <1>20 DEF C!BeginLogin, C!Begin
<1>21. ASSUME NEW p \in Procs, C!LockLogin(p)
      PROVE  PiKnown'
  BY <1>21 DEF C!LockLogin, C!Take, C!End
<1>22. ASSUME NEW p \in Procs, C!NativeLogin(p)
      PROVE  PiKnown'
  BY <1>22 DEF C!NativeLogin, C!To
<1>23. ASSUME NEW p \in Procs, C!VerifyLogin(p)
      PROVE  PiKnown'
  BY <1>23 DEF C!VerifyLogin, C!End
<1>24. ASSUME NEW p \in Procs, C!BeginInference(p)
      PROVE  PiKnown'
  BY <1>24 DEF C!BeginInference, C!Begin
<1>25. ASSUME NEW p \in Procs, C!LockInference(p)
      PROVE  PiKnown'
  BY <1>25 DEF C!LockInference, C!Take, C!End
<1>26. ASSUME NEW p \in Procs, C!InferenceEnds(p)
      PROVE  PiKnown'
  BY <1>26 DEF C!InferenceEnds, C!End
<1>27. ASSUME NEW p \in Procs, C!JobEnds(p)
      PROVE  PiKnown'
  BY <1>27 DEF C!JobEnds
<1>28. ASSUME NEW p \in Procs, C!Stop(p)
      PROVE  PiKnown'
  BY <1>28 DEF C!Stop, C!End
<1>29. CASE UNCHANGED C!vars
  BY <1>29
<1> HIDE DEF PiInv, C!On, C!Idle, C!vars, C!local, C!remote, C!history, C!Commands,
PiHeld, C!Unlocked, PiKnown
<1> QED
  BY <1>1, <1>2, <1>3, <1>4, <1>5, <1>6, <1>7, <1>8, <1>9, <1>10, <1>11, <1>12, <1>13,
     <1>14, <1>15, <1>16, <1>17, <1>18, <1>19, <1>20, <1>21, <1>22, <1>23, <1>24,
     <1>25, <1>26, <1>27, <1>28, <1>29 DEF C!Next

LEMMA NextPiRevoked == PiInv /\ [C!Next]_C!vars => PiRevoked'
<1> SUFFICES ASSUME PiInv, [C!Next]_C!vars
             PROVE  PiRevoked'
  OBVIOUS
<1>0. /\ picmd \in [Procs -> C!Commands] /\ selection \in C!Providers \cup {NoProvider}
     /\ revoked \subseteq C!Providers /\ awsHome \in Bedrocks \cup {NoProvider}
     /\ environment \in OpenRouters \cup Bedrocks \cup {NoProvider}
  BY DEF PiInv, C!TypeOK
<1> USE <1>0, PiDistinct DEF PiInv, C!On, C!Idle, C!vars, C!local, C!remote, C!history,
C!Commands, PiHeld, C!Unlocked, PiKnown, PiRevoked, C!NoneResurrected
<1>1. ASSUME NEW p \in Procs, C!BeginAttach(p)
      PROVE  PiRevoked'
  BY <1>1 DEF C!BeginAttach, C!Begin
<1>2. ASSUME NEW p \in Procs, C!WriteAttachment(p)
      PROVE  PiRevoked'
  BY <1>2 DEF C!WriteAttachment, C!Select, C!End
<1>3. ASSUME NEW p \in Procs, C!BeginDetach(p)
      PROVE  PiRevoked'
  BY <1>3 DEF C!BeginDetach, C!Begin
<1>4. ASSUME NEW p \in Procs, C!LockDetach(p)
      PROVE  PiRevoked'
  BY <1>4 DEF C!LockDetach, C!Take, C!End
<1>5. ASSUME NEW p \in Procs, C!RevokeDetached(p)
      PROVE  PiRevoked'
  BY <1>5 DEF C!RevokeDetached, C!RevokeLogin, C!RevokeAll, C!To
<1>6. ASSUME NEW p \in Procs, C!RevokeFails(p)
      PROVE  PiRevoked'
  BY <1>6 DEF C!RevokeFails, C!RevokeSome, C!End
<1>7. ASSUME NEW p \in Procs, C!PersistDetach(p)
      PROVE  PiRevoked'
  BY <1>7 DEF C!PersistDetach, C!End
<1>8. ASSUME NEW p \in Procs, C!BeginSync(p)
      PROVE  PiRevoked'
  BY <1>8 DEF C!BeginSync, C!Begin
<1>9. ASSUME NEW p \in Procs, C!LockSync(p)
      PROVE  PiRevoked'
  BY <1>9 DEF C!LockSync, C!Take
<1>10. ASSUME NEW p \in Procs, C!Resolve(p)
      PROVE  PiRevoked'
  BY <1>10 DEF C!Resolve, C!End, C!To
<1>11. ASSUME NEW p \in Procs, C!Provision(p)
      PROVE  PiRevoked'
  BY <1>11 DEF C!Provision, C!Provisioned, C!End
<1>12. ASSUME NEW p \in Procs, C!ProvisionFails(p)
      PROVE  PiRevoked'
  BY <1>12 DEF C!ProvisionFails, C!Provisioned, C!ProvisionedPartly, C!End, C!To
<1>13. ASSUME NEW p \in Procs, C!BeginConfigure(p)
      PROVE  PiRevoked'
  BY <1>13 DEF C!BeginConfigure, C!Begin
<1>14. ASSUME NEW p \in Procs, C!LockConfigure(p)
      PROVE  PiRevoked'
  <2>1. /\ picmd[p].at = "lock" /\ picmd[p].op = "configure"
        /\ UNCHANGED <<selection, environment, awsHome, oauth, loggedIn, dropped, revoked>>
    BY <1>14 DEF C!LockConfigure
  <2>2. CASE C!End(p) /\ UNCHANGED recovery
    BY <1>14, <2>1, <2>2 DEF C!End
  <2>3. ASSUME NEW label \in {"purge", "clean"},
               label = "purge" <=> selection \in Codexes /\ picmd[p].provider \notin Codexes,
               recovery' = (recovery \/ label = "purge"),
               piLock = NoProc, piLock' = p,
               picmd' = [picmd EXCEPT ![p] = [picmd[p] EXCEPT !.at = label,
                                                !.previous = selection, !.had = loggedIn]]
        PROVE  PiRevoked'
    BY <1>14, <2>1, <2>3
  <2> QED
    BY <1>14, <2>2, <2>3, LockConfigureCases
<1>15. ASSUME NEW p \in Procs, C!Purge(p)
      PROVE  PiRevoked'
  BY <1>15 DEF C!Purge, C!RevokeLogin, C!To
<1>16. ASSUME NEW p \in Procs, C!Clean(p)
      PROVE  PiRevoked'
  BY <1>16 DEF C!Clean, C!RevokeAll, C!RevokeSome, C!To, C!End
<1>17. ASSUME NEW p \in Procs, C!SelectReplacement(p)
      PROVE  PiRevoked'
  BY <1>17 DEF C!SelectReplacement, C!Select, C!LeavesCodex, C!To
<1>18. ASSUME NEW p \in Procs, C!Undo(p)
      PROVE  PiRevoked'
  BY <1>18 DEF C!Undo, C!RevokeAll, C!RevokeSome, C!LeavesCodex, C!To, C!End
<1>19. ASSUME NEW p \in Procs, C!RestoreAttachment(p)
      PROVE  PiRevoked'
  BY <1>19 DEF C!RestoreAttachment, C!Select, C!LeavesCodex, C!End
<1>20. ASSUME NEW p \in Procs, C!BeginLogin(p)
      PROVE  PiRevoked'
  BY <1>20 DEF C!BeginLogin, C!Begin
<1>21. ASSUME NEW p \in Procs, C!LockLogin(p)
      PROVE  PiRevoked'
  BY <1>21 DEF C!LockLogin, C!Take, C!End
<1>22. ASSUME NEW p \in Procs, C!NativeLogin(p)
      PROVE  PiRevoked'
  BY <1>22 DEF C!NativeLogin, C!To
<1>23. ASSUME NEW p \in Procs, C!VerifyLogin(p)
      PROVE  PiRevoked'
  BY <1>23 DEF C!VerifyLogin, C!End
<1>24. ASSUME NEW p \in Procs, C!BeginInference(p)
      PROVE  PiRevoked'
  BY <1>24 DEF C!BeginInference, C!Begin
<1>25. ASSUME NEW p \in Procs, C!LockInference(p)
      PROVE  PiRevoked'
  BY <1>25 DEF C!LockInference, C!Take, C!End
<1>26. ASSUME NEW p \in Procs, C!InferenceEnds(p)
      PROVE  PiRevoked'
  BY <1>26 DEF C!InferenceEnds, C!End
<1>27. ASSUME NEW p \in Procs, C!JobEnds(p)
      PROVE  PiRevoked'
  BY <1>27 DEF C!JobEnds
<1>28. ASSUME NEW p \in Procs, C!Stop(p)
      PROVE  PiRevoked'
  BY <1>28 DEF C!Stop, C!End
<1>29. CASE UNCHANGED C!vars
  BY <1>29
<1> HIDE DEF PiInv, C!On, C!Idle, C!vars, C!local, C!remote, C!history, C!Commands,
PiHeld, C!Unlocked, PiKnown, PiRevoked, C!NoneResurrected
<1> QED
  BY <1>1, <1>2, <1>3, <1>4, <1>5, <1>6, <1>7, <1>8, <1>9, <1>10, <1>11, <1>12, <1>13,
     <1>14, <1>15, <1>16, <1>17, <1>18, <1>19, <1>20, <1>21, <1>22, <1>23, <1>24,
     <1>25, <1>26, <1>27, <1>28, <1>29 DEF C!Next

LEMMA NextPiMarked == PiInv /\ [C!Next]_C!vars => PiMarked'
<1> SUFFICES ASSUME PiInv, [C!Next]_C!vars
             PROVE  PiMarked'
  OBVIOUS
<1>0. /\ picmd \in [Procs -> C!Commands] /\ selection \in C!Providers \cup {NoProvider}
     /\ {recovery, oauth, loggedIn, dropped} \subseteq BOOLEAN
  BY DEF PiInv, C!TypeOK
<1> USE <1>0, PiDistinct DEF PiInv, C!On, C!Idle, C!vars, C!local, C!remote, C!history,
C!Commands, PiHeld, C!Unlocked, PiKnown, PiMarked, C!LeavesCodex
<1>1. ASSUME NEW p \in Procs, C!BeginAttach(p)
      PROVE  PiMarked'
  BY <1>1 DEF C!BeginAttach, C!Begin
<1>2. ASSUME NEW p \in Procs, C!WriteAttachment(p)
      PROVE  PiMarked'
  BY <1>2 DEF C!WriteAttachment, C!Select, C!End
<1>3. ASSUME NEW p \in Procs, C!BeginDetach(p)
      PROVE  PiMarked'
  BY <1>3 DEF C!BeginDetach, C!Begin
<1>4. ASSUME NEW p \in Procs, C!LockDetach(p)
      PROVE  PiMarked'
  BY <1>4 DEF C!LockDetach, C!Take, C!End
<1>5. ASSUME NEW p \in Procs, C!RevokeDetached(p)
      PROVE  PiMarked'
  BY <1>5 DEF C!RevokeDetached, C!RevokeLogin, C!RevokeAll, C!To
<1>6. ASSUME NEW p \in Procs, C!RevokeFails(p)
      PROVE  PiMarked'
  BY <1>6 DEF C!RevokeFails, C!RevokeSome, C!End
<1>7. ASSUME NEW p \in Procs, C!PersistDetach(p)
      PROVE  PiMarked'
  BY <1>7 DEF C!PersistDetach, C!End
<1>8. ASSUME NEW p \in Procs, C!BeginSync(p)
      PROVE  PiMarked'
  BY <1>8 DEF C!BeginSync, C!Begin
<1>9. ASSUME NEW p \in Procs, C!LockSync(p)
      PROVE  PiMarked'
  BY <1>9 DEF C!LockSync, C!Take
<1>10. ASSUME NEW p \in Procs, C!Resolve(p)
      PROVE  PiMarked'
  BY <1>10 DEF C!Resolve, C!End, C!To
<1>11. ASSUME NEW p \in Procs, C!Provision(p)
      PROVE  PiMarked'
  BY <1>11 DEF C!Provision, C!Provisioned, C!End
<1>12. ASSUME NEW p \in Procs, C!ProvisionFails(p)
      PROVE  PiMarked'
  BY <1>12 DEF C!ProvisionFails, C!Provisioned, C!ProvisionedPartly, C!End, C!To
<1>13. ASSUME NEW p \in Procs, C!BeginConfigure(p)
      PROVE  PiMarked'
  BY <1>13 DEF C!BeginConfigure, C!Begin
<1>14. ASSUME NEW p \in Procs, C!LockConfigure(p)
      PROVE  PiMarked'
  <2>1. /\ picmd[p].at = "lock" /\ picmd[p].op = "configure"
        /\ UNCHANGED <<selection, environment, awsHome, oauth, loggedIn, dropped, revoked>>
    BY <1>14 DEF C!LockConfigure
  <2>2. CASE C!End(p) /\ UNCHANGED recovery
    BY <1>14, <2>1, <2>2 DEF C!End
  <2>3. ASSUME NEW label \in {"purge", "clean"},
               label = "purge" <=> selection \in Codexes /\ picmd[p].provider \notin Codexes,
               recovery' = (recovery \/ label = "purge"),
               piLock = NoProc, piLock' = p,
               picmd' = [picmd EXCEPT ![p] = [picmd[p] EXCEPT !.at = label,
                                                !.previous = selection, !.had = loggedIn]]
        PROVE  PiMarked'
    <3>1. \A q \in Procs \ {p} : picmd'[q] = picmd[q] /\ picmd[q].at \in C!Unlocked
      BY <2>3
    <3>2. /\ picmd'[p].at = label /\ picmd'[p].previous = selection
          /\ picmd'[p].had = loggedIn
      BY <2>3
    <3>3. /\ selection \in Codexes /\ loggedIn /\ ~ oauth /\ ~ dropped => recovery
          /\ recovery => recovery'
      BY <2>3
    <3> QED
      BY ZenonT(60), <2>1, <2>3, <3>1, <3>2, <3>3
  <2> QED
    BY <1>14, <2>2, <2>3, LockConfigureCases
<1>15. ASSUME NEW p \in Procs, C!Purge(p)
      PROVE  PiMarked'
  BY <1>15 DEF C!Purge, C!RevokeLogin, C!To
<1>16. ASSUME NEW p \in Procs, C!Clean(p)
      PROVE  PiMarked'
  BY <1>16 DEF C!Clean, C!RevokeAll, C!RevokeSome, C!To, C!End
<1>17. ASSUME NEW p \in Procs, C!SelectReplacement(p)
      PROVE  PiMarked'
  BY <1>17 DEF C!SelectReplacement, C!Select, C!LeavesCodex, C!To
<1>18. ASSUME NEW p \in Procs, C!Undo(p)
      PROVE  PiMarked'
  BY <1>18 DEF C!Undo, C!RevokeAll, C!RevokeSome, C!LeavesCodex, C!To, C!End
<1>19. ASSUME NEW p \in Procs, C!RestoreAttachment(p)
      PROVE  PiMarked'
  BY <1>19 DEF C!RestoreAttachment, C!Select, C!LeavesCodex, C!End
<1>20. ASSUME NEW p \in Procs, C!BeginLogin(p)
      PROVE  PiMarked'
  BY <1>20 DEF C!BeginLogin, C!Begin
<1>21. ASSUME NEW p \in Procs, C!LockLogin(p)
      PROVE  PiMarked'
  BY <1>21 DEF C!LockLogin, C!Take, C!End
<1>22. ASSUME NEW p \in Procs, C!NativeLogin(p)
      PROVE  PiMarked'
  BY ZenonT(60), <1>22 DEF C!NativeLogin, C!To
<1>23. ASSUME NEW p \in Procs, C!VerifyLogin(p)
      PROVE  PiMarked'
  BY <1>23 DEF C!VerifyLogin, C!End
<1>24. ASSUME NEW p \in Procs, C!BeginInference(p)
      PROVE  PiMarked'
  BY <1>24 DEF C!BeginInference, C!Begin
<1>25. ASSUME NEW p \in Procs, C!LockInference(p)
      PROVE  PiMarked'
  BY <1>25 DEF C!LockInference, C!Take, C!End
<1>26. ASSUME NEW p \in Procs, C!InferenceEnds(p)
      PROVE  PiMarked'
  BY <1>26 DEF C!InferenceEnds, C!End
<1>27. ASSUME NEW p \in Procs, C!JobEnds(p)
      PROVE  PiMarked'
  BY <1>27 DEF C!JobEnds
<1>28. ASSUME NEW p \in Procs, C!Stop(p)
      PROVE  PiMarked'
  BY <1>28 DEF C!Stop, C!End
<1>29. CASE UNCHANGED C!vars
  BY <1>29
<1> HIDE DEF PiInv, C!On, C!Idle, C!vars, C!local, C!remote, C!history, C!Commands,
PiHeld, C!Unlocked, PiKnown, PiMarked, C!LeavesCodex
<1> QED
  BY <1>1, <1>2, <1>3, <1>4, <1>5, <1>6, <1>7, <1>8, <1>9, <1>10, <1>11, <1>12, <1>13,
     <1>14, <1>15, <1>16, <1>17, <1>18, <1>19, <1>20, <1>21, <1>22, <1>23, <1>24,
     <1>25, <1>26, <1>27, <1>28, <1>29 DEF C!Next

(* A command keeps its type when it begins, goes on to a label or ends. *)
LEMMA PiBeginType ==
  ASSUME NEW p \in Procs, NEW op \in {"attach", "detach", "sync", "configure", "login", "chat"},
         NEW label \in PiLabels, NEW n \in C!Providers, PiCommanded, C!Begin(p, op, label, n)
  PROVE  PiCommanded'
BY DEF C!Begin, C!Idle, C!Commands, PiLabels, PiCommanded

LEMMA PiToType ==
  ASSUME NEW p \in Procs, NEW label \in PiLabels, PiCommanded, C!To(p, label)
  PROVE  PiCommanded'
BY DEF C!To, C!Commands, PiLabels, PiCommanded

LEMMA PiReplacingType ==
  \A c \in C!Commands, n \in C!Providers \cup {NoProvider}, b \in BOOLEAN,
     l \in {"purge", "clean"} :
    [c EXCEPT !.at = l, !.previous = n, !.had = b] \in C!Commands
BY ZenonT(60) DEF C!Commands

LEMMA PiEndType ==
  ASSUME NEW p \in Procs, PiCommanded, C!End(p)
  PROVE  PiCommanded'
BY DEF C!End, C!Idle, C!Commands, PiCommanded

LEMMA PiTakeType ==
  ASSUME NEW p \in Procs, NEW c \in C!Commands, PiCommanded, C!Take(p, c)
  PROVE  PiCommanded'
BY DEF C!Take, PiCommanded

LEMMA NextPiCommands == PiInv /\ [C!Next]_C!vars => PiCommanded'
<1> SUFFICES ASSUME PiInv, [C!Next]_C!vars
             PROVE  PiCommanded'
  OBVIOUS
<1>0. /\ picmd \in [Procs -> C!Commands] /\ selection \in C!Providers \cup {NoProvider}
     /\ loggedIn \in BOOLEAN
  BY DEF PiInv, C!TypeOK
<1> USE <1>0, PiDistinct DEF PiCommanded, C!vars
<1>1. ASSUME NEW p \in Procs, C!BeginAttach(p)
      PROVE  PiCommanded'
  BY <1>1, PiBeginType DEF C!BeginAttach, PiLabels
<1>2. ASSUME NEW p \in Procs, C!WriteAttachment(p)
      PROVE  PiCommanded'
  <2>1. CASE C!End(p)
    BY <2>1, PiEndType
  <2>2. CASE \E label \in PiLabels : C!To(p, label)
    BY <2>2, PiToType
  <2>3. CASE ~ C!End(p) /\ ~ \E label \in PiLabels : C!To(p, label)
    BY <1>2, <2>3 DEF C!WriteAttachment, PiLabels
  <2> QED
    BY <2>1, <2>2, <2>3
<1>3. ASSUME NEW p \in Procs, C!BeginDetach(p)
      PROVE  PiCommanded'
  BY <1>3, PiBeginType DEF C!BeginDetach, PiLabels
<1>4. ASSUME NEW p \in Procs, C!LockDetach(p)
      PROVE  PiCommanded'
  <2>1. CASE C!End(p)
    BY <2>1, PiEndType
  <2>2. CASE ~ C!End(p)
    <3>1. [picmd[p] EXCEPT !.at = "revoke"] \in C!Commands
      BY DEF PiCommanded, C!Commands
    <3> QED
      BY <1>4, <2>2, <3>1, PiTakeType DEF C!LockDetach
  <2> QED
    BY <2>1, <2>2
<1>5. ASSUME NEW p \in Procs, C!RevokeDetached(p)
      PROVE  PiCommanded'
  <2>1. CASE C!End(p)
    BY <2>1, PiEndType
  <2>2. CASE \E label \in PiLabels : C!To(p, label)
    BY <2>2, PiToType
  <2>3. CASE ~ C!End(p) /\ ~ \E label \in PiLabels : C!To(p, label)
    BY <1>5, <2>3 DEF C!RevokeDetached, PiLabels
  <2> QED
    BY <2>1, <2>2, <2>3
<1>6. ASSUME NEW p \in Procs, C!RevokeFails(p)
      PROVE  PiCommanded'
  <2>1. CASE C!End(p)
    BY <2>1, PiEndType
  <2>2. CASE \E label \in PiLabels : C!To(p, label)
    BY <2>2, PiToType
  <2>3. CASE ~ C!End(p) /\ ~ \E label \in PiLabels : C!To(p, label)
    BY <1>6, <2>3 DEF C!RevokeFails, PiLabels
  <2> QED
    BY <2>1, <2>2, <2>3
<1>7. ASSUME NEW p \in Procs, C!PersistDetach(p)
      PROVE  PiCommanded'
  <2>1. CASE C!End(p)
    BY <2>1, PiEndType
  <2>2. CASE \E label \in PiLabels : C!To(p, label)
    BY <2>2, PiToType
  <2>3. CASE ~ C!End(p) /\ ~ \E label \in PiLabels : C!To(p, label)
    BY <1>7, <2>3 DEF C!PersistDetach, PiLabels
  <2> QED
    BY <2>1, <2>2, <2>3
<1>8. ASSUME NEW p \in Procs, C!BeginSync(p)
      PROVE  PiCommanded'
  BY <1>8, PiBeginType DEF C!BeginSync, PiLabels
<1>9. ASSUME NEW p \in Procs, C!LockSync(p)
      PROVE  PiCommanded'
  <2>1. CASE C!End(p)
    BY <2>1, PiEndType
  <2>2. CASE ~ C!End(p)
    <3>1. [picmd[p] EXCEPT !.at = "resolve"] \in C!Commands
      BY DEF PiCommanded, C!Commands
    <3> QED
      BY <1>9, <2>2, <3>1, PiTakeType DEF C!LockSync
  <2> QED
    BY <2>1, <2>2
<1>10. ASSUME NEW p \in Procs, C!Resolve(p)
      PROVE  PiCommanded'
  <2>1. CASE C!End(p)
    BY <2>1, PiEndType
  <2>2. CASE \E label \in PiLabels : C!To(p, label)
    BY <2>2, PiToType
  <2>3. CASE ~ C!End(p) /\ ~ \E label \in PiLabels : C!To(p, label)
    BY <1>10, <2>3 DEF C!Resolve, C!Commands, PiLabels
  <2> QED
    BY <2>1, <2>2, <2>3
<1>11. ASSUME NEW p \in Procs, C!Provision(p)
      PROVE  PiCommanded'
  <2>1. CASE C!End(p)
    BY <2>1, PiEndType
  <2>2. CASE \E label \in PiLabels : C!To(p, label)
    BY <2>2, PiToType
  <2>3. CASE ~ C!End(p) /\ ~ \E label \in PiLabels : C!To(p, label)
    BY <1>11, <2>3 DEF C!Provision, PiLabels
  <2> QED
    BY <2>1, <2>2, <2>3
<1>12. ASSUME NEW p \in Procs, C!ProvisionFails(p)
      PROVE  PiCommanded'
  <2>1. CASE C!End(p)
    BY <2>1, PiEndType
  <2>2. CASE \E label \in PiLabels : C!To(p, label)
    BY <2>2, PiToType
  <2>3. CASE ~ C!End(p) /\ ~ \E label \in PiLabels : C!To(p, label)
    BY <1>12, <2>3 DEF C!ProvisionFails, PiLabels
  <2> QED
    BY <2>1, <2>2, <2>3
<1>13. ASSUME NEW p \in Procs, C!BeginConfigure(p)
      PROVE  PiCommanded'
  BY <1>13, PiBeginType DEF C!BeginConfigure, PiLabels
<1>14. ASSUME NEW p \in Procs, C!LockConfigure(p)
      PROVE  PiCommanded'
  <2>2. CASE C!End(p)
    BY <2>2, PiEndType
  <2>3. ASSUME NEW label \in {"purge", "clean"},
               label = "purge" <=> selection \in Codexes /\ picmd[p].provider \notin Codexes,
               recovery' = (recovery \/ label = "purge"),
               piLock = NoProc, piLock' = p,
               picmd' = [picmd EXCEPT ![p] = [picmd[p] EXCEPT !.at = label,
                                                !.previous = selection, !.had = loggedIn]]
        PROVE  PiCommanded'
    <3>1. [picmd[p] EXCEPT !.at = label, !.previous = selection, !.had = loggedIn] \in C!Commands
      BY PiReplacingType
    <3> QED
      BY <2>3, <3>1
  <2> QED
    BY <1>14, <2>2, <2>3, LockConfigureCases
<1>15. ASSUME NEW p \in Procs, C!Purge(p)
      PROVE  PiCommanded'
  <2>1. CASE C!End(p)
    BY <2>1, PiEndType
  <2>2. CASE \E label \in PiLabels : C!To(p, label)
    BY <2>2, PiToType
  <2>3. CASE ~ C!End(p) /\ ~ \E label \in PiLabels : C!To(p, label)
    BY <1>15, <2>3 DEF C!Purge, PiLabels
  <2> QED
    BY <2>1, <2>2, <2>3
<1>16. ASSUME NEW p \in Procs, C!Clean(p)
      PROVE  PiCommanded'
  <2>1. CASE C!End(p)
    BY <2>1, PiEndType
  <2>2. CASE \E label \in PiLabels : C!To(p, label)
    BY <2>2, PiToType
  <2>3. CASE ~ C!End(p) /\ ~ \E label \in PiLabels : C!To(p, label)
    BY <1>16, <2>3 DEF C!Clean, PiLabels
  <2> QED
    BY <2>1, <2>2, <2>3
<1>17. ASSUME NEW p \in Procs, C!SelectReplacement(p)
      PROVE  PiCommanded'
  <2>1. CASE C!End(p)
    BY <2>1, PiEndType
  <2>2. CASE \E label \in PiLabels : C!To(p, label)
    BY <2>2, PiToType
  <2>3. CASE ~ C!End(p) /\ ~ \E label \in PiLabels : C!To(p, label)
    BY <1>17, <2>3 DEF C!SelectReplacement, PiLabels
  <2> QED
    BY <2>1, <2>2, <2>3
<1>18. ASSUME NEW p \in Procs, C!Undo(p)
      PROVE  PiCommanded'
  <2>1. CASE C!End(p)
    BY <2>1, PiEndType
  <2>2. CASE \E label \in PiLabels : C!To(p, label)
    BY <2>2, PiToType
  <2>3. CASE ~ C!End(p) /\ ~ \E label \in PiLabels : C!To(p, label)
    BY <1>18, <2>3 DEF C!Undo, PiLabels
  <2> QED
    BY <2>1, <2>2, <2>3
<1>19. ASSUME NEW p \in Procs, C!RestoreAttachment(p)
      PROVE  PiCommanded'
  <2>1. CASE C!End(p)
    BY <2>1, PiEndType
  <2>2. CASE \E label \in PiLabels : C!To(p, label)
    BY <2>2, PiToType
  <2>3. CASE ~ C!End(p) /\ ~ \E label \in PiLabels : C!To(p, label)
    BY <1>19, <2>3 DEF C!RestoreAttachment, PiLabels
  <2> QED
    BY <2>1, <2>2, <2>3
<1>20. ASSUME NEW p \in Procs, C!BeginLogin(p)
      PROVE  PiCommanded'
  BY <1>20, PiBeginType DEF C!BeginLogin, PiLabels
<1>21. ASSUME NEW p \in Procs, C!LockLogin(p)
      PROVE  PiCommanded'
  <2>1. CASE C!End(p)
    BY <2>1, PiEndType
  <2>2. CASE ~ C!End(p)
    <3>1. [picmd[p] EXCEPT !.at = "native"] \in C!Commands
      BY DEF PiCommanded, C!Commands
    <3> QED
      BY <1>21, <2>2, <3>1, PiTakeType DEF C!LockLogin
  <2> QED
    BY <2>1, <2>2
<1>22. ASSUME NEW p \in Procs, C!NativeLogin(p)
      PROVE  PiCommanded'
  <2>1. CASE C!End(p)
    BY <2>1, PiEndType
  <2>2. CASE \E label \in PiLabels : C!To(p, label)
    BY <2>2, PiToType
  <2>3. CASE ~ C!End(p) /\ ~ \E label \in PiLabels : C!To(p, label)
    BY <1>22, <2>3 DEF C!NativeLogin, PiLabels
  <2> QED
    BY <2>1, <2>2, <2>3
<1>23. ASSUME NEW p \in Procs, C!VerifyLogin(p)
      PROVE  PiCommanded'
  <2>1. CASE C!End(p)
    BY <2>1, PiEndType
  <2>2. CASE \E label \in PiLabels : C!To(p, label)
    BY <2>2, PiToType
  <2>3. CASE ~ C!End(p) /\ ~ \E label \in PiLabels : C!To(p, label)
    BY <1>23, <2>3 DEF C!VerifyLogin, PiLabels
  <2> QED
    BY <2>1, <2>2, <2>3
<1>24. ASSUME NEW p \in Procs, C!BeginInference(p)
      PROVE  PiCommanded'
  BY <1>24, PiBeginType DEF C!BeginInference, PiLabels
<1>25. ASSUME NEW p \in Procs, C!LockInference(p)
      PROVE  PiCommanded'
  <2>1. CASE C!End(p)
    BY <2>1, PiEndType
  <2>2. CASE ~ C!End(p)
    <3>1. [picmd[p] EXCEPT !.at = "infer"] \in C!Commands
      BY DEF PiCommanded, C!Commands
    <3> QED
      BY <1>25, <2>2, <3>1, PiTakeType DEF C!LockInference
  <2> QED
    BY <2>1, <2>2
<1>26. ASSUME NEW p \in Procs, C!InferenceEnds(p)
      PROVE  PiCommanded'
  <2>1. CASE C!End(p)
    BY <2>1, PiEndType
  <2>2. CASE \E label \in PiLabels : C!To(p, label)
    BY <2>2, PiToType
  <2>3. CASE ~ C!End(p) /\ ~ \E label \in PiLabels : C!To(p, label)
    BY <1>26, <2>3 DEF C!InferenceEnds, PiLabels
  <2> QED
    BY <2>1, <2>2, <2>3
<1>27. ASSUME NEW p \in Procs, C!JobEnds(p)
      PROVE  PiCommanded'
  BY <1>27 DEF C!JobEnds
<1>28. ASSUME NEW p \in Procs, C!Stop(p)
      PROVE  PiCommanded'
  <2>1. CASE C!End(p)
    BY <2>1, PiEndType
  <2>2. CASE \E label \in PiLabels : C!To(p, label)
    BY <2>2, PiToType
  <2>3. CASE ~ C!End(p) /\ ~ \E label \in PiLabels : C!To(p, label)
    BY <1>28, <2>3 DEF C!Stop, PiLabels
  <2> QED
    BY <2>1, <2>2, <2>3
<1>29. CASE UNCHANGED C!vars
  BY <1>29
<1> HIDE DEF PiCommanded, C!vars
<1> QED
  BY <1>1, <1>2, <1>3, <1>4, <1>5, <1>6, <1>7, <1>8, <1>9, <1>10, <1>11, <1>12, <1>13,
     <1>14, <1>15, <1>16, <1>17, <1>18, <1>19, <1>20, <1>21, <1>22, <1>23, <1>24,
     <1>25, <1>26, <1>27, <1>28, <1>29 DEF C!Next

LEMMA NextPiFiles == PiInv /\ [C!Next]_C!vars => PiFiles'
<1> SUFFICES ASSUME PiInv, [C!Next]_C!vars
             PROVE  PiFiles'
  OBVIOUS
<1>0. /\ C!TypeOK /\ PiKnown /\ PiHeld
  BY DEF PiInv
<1> USE <1>0, PiDistinct DEF C!TypeOK, PiFiles, PiKnown, PiHeld, C!Unlocked, C!On,
C!vars, C!Commands, C!local, C!remote, C!history, C!Idle
<1>1. ASSUME NEW p \in Procs, C!BeginAttach(p)
      PROVE  PiFiles'
  BY <1>1 DEF C!BeginAttach, C!Begin
<1>2. ASSUME NEW p \in Procs, C!WriteAttachment(p)
      PROVE  PiFiles'
  BY <1>2 DEF C!WriteAttachment, C!Select, C!End
<1>3. ASSUME NEW p \in Procs, C!BeginDetach(p)
      PROVE  PiFiles'
  BY <1>3 DEF C!BeginDetach, C!Begin
<1>4. ASSUME NEW p \in Procs, C!LockDetach(p)
      PROVE  PiFiles'
  BY <1>4 DEF C!LockDetach, C!Take, C!End
<1>5. ASSUME NEW p \in Procs, C!RevokeDetached(p)
      PROVE  PiFiles'
  BY <1>5 DEF C!RevokeDetached, C!RevokeLogin, C!RevokeAll, C!To
<1>6. ASSUME NEW p \in Procs, C!RevokeFails(p)
      PROVE  PiFiles'
  BY <1>6 DEF C!RevokeFails, C!RevokeSome, C!End
<1>7. ASSUME NEW p \in Procs, C!PersistDetach(p)
      PROVE  PiFiles'
  <2>1. picmd[p].provider \in C!Providers
    BY <1>7 DEF C!PersistDetach
  <2>2. /\ revoked' \subseteq C!Providers
        /\ piLock' \in Procs \cup {NoProc}
    BY <1>7, <2>1 DEF C!PersistDetach, C!End
  <2>3. UNCHANGED <<recovery, environment, awsHome, oauth, jobs, pibegun>>
    BY <1>7 DEF C!PersistDetach
  <2>4. selection' = NoProvider /\ loggedIn' = FALSE /\ dropped' = FALSE
    BY <1>7 DEF C!PersistDetach
  <2> QED
    BY <2>2, <2>3, <2>4
<1>8. ASSUME NEW p \in Procs, C!BeginSync(p)
      PROVE  PiFiles'
  BY <1>8 DEF C!BeginSync, C!Begin
<1>9. ASSUME NEW p \in Procs, C!LockSync(p)
      PROVE  PiFiles'
  BY <1>9 DEF C!LockSync, C!Take
<1>10. ASSUME NEW p \in Procs, C!Resolve(p)
      PROVE  PiFiles'
  BY <1>10 DEF C!Resolve, C!End, C!To
<1>11. ASSUME NEW p \in Procs, C!Provision(p)
      PROVE  PiFiles'
  BY <1>11 DEF C!Provision, C!Provisioned, C!End
<1>12. ASSUME NEW p \in Procs, C!ProvisionFails(p)
      PROVE  PiFiles'
  BY <1>12 DEF C!ProvisionFails, C!Provisioned, C!ProvisionedPartly, C!End, C!To
<1>13. ASSUME NEW p \in Procs, C!BeginConfigure(p)
      PROVE  PiFiles'
  BY <1>13 DEF C!BeginConfigure, C!Begin
<1>14. ASSUME NEW p \in Procs, C!LockConfigure(p)
      PROVE  PiFiles'
  <2>1. UNCHANGED <<selection, environment, awsHome, oauth, loggedIn, dropped, revoked, jobs,
                    pibegun>>
    BY <1>14 DEF C!LockConfigure
  <2>2. recovery' \in BOOLEAN
    BY <1>14, LockConfigureCases
  <2>3. piLock' \in Procs \cup {NoProc}
    BY <1>14, LockConfigureCases DEF C!End
  <2> QED
    BY <2>1, <2>2, <2>3
<1>15. ASSUME NEW p \in Procs, C!Purge(p)
      PROVE  PiFiles'
  BY <1>15 DEF C!Purge, C!RevokeLogin, C!To
<1>16. ASSUME NEW p \in Procs, C!Clean(p)
      PROVE  PiFiles'
  BY <1>16 DEF C!Clean, C!RevokeAll, C!RevokeSome, C!To, C!End
<1>17. ASSUME NEW p \in Procs, C!SelectReplacement(p)
      PROVE  PiFiles'
  BY <1>17 DEF C!SelectReplacement, C!Select, C!LeavesCodex, C!To
<1>18. ASSUME NEW p \in Procs, C!Undo(p)
      PROVE  PiFiles'
  BY <1>18 DEF C!Undo, C!RevokeAll, C!RevokeSome, C!LeavesCodex, C!To, C!End
<1>19. ASSUME NEW p \in Procs, C!RestoreAttachment(p)
      PROVE  PiFiles'
  BY <1>19 DEF C!RestoreAttachment, C!Select, C!LeavesCodex, C!End
<1>20. ASSUME NEW p \in Procs, C!BeginLogin(p)
      PROVE  PiFiles'
  BY <1>20 DEF C!BeginLogin, C!Begin
<1>21. ASSUME NEW p \in Procs, C!LockLogin(p)
      PROVE  PiFiles'
  BY <1>21 DEF C!LockLogin, C!Take, C!End
<1>22. ASSUME NEW p \in Procs, C!NativeLogin(p)
      PROVE  PiFiles'
  BY <1>22 DEF C!NativeLogin, C!To
<1>23. ASSUME NEW p \in Procs, C!VerifyLogin(p)
      PROVE  PiFiles'
  BY <1>23 DEF C!VerifyLogin, C!End
<1>24. ASSUME NEW p \in Procs, C!BeginInference(p)
      PROVE  PiFiles'
  BY <1>24 DEF C!BeginInference, C!Begin
<1>25. ASSUME NEW p \in Procs, C!LockInference(p)
      PROVE  PiFiles'
  BY <1>25 DEF C!LockInference, C!Take, C!End
<1>26. ASSUME NEW p \in Procs, C!InferenceEnds(p)
      PROVE  PiFiles'
  BY <1>26 DEF C!InferenceEnds, C!End
<1>27. ASSUME NEW p \in Procs, C!JobEnds(p)
      PROVE  PiFiles'
  BY <1>27 DEF C!JobEnds
<1>28. ASSUME NEW p \in Procs, C!Stop(p)
      PROVE  PiFiles'
  BY <1>28 DEF C!Stop, C!End
<1>29. CASE UNCHANGED C!vars
  BY <1>29
<1> HIDE DEF C!TypeOK, PiFiles, PiKnown, PiHeld, C!Unlocked, C!On, C!vars, C!Commands,
C!local, C!remote, C!history, C!Idle
<1> QED
  BY <1>1, <1>2, <1>3, <1>4, <1>5, <1>6, <1>7, <1>8, <1>9, <1>10, <1>11, <1>12, <1>13,
     <1>14, <1>15, <1>16, <1>17, <1>18, <1>19, <1>20, <1>21, <1>22, <1>23, <1>24,
     <1>25, <1>26, <1>27, <1>28, <1>29 DEF C!Next

LEMMA InitPiInv == C!Init => PiInv
<1> SUFFICES ASSUME C!Init
             PROVE  PiInv
  OBVIOUS
<1> USE PiDistinct DEF C!Init
<1>1. PiFiles
  <2>1. {recovery, oauth, loggedIn, dropped} \subseteq BOOLEAN
    OBVIOUS
  <2>2. pibegun \in 0 .. MaxPiCommands
    OBVIOUS
  <2> QED
    BY <2>1, <2>2 DEF PiFiles
<1>2. PiCommanded
  BY DEF PiCommanded, C!Idle, C!Commands
<1>3. C!TypeOK
  BY <1>1, <1>2 DEF C!TypeOK, PiFiles, PiCommanded
<1>4. PiHeld
  BY DEF PiHeld, C!Idle, C!Unlocked
<1>5. PiKnown
  BY DEF PiKnown, C!Idle
<1>6. PiRevoked
  BY DEF PiRevoked, C!NoneResurrected, C!Idle
<1>7. PiMarked
  BY DEF PiMarked, C!Idle, C!Providers
<1> QED
  BY <1>3, <1>4, <1>5, <1>6, <1>7 DEF PiInv

LEMMA NextPiInv == PiInv /\ [C!Next]_C!vars => PiInv'
<1> SUFFICES ASSUME PiInv, [C!Next]_C!vars
             PROVE  PiInv'
  OBVIOUS
<1>1. PiFiles' /\ PiCommanded'
  BY NextPiFiles, NextPiCommands
<1>2. PiHeld' /\ PiKnown' /\ PiRevoked' /\ PiMarked'
  BY NextPiHeld, NextPiKnown, NextPiRevoked, NextPiMarked
<1>3. C!TypeOK'
  BY <1>1, <1>2 DEF C!TypeOK, PiFiles, PiCommanded, PiHeld
<1> QED
  BY <1>2, <1>3 DEF PiInv

(***************************************************************************)
(* The composition.  A behaviour runs one part; the registries stand still *)
(* in an initial state while another runs.                                 *)
(***************************************************************************)
MCInv ==
  /\ RgInv
  /\ focus = "providers" => PvInv
  /\ focus = "pi" => PiInv

LEMMA InitInv == MCInit => MCInv
<1> SUFFICES ASSUME MCInit
             PROVE  MCInv
  OBVIOUS
<1>1. CASE focus = "registries" /\ (Init \/ AfterCreate)
  BY <1>1, InitRgInv, AfterCreateRgInv DEF MCInv
<1>2. CASE focus = "providers" /\ Init /\ P!Init
  BY <1>2, InitRgInv, InitPvInv DEF MCInv
<1>3. CASE focus = "pi" /\ Init /\ C!Init
  BY <1>3, InitRgInv, InitPiInv DEF MCInv
<1> QED
  BY <1>1, <1>2, <1>3 DEF MCInit, RegistriesStill

LEMMA NextInv == MCInv /\ [MCNext]_all => MCInv'
<1> SUFFICES ASSUME MCInv, [MCNext]_all
             PROVE  MCInv'
  OBVIOUS
<1>1. focus' = focus
  BY DEF MCNext, all
<1>2. [Next]_vars
  BY DEF MCNext, all
<1>3. RgInv'
  BY <1>2, NextRgInv DEF MCInv
<1>4. focus = "providers" => PvInv'
  <2>1. focus = "providers" => [P!Next]_P!vars
    BY DEF MCNext, all, providersVars, P!vars
  <2> QED
    BY <2>1, NextPvInv DEF MCInv
<1>5. focus = "pi" => PiInv'
  <2>1. focus = "pi" => [C!Next]_C!vars
    BY DEF MCNext, all, piVars, C!vars
  <2> QED
    BY <2>1, NextPiInv DEF MCInv
<1> QED
  BY <1>1, <1>3, <1>4, <1>5 DEF MCInv

\* The invariant of the three parts holds in every reachable state.
THEOREM Invariance == MCSpec => []MCInv
<1> QED
  BY InitInv, NextInv, PTL DEF MCSpec

\* integrations.json, channels.json and hosts.json, the commands of the registries and
\* those of a pi agent stay within their types, whatever runs at once.
THEOREM TypesCorrect == MCSpec => []TypesOK
<1>1. MCInv => TypesOK
  BY DEF MCInv, TypesOK, RgInv, PvInv, PiInv
<1> QED
  BY <1>1, Invariance, PTL

\* However many commands attach at once, an agent refers to one integration of a singleton
\* type at most, and its list of providers is one its renderer accepts.
THEOREM AttachmentsKept == MCSpec => []AttachmentsValid
<1>1. MCInv => AttachmentsValid
  BY OneIsOnce DEF MCInv, AttachmentsValid, PvInv
<1> QED
  BY <1>1, Invariance, PTL

\* A rotation that ends without a failed sync has given the new credentials to every agent
\* it listed that is still attached, unless another command wrote them after it.
THEOREM RotationsComplete == MCSpec => []RotationComplete
<1>1. RgInv => RotationComplete
  <2> SUFFICES ASSUME RgRotating, NEW p \in Procs, On(p, "sync"), cmd[p].agents = {},
                      ~ cmd[p].failed, ~ cmd[p].overtaken
               PROVE  cmd[p].listed \X {cmd[p].name} \subseteq fresh
    BY DEF RgInv, RotationComplete
  <2>1. cmd[p].listed \ cmd[p].agents = cmd[p].listed
    OBVIOUS
  <2> QED
    BY <2>1 DEF RgRotating, On
<1> QED
  BY <1>1, Invariance, PTL DEF MCInv

\* A create never finds credentials of an earlier registration of its name: those under a
\* name are of the present one, about to be cleared, or known to be left over.
THEOREM CredentialsKept == MCSpec => []CredentialsOwned
<1>1. MCInv => CredentialsOwned
  BY DEF MCInv, CredentialsOwned, RgInv, RgInherited, PvInv
<1> QED
  BY <1>1, Invariance, PTL

\* A pi agent that has lost the login of the Codex provider it selects is marked for a new
\* one in hosts.json, and no command takes the login away while an inference uses it.
THEOREM LoginsKept == MCSpec => []LoginKept
<1>1. PiInv => C!GateClosed /\ C!InferenceKeepsLogin
  BY DEF PiInv, PiMarked, C!GateClosed, C!InferenceKeepsLogin, C!TypeOK
<1> QED
  BY <1>1, Invariance, PTL DEF MCInv, LoginKept

\* Nothing of a provider detached from a pi agent is brought back to its host, whatever sync,
\* configure or login runs at the same time.
THEOREM NothingResurrected == MCSpec => []NoneResurrected
<1>1. PiInv => C!NoneResurrected
  BY DEF PiInv, PiRevoked
<1> QED
  BY <1>1, Invariance, PTL DEF MCInv, NoneResurrected
=============================================================================
