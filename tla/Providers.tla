------------------------------- MODULE Providers -------------------------------
(***************************************************************************)
(* The registry of providers (providers.json), the credential each has in  *)
(* secrets.json under its name, and which agents use it (the `providers`   *)
(* list of an agent in hosts.json).                                        *)
(*                                                                         *)
(* Unlike the registries of Registries, a removal takes the record out     *)
(* first and the credential after it, asks nobody whether the provider is  *)
(* in use, and attach and detach write the whole list they read before     *)
(* they took the lock.                                                     *)
(***************************************************************************)
EXTENDS Naturals, FiniteSets

CONSTANTS
  Procs,       \* processes: clawctl commands and request handlers of the GUI
  Names,       \* names a provider may be registered under
  NoName,      \* the name of no provider
  Hermes,      \* agents of type hermes: several providers, each with a role
  Singles,     \* agents with one provider (openclaw, zeroclaw, ...)
  Claudes,     \* agents of type claude: one, and a login imported with it
  MaxRegs,     \* bound: registrations ever made
  MaxCommands  \* bound: commands ever begun

AllAgents == Hermes \cup Singles \cup Claudes
\* What a provider of a type keeps in secrets.json: nothing (ollama, the OAuth types,
\* bedrock with SSO), an API key, or a pair of AWS keys (bedrock).
Types == {"keyless", "cloud", "bedrock"}
Slots == {"api", "aws"}
SlotsOf(t) == CASE t = "cloud" -> {"api"} [] t = "bedrock" -> {"aws"} [] OTHER -> {}
Roles == {"primary", "vision"}
NoReg == 0
Regs == 1 .. MaxRegs
Absent == [type |-> "none", reg |-> NoReg]

\* An agent has one type.
ProvidersAssumption ==
  /\ MaxRegs \in Nat /\ MaxCommands \in Nat
  /\ NoName \notin Names
  /\ Hermes \cap (Singles \cup Claudes) = {} /\ Singles \cap Claudes = {}

VARIABLES
  records,    \* records[n]: the record of n, with the registration that made it
  creds,      \* creds[n][s]: the registration credential s of n was written for, or NoReg
  providers,  \* providers[a]: the list of agent a, entries with a name and a role
  pcmd,       \* pcmd[p]: the command process p runs
  pbegun,     \* commands begun (bounded by MaxCommands)
  pmade,      \* registrations made (bounded by MaxRegs)
  orphaned    \* history: names whose removal left a credential, or that had one
              \* written for a registration that was over

vars == <<records, creds, providers, pcmd, pbegun, pmade, orphaned>>

Entry(n, r) == [name |-> n, role |-> r]
Entries == [name : Names, role : Roles \cup {"only"}]
Idle == [op |-> "none", at |-> "idle", via |-> "cli", name |-> NoName, type |-> "none",
         reg |-> NoReg, slots |-> {}, agents |-> {}, list |-> {}, before |-> {}]

Commands == [op : {"none", "create", "edit", "delete", "attach", "detach", "claude"},
             at : {"idle", "add", "store", "rollback", "update", "drop", "clear", "write",
                   "import", "restore"},
             via : {"cli", "gui"}, name : Names \cup {NoName}, type : Types \cup {"none"},
             reg : Regs \cup {NoReg}, slots : SUBSET Slots, agents : SUBSET AllAgents,
             list : SUBSET Entries, before : SUBSET Entries]

TypeOK ==
  /\ records \in [Names -> [type : Types, reg : Regs] \cup {Absent}]
  /\ creds \in [Names -> [Slots -> Regs \cup {NoReg}]]
  /\ \A a \in AllAgents : providers[a] \subseteq Entries
  /\ \A n \in Names, m \in Names : records[n].reg = records[m].reg => n = m \/ records[n] = Absent
  /\ pcmd \in [Procs -> Commands]
  /\ pbegun \in 0 .. MaxCommands /\ pmade \in 0 .. MaxRegs
  /\ orphaned \subseteq Names

NoCreds == [s \in Slots |-> NoReg]
Registered(n) == records[n] # Absent

Init ==
  /\ records = [n \in Names |-> Absent]
  /\ creds = [n \in Names |-> NoCreds]
  /\ providers = [a \in AllAgents |-> {}]
  /\ pcmd = [p \in Procs |-> Idle]
  /\ pbegun = 0 /\ pmade = 0
  /\ orphaned = {}

(***************************************************************************)
(* Steps of a process.                                                     *)
(***************************************************************************)
On(p, label) == pcmd[p].at = label
To(p, label) == pcmd' = [pcmd EXCEPT ![p].at = label]
Done(p) == pcmd' = [pcmd EXCEPT ![p] = Idle]
Begin(p, c) ==
  /\ On(p, "idle") /\ pbegun < MaxCommands
  /\ pbegun' = pbegun + 1
  /\ pcmd' = [pcmd EXCEPT ![p] = c]
  /\ UNCHANGED <<records, creds, providers, pmade, orphaned>>

\* A removal that ends here leaves the credentials there are.
Left(n) == IF creds[n] # NoCreds THEN orphaned \cup {n} ELSE orphaned

\* A command is interrupted or killed, or what it does next fails and it says so.
Stop(p) ==
  /\ ~ On(p, "idle") /\ ~ On(p, "restore")
  /\ Done(p)
  /\ orphaned' = IF On(p, "clear") THEN Left(pcmd[p].name) ELSE orphaned
  /\ UNCHANGED <<records, creds, providers, pbegun, pmade>>

(***************************************************************************)
(* Create: the record, then the credential its type has.  The GUI takes an *)
(* API key or none whatever the type is, and when it cannot store it,      *)
(* removes the record of that name again.                                  *)
(***************************************************************************)
BeginCreate(p) ==
  \E n \in Names, t \in Types :
    /\ ~ Registered(n)
    /\ Begin(p, [Idle EXCEPT !.op = "create", !.at = "add", !.name = n, !.type = t,
                             !.slots = SlotsOf(t)])
BeginCreateInGui(p) ==
  \E n \in Names, t \in Types, ss \in {{}, {"api"}} :
    Begin(p, [Idle EXCEPT !.op = "create", !.at = "add", !.via = "gui", !.name = n, !.type = t,
                          !.slots = IF t = "bedrock" THEN {"aws"} ELSE ss])

\* add_provider: under the registry's lock, refused when the name is taken.
AddProvider(p) ==
  /\ On(p, "add") /\ pmade < MaxRegs
  /\ IF Registered(pcmd[p].name)
     THEN Done(p) /\ UNCHANGED <<records, pmade>>
     ELSE /\ pmade' = pmade + 1
          /\ records' = [records EXCEPT ![pcmd[p].name] =
                           [type |-> pcmd[p].type, reg |-> pmade + 1]]
          /\ pcmd' = [pcmd EXCEPT ![p].at = "store", ![p].reg = pmade + 1]
  /\ UNCHANGED <<creds, providers, pbegun, orphaned>>

StoreCredential(p) ==
  /\ On(p, "store")
  /\ creds' = [creds EXCEPT ![pcmd[p].name] =
                 [s \in Slots |-> IF s \in pcmd[p].slots THEN pcmd[p].reg ELSE @[s]]]
  /\ orphaned' = IF pcmd[p].slots # {} /\ records[pcmd[p].name].reg # pcmd[p].reg
                 THEN orphaned \cup {pcmd[p].name} ELSE orphaned
  /\ Done(p)
  /\ UNCHANGED <<records, providers, pbegun, pmade>>

StoreFails(p) ==
  /\ On(p, "store") /\ pcmd[p].via = "gui" /\ pcmd[p].op = "create" /\ pcmd[p].slots # {}
  /\ To(p, "rollback")
  /\ UNCHANGED <<records, creds, providers, pbegun, pmade, orphaned>>
Rollback(p) ==
  /\ On(p, "rollback")
  /\ records' = [records EXCEPT ![pcmd[p].name] = Absent]
  /\ orphaned' = Left(pcmd[p].name)
  /\ Done(p)
  /\ UNCHANGED <<creds, providers, pbegun, pmade>>

(***************************************************************************)
(* Edit and the PUT of the GUI: the record when there is something to      *)
(* change in it, then the credential.  The command line gives up when the  *)
(* record has gone, the GUI does not look.                                 *)
(***************************************************************************)
BeginEdit(p) ==
  \E n \in Names :
    /\ Registered(n)
    /\ Begin(p, [Idle EXCEPT !.op = "edit", !.at = "update", !.name = n,
                             !.slots = SlotsOf(records[n].type)])
UpdateProvider(p) ==
  /\ On(p, "update")
  /\ IF Registered(pcmd[p].name)
     THEN pcmd' = [pcmd EXCEPT ![p].at = "store", ![p].reg = records[pcmd[p].name].reg]
     ELSE Done(p)
  /\ UNCHANGED <<records, creds, providers, pbegun, pmade, orphaned>>
BeginPut(p) ==
  \E n \in Names :
    /\ Registered(n)
    /\ Begin(p, [Idle EXCEPT !.op = "edit", !.at = "store", !.via = "gui", !.name = n,
                             !.reg = records[n].reg,
                             !.slots = IF records[n].type = "bedrock" THEN {"aws"} ELSE {"api"}])
\* The empty API key of a PUT clears the one there is.
PutClears(n) ==
  /\ Registered(n) /\ records[n].type # "bedrock"
  /\ creds' = [creds EXCEPT ![n]["api"] = NoReg]
  /\ UNCHANGED <<records, providers, pcmd, pbegun, pmade, orphaned>>

(***************************************************************************)
(* Delete: the record, then the credential of the type it had when it was  *)
(* looked up; the GUI clears both kinds.  An agent keeps the name in its   *)
(* list.  `clawctl delete -f` with --cascade removes the record and        *)
(* nothing else.                                                           *)
(***************************************************************************)
BeginDelete(p) ==
  \E n \in Names, via \in {"cli", "gui"} :
    /\ Registered(n)
    /\ Begin(p, [Idle EXCEPT !.op = "delete", !.at = "drop", !.via = via, !.name = n,
                             !.slots = IF via = "gui" THEN Slots ELSE SlotsOf(records[n].type)])
RemoveProvider(p) ==
  /\ On(p, "drop")
  /\ IF ~ Registered(pcmd[p].name) /\ pcmd[p].via = "cli"
     THEN Done(p) /\ UNCHANGED records
     ELSE /\ records' = [records EXCEPT ![pcmd[p].name] = Absent]
          /\ To(p, "clear")
  /\ UNCHANGED <<creds, providers, pbegun, pmade, orphaned>>

Cleared(p) == [s \in Slots |-> IF s \in pcmd[p].slots THEN NoReg ELSE creds[pcmd[p].name][s]]
ClearCredential(p) ==
  /\ On(p, "clear")
  /\ creds' = [creds EXCEPT ![pcmd[p].name] = Cleared(p)]
  /\ orphaned' = IF Cleared(p) # NoCreds THEN orphaned \cup {pcmd[p].name} ELSE orphaned
  /\ Done(p)
  /\ UNCHANGED <<records, providers, pbegun, pmade>>
RemoveWithAgent(n) ==
  /\ Registered(n)
  /\ records' = [records EXCEPT ![n] = Absent]
  /\ orphaned' = Left(n)
  /\ UNCHANGED <<creds, providers, pcmd, pbegun, pmade>>

(***************************************************************************)
(* The list of an agent.                                                   *)
(***************************************************************************)
\* validate of core/provider_attachments.py.
One(list, r) == Cardinality({e \in list : e.role = r}) = 1
Valid(a, list) ==
  IF a \in Hermes
  THEN list = {} \/ (One(list, "primary") /\ \A r \in Roles : One(list, r) \/ \A e \in list : e.role # r)
  ELSE Cardinality(list) <= 1

Named(list, n) == {e \in list : e.name = n}
BeginAttach(p) ==
  \E n \in Names, a \in Hermes \cup Singles, r \in Roles \cup {"only"} :
    /\ Registered(n)
    /\ (r = "only") = (a \in Singles)
    /\ Named(providers[a], n) = {}
    /\ a \in Singles => providers[a] = {}
    /\ Valid(a, providers[a] \cup {Entry(n, r)})
    /\ Begin(p, [Idle EXCEPT !.op = "attach", !.at = "write", !.name = n, !.agents = {a},
                             !.list = providers[a] \cup {Entry(n, r)}])
\* The primary of a hermes agent is the last to go.
BeginDetach(p) ==
  \E n \in Names, a \in AllAgents : \E e \in Named(providers[a], n) :
    /\ a \in Hermes /\ e.role = "primary" => providers[a] = {e}
    /\ Registered(n)
    /\ Valid(a, providers[a] \ {e})
    /\ Begin(p, [Idle EXCEPT !.op = "detach", !.at = "write", !.name = n, !.agents = {a},
                             !.list = providers[a] \ {e}])

Write(p, list) ==
  providers' = [a \in AllAgents |-> IF a \in pcmd[p].agents THEN list ELSE providers[a]]
\* Mutant: only what the command adds or takes away is written, as the update finds the list.
SetMerged(p) ==
  /\ On(p, "write")
  /\ providers' = [a \in AllAgents |->
       IF a \notin pcmd[p].agents THEN providers[a]
       ELSE IF pcmd[p].op = "attach" THEN providers[a] \cup pcmd[p].list
       ELSE {e \in providers[a] : e.name # pcmd[p].name}]
  /\ Done(p)
  /\ UNCHANGED <<records, creds, pbegun, pmade, orphaned>>
\* _set_attachments: the whole list, as the command read and changed it.
SetAttachments(p) ==
  /\ On(p, "write")
  /\ Write(p, pcmd[p].list)
  /\ IF pcmd[p].op = "claude" THEN To(p, "import") ELSE Done(p)
  /\ UNCHANGED <<records, creds, pbegun, pmade, orphaned>>

(***************************************************************************)
(* Attach to a claude agent: the list first, then the local login is read, *)
(* which may ask the operator.  When that fails the list of before comes   *)
(* back, if it still is the one this command wrote.                        *)
(***************************************************************************)
BeginAttachClaude(p) ==
  \E n \in Names, a \in Claudes :
    /\ Registered(n) /\ records[n].type = "keyless"
    /\ providers[a] \in {{}, {Entry(n, "only")}}
    /\ Begin(p, [Idle EXCEPT !.op = "claude", !.name = n, !.agents = {a},
                             !.at = IF providers[a] = {} THEN "write" ELSE "import",
                             !.list = {Entry(n, "only")}, !.before = providers[a]])
Import(p) ==
  /\ On(p, "import")
  /\ Done(p)
  /\ UNCHANGED <<records, creds, providers, pbegun, pmade, orphaned>>
ImportFails(p) ==
  /\ On(p, "import")
  /\ IF pcmd[p].before = {} THEN To(p, "restore") ELSE Done(p)
  /\ UNCHANGED <<records, creds, providers, pbegun, pmade, orphaned>>
RestoreAttachment(p) ==
  /\ On(p, "restore")
  /\ \/ Write(p, pcmd[p].before) /\ \A a \in pcmd[p].agents : providers[a] = pcmd[p].list
     \/ UNCHANGED providers  \* changed meanwhile, or hosts.json cannot be written
  /\ Done(p)
  /\ UNCHANGED <<records, creds, pbegun, pmade, orphaned>>

Next ==
  \/ \E p \in Procs :
       \/ BeginCreate(p) \/ BeginCreateInGui(p) \/ AddProvider(p)
       \/ StoreCredential(p) \/ StoreFails(p) \/ Rollback(p)
       \/ BeginEdit(p) \/ UpdateProvider(p) \/ BeginPut(p)
       \/ BeginDelete(p) \/ RemoveProvider(p) \/ ClearCredential(p)
       \/ BeginAttach(p) \/ BeginDetach(p) \/ SetAttachments(p)
       \/ BeginAttachClaude(p) \/ Import(p) \/ ImportFails(p) \/ RestoreAttachment(p)
       \/ Stop(p)
  \/ \E n \in Names : PutClears(n) \/ RemoveWithAgent(n)

Spec == Init /\ [][Next]_vars

(***************************************************************************)
(* Properties.                                                             *)
(***************************************************************************)
\* Whoever attaches and detaches at once, every agent has a list the renderer accepts: a
\* hermes agent one primary and no role twice, another agent one provider at most.
ListsValid == \A a \in AllAgents : Valid(a, providers[a])

\* A credential under a name is of the name's present registration, is about to be cleared
\* by the command that removed the record, or is one a removal is known to leave.
CredentialsOwned ==
  \A n \in Names, s \in Slots :
    creds[n][s] # NoReg /\ creds[n][s] # records[n].reg =>
      \/ n \in orphaned
      \/ \E p \in Procs : On(p, "clear") /\ pcmd[p].name = n
=============================================================================
