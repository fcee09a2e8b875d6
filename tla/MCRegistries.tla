------------------------------ MODULE MCRegistries ------------------------------
(***************************************************************************)
(* Registries, Providers and PiCredentials in one run of TLC.  Nothing     *)
(* they keep is shared, so each behaviour runs one of the three: `focus`   *)
(* says which, and the run visits the sum of the three state spaces.       *)
(***************************************************************************)
EXTENDS Registries, TLC

CONSTANTS p1, p2, n1, n2, a1, k1, k2,
          Hermes, Singles, Claudes, MaxProviders, MaxProviderCommands,
          OpenRouters, Bedrocks, Codexes, NoProvider, MaxPiCommands

VARIABLES focus,
          records, creds, providers, pcmd, pbegun, pmade, orphaned,
          selection, recovery, environment, awsHome, oauth, piLock, picmd, jobs, pibegun,
          loggedIn, dropped, revoked

P == INSTANCE Providers WITH MaxRegs <- MaxProviders, MaxCommands <- MaxProviderCommands
C == INSTANCE PiCredentials WITH MaxCommands <- MaxPiCommands

\* MaxRegs is what a behaviour that begins after a create needs.
ASSUME MCAssumption == P!ProvidersAssumption /\ C!PiAssumption /\ MaxRegs > 0

providersVars == <<records, creds, providers, pcmd, pbegun, pmade, orphaned>>
piVars == <<selection, recovery, environment, awsHome, oauth, piLock, picmd, jobs, pibegun,
            loggedIn, dropped, revoked>>
all == <<vars, providersVars, piVars, focus>>

\* A behaviour of Registries begins with nothing, or after a create that has run by itself.
AfterCreate ==
  /\ kind \in Kinds
  /\ \E n \in Names, t \in Types :
       /\ kind = "channel" => t = "plain"
       /\ registry = [m \in Names |-> IF m = n THEN [type |-> t, reg |-> 1] ELSE Absent]
       /\ keys = [m \in Names |-> [k \in Keys |-> IF m = n THEN 1 ELSE NoReg]]
  /\ attached = [a \in Agents |-> {}]
  /\ holder = NoProc /\ fresh = {} /\ cmd = [p \in Procs |-> Idle]
  /\ begun = 0 /\ made = 1
  /\ gone = {} /\ forcedOff = {} /\ late = {}

\* The parts that are not run: Registries stands still in its initial state, the others have
\* no state.
RegistriesStill == Init /\ kind = "channel"
NoProviders ==
  /\ records = <<>> /\ creds = <<>> /\ providers = <<>> /\ pcmd = <<>> /\ pbegun = <<>>
  /\ pmade = <<>> /\ orphaned = <<>>
NoPi ==
  /\ selection = <<>> /\ recovery = <<>> /\ environment = <<>> /\ awsHome = <<>>
  /\ oauth = <<>> /\ piLock = <<>> /\ picmd = <<>> /\ jobs = <<>> /\ pibegun = <<>>
  /\ loggedIn = <<>> /\ dropped = <<>> /\ revoked = <<>>
MCInit ==
  \/ focus = "registries" /\ (Init \/ AfterCreate) /\ NoProviders /\ NoPi
  \/ focus = "providers" /\ RegistriesStill /\ P!Init /\ NoPi
  \/ focus = "pi" /\ RegistriesStill /\ NoProviders /\ C!Init
MCNext ==
  /\ UNCHANGED focus
  /\ \/ focus = "registries" /\ Next /\ UNCHANGED <<providersVars, piVars>>
     \/ focus = "providers" /\ P!Next /\ UNCHANGED <<vars, piVars>>
     \/ focus = "pi" /\ C!Next /\ UNCHANGED <<vars, providersVars>>
MCSpec == MCInit /\ [][MCNext]_all

Symmetry == Permutations(Procs) \cup Permutations(Names) \cup Permutations(Agents)
              \cup Permutations(Keys)

\* The type invariants of the three parts.
TypesOK ==
  /\ TypeOK
  /\ focus = "providers" => P!TypeOK
  /\ focus = "pi" => C!TypeOK

\* SingletonOnce of Registries and Providers!ListsValid: whoever attaches and detaches at
\* once, an agent has what its renderer accepts, one integration of a singleton type and a
\* valid list of providers.
AttachmentsValid == SingletonOnce /\ (focus = "providers" => P!ListsValid)
\* NothingInherited of Registries and Providers!CredentialsOwned: no registration finds
\* credentials of an earlier one of its name; those of a provider are of the present one,
\* about to be cleared, or what a removal is known to leave.
CredentialsOwned == NothingInherited /\ (focus = "providers" => P!CredentialsOwned)
\* PiCredentials!NoneResurrected: nothing of a detached provider comes back to the host.
NoneResurrected == focus = "pi" => C!NoneResurrected
\* PiCredentials!GateClosed and PiCredentials!InferenceKeepsLogin: a Codex selection that
\* lost its login says so in hosts.json, and none loses it while an inference lasts.
LoginKept == focus = "pi" => C!GateClosed /\ C!InferenceKeepsLogin
=============================================================================
