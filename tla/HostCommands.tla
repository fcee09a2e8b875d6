----------------------------- MODULE HostCommands -----------------------------
(***************************************************************************)
(* The commands that register, rename, re-address and delete hosts         *)
(* (`clawctl host create | edit | address | delete` and the host part of   *)
(* `clawctl apply`), run by several processes at once.  A command reads    *)
(* hosts.json once or twice without the lock, may talk to the host for     *)
(* seconds, and then makes one locked call on hosts.json; the key          *)
(* directories keys/<key_id>/ are outside any lock.  Each call on          *)
(* hosts.json is one step here (AtomicStore).                              *)
(***************************************************************************)
EXTENDS Naturals, Sequences

CONSTANTS
  Procs,      \* processes running a command
  Addrs,      \* network names: hostnames, addresses and the key_ids made of them
  Aliases,    \* host aliases
  NoAlias,    \* a host without an alias, a command without --alias
  Null,       \* an argument a command does not have
  MaxHosts,   \* bound: records in hosts.json
  MaxAddrs,   \* bound: addresses of one host
  MaxCommands \* bound: commands begun

BoundsAssumption == {MaxHosts, MaxAddrs, MaxCommands} \subseteq Nat \ {0}
NamesAssumption ==
  /\ Addrs \cap Aliases = {}
  /\ NoAlias \notin Addrs \cup Aliases
  /\ Null \notin Addrs \cup Aliases

VARIABLES
  hosts,   \* hosts.json: a sequence of host records
  keys,    \* the key_ids whose keys/<key_id>/ directory holds a keypair
  cmd,     \* cmd[p]: the command process p is in, and how far it is
  mixed,   \* history: commands have overlapped, `apply` registered a host, or
           \* two hosts have had the same hostname
  begun    \* how many commands have begun (bounded by MaxCommands)

vars == <<hosts, keys, cmd, mixed, begun>>

Entries == [address : Addrs, primary : BOOLEAN]
HostRecords == [hostname : Addrs, key_id : Addrs, alias : Aliases \cup {NoAlias},
                addresses : Seq(Entries)]

LookupNames == Addrs \cup Aliases
Idle == [op |-> "none", step |-> "idle", host |-> Null, to |-> Null,
         alias |-> NoAlias, key |-> Null]

Ops   == {"none", "create", "rerecord", "apply", "rename", "realias",
          "add", "drop", "primary", "delete"}
OpSteps == {"idle", "check", "keypair", "commit", "dropkeys"}

Init ==
  /\ hosts = <<>>
  /\ keys = {}
  /\ cmd = [p \in Procs |-> Idle]
  /\ mixed = FALSE
  /\ begun = 0

-----------------------------------------------------------------------------
(***************************************************************************)
(* Looking a host up.                                                      *)
(***************************************************************************)
Least(S) == CHOOSE i \in S : \A j \in S : i <= j

\* Mutant: key_id is not looked at.
ResolvesByName(h, name) == name \in {h.hostname, h.alias}

\* get_host: the first record whose hostname, alias or key_id is the name.
Resolves(h, name) == name \in {h.hostname, h.alias, h.key_id}
Lookup(hs, name) ==
  IF name = NoAlias THEN {} ELSE {i \in DOMAIN hs : Resolves(hs[i], name)}
GetHost(hs, name) == hs[Least(Lookup(hs, name))]

\* The record update_host(hostname, ...) works on: the first with that hostname.
Named(hs, hostname) == {i \in DOMAIN hs : hs[i].hostname = hostname}

\* alias_exists(alias, exclude_hostname).
AliasTaken(hs, alias, except) ==
  \E i \in DOMAIN hs :
    /\ hs[i].hostname # except
    /\ alias \in {hs[i].hostname, hs[i].alias}

Positions(h, addr) == {k \in DOMAIN h.addresses : h.addresses[k].address = addr}
Primaries(h) == {k \in DOMAIN h.addresses : h.addresses[k].primary}

SharedHostname(hs) == \E i, j \in DOMAIN hs : i # j /\ hs[i].hostname = hs[j].hostname

NewHost(addr, alias) ==
  [hostname |-> addr, key_id |-> addr, alias |-> alias,
   addresses |-> <<[address |-> addr, primary |-> TRUE]>>]

-----------------------------------------------------------------------------
(***************************************************************************)
(* A command begins with its first read of hosts.json: what it was given   *)
(* on the command line (quantified in Next) is in no state before that.    *)
(* When the read or a later check refuses, the command never gets further: *)
(* the refusal changes nothing, so it is a Stop or no step at all.         *)
(***************************************************************************)
Begin(p, c) ==
  /\ cmd[p] = Idle
  /\ begun < MaxCommands
  /\ begun' = begun + 1
  /\ cmd' = [cmd EXCEPT ![p] = c]
  /\ mixed' = (mixed \/ \E q \in Procs : cmd[q] # Idle)
  /\ UNCHANGED <<hosts, keys>>

At(p, ops, step) == cmd[p].op \in ops /\ cmd[p].step = step
GoTo(p, step) == cmd' = [cmd EXCEPT ![p].step = step]
Done(p) == cmd' = [cmd EXCEPT ![p] = Idle]

\* The process dies between two steps, the operator interrupts it, or it stops
\* with an error that changes nothing (SSH verification fails, an updater
\* raises AddressError, a check refuses).
Stop(p) ==
  /\ cmd[p] # Idle
  /\ Done(p)
  /\ UNCHANGED <<hosts, keys, mixed, begun>>

-----------------------------------------------------------------------------
(***************************************************************************)
(* clawctl host create.                                                    *)
(***************************************************************************)
\* get_host(hostname) or get_host(alias) finds nobody: the host is new.
CreateNew(p, addr, alias) ==
  /\ Lookup(hosts, addr) \cup Lookup(hosts, alias) = {}
  /\ Begin(p, [Idle EXCEPT !.op = "create", !.step = "keypair", !.to = addr,
                           !.alias = alias, !.key = addr])

\* The alias names a host that is registered under another hostname: the record
\* is to be rewritten under its old key_id.  (Every other record found ends the
\* command: "already exists", or "registered with different settings".)
CreateAgain(p, addr, alias) ==
  LET found == IF Lookup(hosts, addr) # {} THEN addr ELSE alias
      existing == GetHost(hosts, found)
  IN
  /\ Lookup(hosts, found) # {}
  /\ existing.hostname # addr
  /\ existing.alias = alias
  /\ Begin(p, [Idle EXCEPT !.op = "rerecord", !.step = "keypair", !.to = addr,
                           !.host = existing.hostname, !.key = existing.key_id])

\* _ensure_host_keypair: use the keypair that is there, else generate one.  Then
\* _verify_xclm_access talks to the host, for as long as that takes.
EnsureKeypair(p) ==
  /\ At(p, {"create", "rerecord"}, "keypair")
  /\ keys' = keys \cup {cmd[p].key}
  /\ GoTo(p, "commit")
  /\ UNCHANGED <<hosts, mixed, begun>>

\* add_host: refused when the hostname is registered (DuplicateHostError).
AddHost(p) ==
  /\ At(p, {"create", "apply"}, "commit")
  /\ Len(hosts) < MaxHosts
  /\ hosts' = IF Named(hosts, cmd[p].to) = {}
                THEN Append(hosts, NewHost(cmd[p].to, cmd[p].alias))
                ELSE hosts
  /\ IF cmd[p].op = "apply" THEN GoTo(p, "keypair") ELSE Done(p)
  /\ mixed' = (mixed \/ cmd[p].op = "apply")
  /\ UNCHANGED <<keys, begun>>

\* The re-record: de-primary every address, make the new one primary (appended
\* when the host does not have it), and keep the key_id read at the lookup.
Rerecorded(h, c) ==
  LET others == [k \in DOMAIN h.addresses |->
                   [address |-> h.addresses[k].address,
                    primary |-> h.addresses[k].address = c.to]]
  IN [h EXCEPT !.hostname = c.to, !.key_id = c.key,
               !.addresses = IF Positions(h, c.to) # {} THEN others
                 ELSE Append(others, [address |-> c.to, primary |-> TRUE])]

-----------------------------------------------------------------------------
(***************************************************************************)
(* The host part of clawctl apply: the differ skips a host whose hostname  *)
(* or name is there, add_host registers it under its hostname as key_id,   *)
(* and a keypair is generated when the manifest says bootstrap (Stop is    *)
(* the manifest that does not).                                            *)
(***************************************************************************)
ApplyDiff(p, addr, alias) ==
  /\ \A i \in DOMAIN hosts :
       hosts[i].hostname # addr /\ (alias = NoAlias \/ hosts[i].alias # alias)
  /\ Begin(p, [Idle EXCEPT !.op = "apply", !.step = "commit", !.to = addr,
                           !.alias = alias])

ApplyKeypair(p) ==
  /\ At(p, {"apply"}, "keypair")
  /\ keys' = keys \cup {cmd[p].to}
  /\ Done(p)
  /\ UNCHANGED <<hosts, mixed, begun>>

-----------------------------------------------------------------------------
(***************************************************************************)
(* The commands on a registered host.                                      *)
(***************************************************************************)
\* safe_get_host, then hostname_key: from here on the command knows the host by
\* the hostname its record had at this moment (and its key_id, where it uses it).
FindHost(p, op, name, addr, alias) ==
  /\ Lookup(hosts, name) # {}
  /\ LET h == GetHost(hosts, name) IN
     Begin(p, [op |-> op, step |-> IF op = "delete" THEN "commit" ELSE "check",
               host |-> h.hostname, to |-> addr, alias |-> alias,
               key |-> IF op \in {"rename", "delete"} THEN h.key_id ELSE Null])

\* The second look before the write: edit refuses a hostname or an alias that
\* another host has; the address calls resolve the hostname once more.
CheckRename(p) ==
  /\ At(p, {"rename"}, "check")
  /\ cmd[p].to # cmd[p].host =>
       \A i \in Named(hosts, cmd[p].to) : hosts[i].key_id = cmd[p].key
  /\ cmd' = [cmd EXCEPT ![p].step = "commit", ![p].key = Null]
  /\ UNCHANGED <<hosts, keys, mixed, begun>>

CheckAlias(p) ==
  /\ At(p, {"realias"}, "check")
  /\ ~AliasTaken(hosts, cmd[p].alias, cmd[p].host)
  /\ GoTo(p, "commit")
  /\ UNCHANGED <<hosts, keys, mixed, begun>>

CheckAddress(p) ==
  /\ At(p, {"add", "drop", "primary"}, "check")
  /\ Lookup(hosts, cmd[p].host) # {}
  /\ cmd' = [cmd EXCEPT ![p].step = "commit",
                        ![p].host = GetHost(hosts, cmd[p].host).hostname]
  /\ UNCHANGED <<hosts, keys, mixed, begun>>

\* edit --hostname: the record and its first primary address take the new name.
Renamed(h, addr) ==
  IF addr = h.hostname THEN h
  ELSE [h EXCEPT !.hostname = addr,
                 !.addresses = IF Primaries(h) = {} THEN @
                   ELSE [@ EXCEPT ![Least(Primaries(h))].address = addr]]

\* Mutant: the primary address may be removed.
AcceptsPrimary(h, c) ==
  CASE c.op = "add"               -> Positions(h, c.to) = {}
    [] c.op \in {"drop", "primary"} -> Positions(h, c.to) # {}
    [] OTHER                      -> TRUE

\* address add, delete and set-primary: refused by the updater (an
\* AddressError) when the address is there, is not there, or is primary.
Accepts(h, c) ==
  CASE c.op = "add"     -> Positions(h, c.to) = {}
    [] c.op = "drop"    -> /\ Positions(h, c.to) # {}
                           /\ ~h.addresses[Least(Positions(h, c.to))].primary
    [] c.op = "primary" -> Positions(h, c.to) # {}
    [] OTHER            -> TRUE

Without(s, k) == [j \in 1 .. Len(s) - 1 |-> IF j < k THEN s[j] ELSE s[j + 1]]

Readdressed(h, c) ==
  CASE c.op = "add"  ->
         [h EXCEPT !.addresses = Append(@, [address |-> c.to, primary |-> FALSE])]
    [] c.op = "drop" ->
         [h EXCEPT !.addresses = Without(@, Least(Positions(h, c.to)))]
    [] c.op = "primary" ->
         [h EXCEPT !.hostname = c.to,
                   !.addresses = [k \in DOMAIN @ |->
                     [address |-> @[k].address, primary |-> @[k].address = c.to]]]

Updated(h, c) ==
  CASE c.op = "rerecord" -> Rerecorded(h, c)
    [] c.op = "rename"   -> Renamed(h, c.to)
    [] c.op = "realias"  -> [h EXCEPT !.alias = c.alias]
    [] OTHER             -> Readdressed(h, c)

\* update_host on the hostname read earlier: the first record that has it now
\* takes the change; when none has it, or the updater raises, the command ends
\* with an error (Stop).
UpdateHost(p) ==
  LET c == cmd[p] IN
  /\ At(p, {"rerecord", "rename", "realias", "add", "drop", "primary"}, "commit")
  /\ Named(hosts, c.host) # {}
  /\ LET i == Least(Named(hosts, c.host)) IN
       /\ Accepts(hosts[i], c)
       /\ Len(Updated(hosts[i], c).addresses) <= MaxAddrs
       /\ hosts' = [hosts EXCEPT ![i] = Updated(hosts[i], c)]
  /\ Done(p)
  /\ mixed' = (mixed \/ SharedHostname(hosts'))
  /\ UNCHANGED <<keys, begun>>

\* The numbers of S in increasing order: the only member of this set.
InOrder(S) ==
  {s \in UNION {[1 .. n -> S] : n \in 0 .. MaxHosts} :
     /\ \A j, k \in DOMAIN s : j < k => s[j] < s[k]
     /\ \A i \in S : \E j \in DOMAIN s : s[j] = i}

\* remove_host: every record with that hostname goes, the others stay in their order.
RemoveHost(p) ==
  /\ At(p, {"delete"}, "commit")
  /\ Named(hosts, cmd[p].host) # {}
  /\ \E left \in InOrder(DOMAIN hosts \ Named(hosts, cmd[p].host)) :
       hosts' = [j \in DOMAIN left |-> hosts[left[j]]]
  /\ GoTo(p, "dropkeys")
  /\ UNCHANGED <<keys, mixed, begun>>

\* delete_host_keys of the key_id read with the record.
DeleteKeys(p) ==
  /\ At(p, {"delete"}, "dropkeys")
  /\ keys' = keys \ {cmd[p].key}
  /\ Done(p)
  /\ UNCHANGED <<hosts, mixed, begun>>

-----------------------------------------------------------------------------
Next ==
  \E p \in Procs :
    \/ \E addr \in Addrs, alias \in Aliases \cup {NoAlias} :
         CreateNew(p, addr, alias) \/ ApplyDiff(p, addr, alias)
    \/ \E addr \in Addrs, alias \in Aliases : CreateAgain(p, addr, alias)
    \/ \E op \in {"rename", "add", "drop", "primary"}, name \in LookupNames, addr \in Addrs :
         FindHost(p, op, name, addr, NoAlias)
    \/ \E name \in LookupNames, alias \in Aliases : FindHost(p, "realias", name, Null, alias)
    \/ \E name \in LookupNames : FindHost(p, "delete", name, Null, NoAlias)
    \/ EnsureKeypair(p) \/ AddHost(p) \/ ApplyKeypair(p)
    \/ CheckRename(p) \/ CheckAlias(p) \/ CheckAddress(p)
    \/ UpdateHost(p) \/ RemoveHost(p) \/ DeleteKeys(p)
    \/ Stop(p)

Spec == Init /\ [][Next]_vars
-----------------------------------------------------------------------------
TypeOK ==
  /\ hosts \in Seq(HostRecords) /\ Len(hosts) <= MaxHosts
  /\ keys \subseteq Addrs
  /\ cmd \in [Procs -> [op : Ops, step : OpSteps, host : Addrs \cup {Null},
                        to : Addrs \cup {Null}, alias : Aliases \cup {NoAlias},
                        key : Addrs \cup {Null}]]
  /\ mixed \in BOOLEAN
  /\ begun \in 0 .. MaxCommands

\* The hostname every other part dials is a primary address of the host,
\* however renames, re-records, additions, removals and set-primary interleave:
\* no sequence of them leaves a host whose hostname is not an address it has.
HostnameIsPrimary ==
  \A i \in DOMAIN hosts :
    \E k \in Primaries(hosts[i]) : hosts[i].addresses[k].address = hosts[i].hostname

KeyIdsDistinct ==
  \A i, j \in DOMAIN hosts : hosts[i].key_id = hosts[j].key_id => i = j

\* Hosts registered by `host create`, one command at a time, never share a
\* key_id, so the secrets and keys stored under it belong to one host: the key_id
\* lookup of create keeps a renamed host's old name from being registered again.
\* (It takes distinct hostnames, which set-primary does not look after.)
SequentialKeyIds == mixed \/ KeyIdsDistinct

\* Under the same conditions every registered host has its keypair, deaths
\* between the steps included: deleting a host takes no other host's keys.
SequentialKeys == mixed \/ \A i \in DOMAIN hosts : hosts[i].key_id \in keys

\* A host registered by one command at a time is itself: its key_id and keypair are its own.
SequentialIdentity == SequentialKeyIds /\ SequentialKeys

\* The claim of get_host that a key_id resolves back to its host record after
\* the hostname has changed.
KeyIdResolves ==
  \A i \in DOMAIN hosts : Least(Lookup(hosts, hosts[i].key_id)) = i
=============================================================================
