----------------------------- MODULE ChatSessions -----------------------------
(***************************************************************************)
(* The conversations a browser has with an agent of type claude, codex or  *)
(* pi (gui/routes/agents.py and core/chat_{claude,codex,pi}.py).  A turn   *)
(* is a finite command on the agent's host; what joins the turns of one    *)
(* conversation is a session in the server's memory, which keeps the       *)
(* native identifier to resume.  Requests run in one event loop and        *)
(* interleave wherever they await: for the record of the agent, for the    *)
(* lock of the session, for the turn.  Meanwhile the agent is reinstalled, *)
(* moved or given another provider, sessions expire and are evicted, and   *)
(* requests are cancelled.                                                 *)
(*                                                                         *)
(* The three types differ in what a session is bound to (nothing, or the   *)
(* agent's identity), in the bound of the cache (soft for claude) and in   *)
(* when a turn makes sure that the agent is still the one it resolved.     *)
(***************************************************************************)
EXTENDS Naturals, FiniteSets, Sequences, SequencesExt

CONSTANTS
  MaxRequests,    \* bound on the POSTs of browsers, numbered as they are resolved
  MaxKeys,        \* bound on their conversations, numbered as they come up
  SessionMax,     \* _CODEX_BROWSER_SESSION_MAX and _CLAUDE_BROWSER_SESSION_MAX
  MaxChanges,     \* bound on the changes of the agent's record
  None

ASSUME BoundsAssumption ==
  /\ SessionMax \in Nat \ {0} /\ {MaxRequests, MaxKeys, MaxChanges} \subseteq Nat
  /\ None \notin 1 .. MaxRequests

Requests == 1 .. MaxRequests
Keys == 1 .. MaxKeys
\* Host, name, provider and model, as far as the identity has them.
Places == {"here", "there"}

VARIABLES
  kind,           \* the agent's type
  agent,          \* its record: status, installed_at and place
  changes,        \* how often it has changed
  sessions,       \* every session made, numbered by generation
  cached,         \* the places of those in the cache, from 1, the least recently used
  pc, key, seen, sess,   \* per request: step, conversation, what it resolved, session
  turn,           \* the native conversation a request runs its turn in
  lost            \* requests whose agent was replaced before their turn ended (history)

vars == <<kind, agent, changes, sessions, cached, pc, key, seen, sess, turn, lost>>

Kinds == {"claude", "codex", "pi"}
Idle == "idle"
Done == {"answered", "unanswered", "abandoned"}
Running == {"running", "cancelling"}
Steps ==
  {Idle, "resolved", "given", "queued", "matching", "confirming"} \cup Running \cup Done

\* installed_at, by number; a record of before installed_at was introduced has none, which is 0.
Identities == [installed : 0 .. MaxChanges + 1, place : Places]
Identity == [installed |-> agent.installed, place |-> agent.place]

Current(s) == s \in DOMAIN cached
Locked(s) == sessions[s].holder # None
\* The cache keeps the order of what stays in it; a session that is used or made is the last.
Keeping(ss) == [s \in ss |-> Cardinality({q \in ss : cached[q] <= cached[s]})]
Without(ss) == Keeping(DOMAIN cached \ ss)
Latest(cache, s) ==
  [q \in DOMAIN cache \cup {s} |-> IF q = s THEN Cardinality(DOMAIN cache) + 1 ELSE cache[q]]
Touched(s) == IF Current(s) THEN Latest(Without({s}), s) ELSE cached
\* A claude session is bound to no identity.
Bound(id) == IF kind = "claude" THEN None ELSE id

\* A backend whose next turn starts native conversation <<s, epoch>>, or resumes it.
NewSession(k, id) ==
  [key |-> k, identity |-> Bound(id), epoch |-> 0, started |-> FALSE, holder |-> None,
   queue |-> <<>>]

Init ==
  /\ kind \in Kinds
  /\ agent \in [status : {"installed"}, installed : {0, 1}, place : {"here"}]
  /\ changes = 0
  /\ sessions = <<>> /\ cached = <<>>
  /\ pc = [r \in Requests |-> Idle]
  /\ key = [r \in Requests |-> 0]
  /\ seen = [r \in Requests |-> None]
  /\ sess = [r \in Requests |-> 0]
  /\ turn = [r \in Requests |-> <<>>]
  /\ lost = {}

Go(r, step) == pc' = [pc EXCEPT ![r] = step]

(***************************************************************************)
(* From the request to the lock of its session.                            *)
(***************************************************************************)
Resolve(r) ==
  /\ pc[r] = Idle /\ \A q \in 1 .. r - 1 : pc[q] # Idle
  /\ IF agent.status = "installed"
       THEN /\ Go(r, "resolved") /\ seen' = [seen EXCEPT ![r] = Identity]
            /\ \E k \in Keys :
                 /\ k = 1 \/ \E q \in Requests : key[q] = k - 1
                 /\ key' = [key EXCEPT ![r] = k]
       ELSE Go(r, "unanswered") /\ UNCHANGED <<seen, key>>
  /\ UNCHANGED <<kind, agent, changes, sessions, cached, sess, turn, lost>>

\* What r does in session s of `all` once it holds the lock: codex first looks the agent up
\* again, the others start the turn.
Holds(r, s, all) ==
  /\ sessions' = [all EXCEPT ![s].holder = r]
  /\ IF kind = "codex"
       THEN Go(r, "matching") /\ UNCHANGED turn
       ELSE Go(r, "running") /\ turn' = [turn EXCEPT ![r] = <<s, all[s].epoch>>]

Waits(r, s, all) ==
  /\ sessions' = [all EXCEPT ![s].queue = Append(@, r)]
  /\ Go(r, "queued") /\ UNCHANGED turn

\* asyncio.Lock: whoever comes while others wait waits behind them, even when it is free.
Locks(r, s, all) ==
  IF all[s].holder = None /\ all[s].queue = <<>> THEN Holds(r, s, all) ELSE Waits(r, s, all)

\* _chat_claude takes the lock when the response is streamed, the others at once.
Gets(r, s, all) ==
  /\ sess' = [sess EXCEPT ![r] = s] /\ seen' = [seen EXCEPT ![r] = None]
  /\ IF kind = "claude"
       THEN Go(r, "given") /\ sessions' = all /\ UNCHANGED turn
       ELSE Locks(r, s, all)

OfKey(k) == {s \in DOMAIN cached : sessions[s].key = k}

\* The session of r's conversation that it goes on with, when the first n of the cache have
\* not been used for 30 minutes.
Reusable(r, n) ==
  {s \in OfKey(key[r]) :
     \/ kind = "claude"
     \/ /\ seen[r].installed # 0
        /\ sessions[s].identity = seen[r]
        /\ Locked(s) \/ cached[s] > n}

\* What is left of the cache when the session of the same conversation and the expired ones
\* are gone, and then as many of those nobody holds as it takes to make room.
Unexpired(r, n) ==
  {s \in DOMAIN cached \ OfKey(key[r]) : Locked(s) \/ cached[s] > n}
Kept(left) ==
  LET idle == {s \in left : ~Locked(s)}
      Older(s) == {q \in idle : cached[q] <= cached[s]}
  IN  left \ {s \in idle : Cardinality(Older(s)) + SessionMax <= Cardinality(left) + 1}

Reuse(r, n) ==
  /\ pc[r] = "resolved"
  /\ \E s \in Reusable(r, n) :
       Gets(r, s, sessions) /\ cached' = Touched(s)
  /\ UNCHANGED <<kind, agent, changes, key, lost>>

\* Those of pi that are between resolution and the end of their turn lose their conversation.
Create(r, n) ==
  LET s == Len(sessions) + 1
      kept == Kept(Unexpired(r, n))
  IN  /\ pc[r] = "resolved" /\ Reusable(r, n) = {}
      /\ kind = "claude" \/ Cardinality(kept) < SessionMax
      /\ cached' = Latest(Keeping(kept), s)
      /\ Gets(r, s, Append(sessions, NewSession(key[r], seen[r])))
      /\ lost' = IF kind # "pi" THEN lost
                 ELSE lost \cup {q \in Requests \ {r} :
                                   pc[q] \in {"queued", "running"} /\ key[q] = key[r]}
      /\ UNCHANGED <<kind, agent, changes, key>>

\* Mutant: all sessions are active, and one more is made.
BusyOverflows(r, n) ==
  LET s == Len(sessions) + 1
      kept == Kept(Unexpired(r, n))
  IN  /\ pc[r] = "resolved" /\ Reusable(r, n) = {}
      /\ kind # "claude" /\ Cardinality(kept) >= SessionMax
      /\ cached' = Latest(Keeping(kept), s)
      /\ Gets(r, s, Append(sessions, NewSession(key[r], seen[r])))
      /\ UNCHANGED <<kind, agent, changes, key, lost>>

Busy(r, n) ==
  LET kept == Kept(Unexpired(r, n))
  IN  /\ pc[r] = "resolved" /\ Reusable(r, n) = {}
      /\ kind # "claude" /\ Cardinality(kept) >= SessionMax
      /\ cached' = Keeping(kept)
      /\ Go(r, "unanswered")
      /\ UNCHANGED <<kind, agent, changes, sessions, key, seen, sess, turn, lost>>

\* The response of claude begins to be streamed.
Stream(r) ==
  /\ pc[r] = "given"
  /\ Locks(r, sess[r], sessions)
  /\ UNCHANGED <<kind, agent, changes, cached, key, seen, sess, lost>>

(***************************************************************************)
(* Under the lock.                                                         *)
(***************************************************************************)
\* The first in the queue runs when the lock has been released; its session may have been
\* evicted or replaced while it waited, which claude does not ask.
Take(r) ==
  LET s == sess[r]
      woken == [sessions EXCEPT ![s].queue = Tail(@)]
  IN  /\ pc[r] = "queued" /\ ~Locked(s) /\ sessions[s].queue # <<>> /\ Head(sessions[s].queue) = r
      /\ IF kind = "claude" \/ Current(s)
           THEN Holds(r, s, woken)
           ELSE Go(r, "unanswered") /\ sessions' = woken /\ UNCHANGED turn
      /\ UNCHANGED <<kind, agent, changes, cached, key, seen, sess, lost>>

\* finally: the use is noted and the lock is given back.
Leave(r, step, session) ==
  /\ Go(r, step)
  /\ sessions' = [sessions EXCEPT ![sess[r]] = [session EXCEPT !.holder = None]]

\* What the registry says now is what the session was made for.
Matches(s) == agent.status = "installed" /\ Identity = sessions[s].identity

\* Mutant: the refusal is raised before the try whose finally gives the lock back.
MatchKeepsLock(r) ==
  LET s == sess[r]
  IN  /\ pc[r] = "matching"
      /\ IF Matches(s)
           THEN /\ Go(r, "running") /\ turn' = [turn EXCEPT ![r] = <<s, sessions[s].epoch>>]
                /\ UNCHANGED <<sessions, cached>>
           ELSE Go(r, "unanswered") /\ cached' = Without({s}) /\ UNCHANGED <<turn, sessions>>
      /\ UNCHANGED <<kind, agent, changes, key, seen, sess, lost>>

\* _codex_browser_session_matches_registry before the turn.
Match(r) ==
  LET s == sess[r]
  IN  /\ pc[r] = "matching"
      /\ IF Matches(s)
           THEN /\ Go(r, "running") /\ turn' = [turn EXCEPT ![r] = <<s, sessions[s].epoch>>]
                /\ UNCHANGED <<sessions, cached>>
           ELSE Leave(r, "unanswered", sessions[s]) /\ cached' = Without({s}) /\ UNCHANGED turn
      /\ UNCHANGED <<kind, agent, changes, key, seen, sess, lost>>

\* The command on the host ends with an answer and the native conversation to resume.
Succeed(r) ==
  LET s == sess[r]
      resumed == [sessions[s] EXCEPT !.started = TRUE]
  IN  /\ pc[r] = "running"
      /\ CASE kind = "claude" -> Leave(r, "answered", resumed) /\ cached' = Touched(s)
           [] kind = "pi" ->
                /\ Leave(r, IF Current(s) THEN "answered" ELSE "unanswered", resumed)
                /\ cached' = Touched(s)
           [] kind = "codex" /\ Current(s) ->
                /\ Go(r, "confirming")
                /\ sessions' = [sessions EXCEPT ![s] = resumed]
                /\ UNCHANGED cached
           [] kind = "codex" /\ ~Current(s) -> Leave(r, "unanswered", resumed) /\ UNCHANGED cached
      /\ lost' = IF kind = "codex" /\ (agent.status # "installed"
                                        \/ agent.installed # sessions[s].identity.installed)
                   THEN lost \cup {r} ELSE lost
      /\ UNCHANGED <<kind, agent, changes, key, seen, sess, turn>>

\* It fails or runs out of time.  codex has no thread to resume before a first success;
\* claude and pi go on with the identifier they made up.
Fail(r) ==
  LET s == sess[r]
      anew == kind = "codex" /\ ~sessions[s].started
  IN  /\ pc[r] = "running"
      /\ Leave(r, "unanswered", [sessions[s] EXCEPT !.epoch = IF anew THEN @ + 1 ELSE @])
      /\ cached' = Touched(s)
      /\ UNCHANGED <<kind, agent, changes, key, seen, sess, turn, lost>>

\* Mutant: after the turn codex goes by its cache alone, as pi does.
ConfirmByCache(r) ==
  LET s == sess[r]
  IN  /\ pc[r] = "confirming"
      /\ Leave(r, IF Current(s) THEN "answered" ELSE "unanswered", sessions[s])
      /\ cached' = Touched(s)
      /\ UNCHANGED <<kind, agent, changes, key, seen, sess, turn, lost>>

\* _codex_browser_session_matches_registry after the turn.
Confirm(r) ==
  LET s == sess[r]
  IN  /\ pc[r] = "confirming"
      /\ Leave(r, IF Matches(s) THEN "answered" ELSE "unanswered", sessions[s])
      /\ cached' = IF Matches(s) THEN Touched(s) ELSE Without({s})
      /\ UNCHANGED <<kind, agent, changes, key, seen, sess, turn, lost>>

\* asyncio.CancelledError at whatever the request awaits.  A turn is told to stop and waited
\* for; a request that is cancelled when its turn is over leaves the conversation as it is.
Cancel(r) ==
  LET s == sess[r]
  IN  /\ \/ /\ pc[r] \in {"resolved", "given"}
            /\ Go(r, "unanswered") /\ UNCHANGED <<sessions, cached>>
         \/ /\ pc[r] = "queued"
            /\ Go(r, "unanswered") /\ UNCHANGED cached
            /\ \E i \in DOMAIN sessions[s].queue :
                 /\ sessions[s].queue[i] = r
                 /\ sessions' = [sessions EXCEPT ![s].queue = RemoveAt(@, i)]
         \/ /\ pc[r] \in {"matching", "confirming"}
            /\ Leave(r, "unanswered", sessions[s]) /\ cached' = Touched(s)
         \/ /\ pc[r] = "running"
            /\ Go(r, "cancelling") /\ UNCHANGED <<sessions, cached>>
      /\ UNCHANGED <<kind, agent, changes, key, seen, sess, turn, lost>>

\* Mutant: the session goes on with the native conversation of the cancelled turn.
UnwindKeeps(r) ==
  LET s == sess[r]
  IN  /\ pc[r] = "cancelling"
      /\ Leave(r, "abandoned", sessions[s])
      /\ cached' = Touched(s)
      /\ UNCHANGED <<kind, agent, changes, key, seen, sess, turn, lost>>

\* clear_history: the next turn of the conversation starts a native one of its own.
Unwind(r) ==
  LET s == sess[r]
  IN  /\ pc[r] = "cancelling"
      /\ Leave(r, "abandoned", [sessions[s] EXCEPT !.epoch = @ + 1, !.started = FALSE])
      /\ cached' = Touched(s)
      /\ UNCHANGED <<kind, agent, changes, key, seen, sess, turn, lost>>

(***************************************************************************)
(* Other commands on the agent's record.                                   *)
(***************************************************************************)
Uninstall ==
  /\ agent.status = "installed" /\ changes < MaxChanges
  /\ agent' = [agent EXCEPT !.status = "installing"]
  /\ changes' = changes + 1
  /\ UNCHANGED <<kind, sessions, cached, pc, key, seen, sess, turn, lost>>

Install ==
  /\ agent.status = "installing"
  /\ agent' = [agent EXCEPT !.status = "installed", !.installed = @ + 1]
  /\ UNCHANGED <<kind, changes, sessions, cached, pc, key, seen, sess, turn, lost>>

\* A host gets another name, pi another provider or model, and perhaps the old one again.
Move ==
  /\ kind # "claude" /\ changes < MaxChanges
  /\ \E place \in Places \ {agent.place} : agent' = [agent EXCEPT !.place = place]
  /\ changes' = changes + 1
  /\ UNCHANGED <<kind, sessions, cached, pc, key, seen, sess, turn, lost>>

Enter(r) == \E n \in 0 .. Cardinality(DOMAIN cached) : Reuse(r, n) \/ Create(r, n) \/ Busy(r, n)
\* What a request does by itself.
Step(r) ==
  \/ Enter(r) \/ Stream(r) \/ Take(r) \/ Match(r) \/ Succeed(r) \/ Fail(r)
  \/ Confirm(r) \/ Unwind(r)

Next ==
  \/ \E r \in Requests : Resolve(r) \/ Step(r) \/ Cancel(r)
  \/ Uninstall \/ Install \/ Move

\* The event loop runs what is ready, and every turn is over in bounded time: the playbook,
\* the runner and, for pi, the wait for the runner have timeouts.
Fairness == \A r \in Requests : WF_vars(Step(r))
Spec == Init /\ [][Next]_vars /\ Fairness

(***************************************************************************)
(* Properties.                                                             *)
(***************************************************************************)
Sessions ==
  [key : Keys, identity : Identities \cup {None}, epoch : 0 .. Cardinality(Requests),
   started : BOOLEAN, holder : Requests \cup {None}, queue : Seq(Requests)]

\* Types; the cache has one session of a conversation at most, and for codex and pi never more
\* than the advertised bound, however many requests come at once (_get_codex_browser_session).
TypeOK ==
  /\ kind \in Kinds
  /\ agent \in [status : {"installed", "installing"}, installed : 0 .. MaxChanges + 1,
                place : Places]
  /\ changes \in 0 .. MaxChanges
  /\ \A s \in DOMAIN sessions : sessions[s] \in Sessions
  /\ DOMAIN cached \subseteq DOMAIN sessions /\ cached \in [DOMAIN cached -> Nat \ {0}]
  /\ pc \in [Requests -> Steps] /\ key \in [Requests -> Keys \cup {0}]
  /\ seen \in [Requests -> Identities \cup {None}]
  /\ sess \in [Requests -> 0 .. Len(sessions)]
  /\ lost \subseteq Requests
  /\ \A s, q \in DOMAIN cached : s # q => sessions[s].key # sessions[q].key
  /\ kind # "claude" => Cardinality(DOMAIN cached) <= SessionMax

\* Two turns never run in one native conversation at once, whatever sessions their requests
\* came by, and none runs in one of which the browser abandoned a turn.
Apart ==
  \A r, q \in Requests :
    (r # q /\ pc[r] \in Running /\ pc[q] \in Running \cup {"abandoned"}) => turn[r] # turn[q]

\* An answer is that of the agent the request was for: codex serves none whose turn ended on
\* another installation, and pi none whose conversation another session had taken over.
AnswersOwn == \A r \in lost : pc[r] # "answered"

\* A request that was resolved is answered, refused or cancelled in the end: a lock is always
\* given back, and whoever waits for it gets it (async with session.lock).
RequestsEnd == \A r \in Requests : (pc[r] # Idle) ~> (pc[r] \in Done)
=============================================================================
