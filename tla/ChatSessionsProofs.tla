-------------------------- MODULE ChatSessionsProofs --------------------------
(***************************************************************************)
(* Proofs about ChatSessions, for any number of requests, conversations,   *)
(* sessions and changes of the agent's record.                             *)
(*                                                                         *)
(* A request is one process of many that share the sessions and the cache. *)
(* So each of its steps is first brought to its effect (Effect): on its    *)
(* own control, on the sessions, on the cache and on the history.  Every   *)
(* conjunct of the invariant Inv follows from effects alone, without       *)
(* another look at the steps.                                              *)
(***************************************************************************)
EXTENDS ChatSessions, TLAPS, FiniteSetTheorems, SequenceTheorems

\* The steps in which a request has the lock of its session, and those in which it has one.
Holding == {"matching", "confirming", "running", "cancelling"}
Admitted == {"given", "queued"} \cup Holding

Session ==
  [key : Keys, identity : Identities \cup {None}, epoch : Nat, started : BOOLEAN,
   holder : Requests \cup {None}, queue : Seq(Requests)]

\* The types of everything but the cache.
Typed ==
  /\ kind \in Kinds
  /\ agent \in [status : {"installed", "installing"}, installed : 0 .. MaxChanges + 1,
                place : Places]
  /\ changes \in 0 .. MaxChanges
  /\ sessions \in Seq(Session)
  /\ pc \in [Requests -> Steps] /\ key \in [Requests -> Keys \cup {0}]
  /\ seen \in [Requests -> Identities \cup {None}]
  /\ sess \in [Requests -> 0 .. Len(sessions)]
  /\ turn \in [Requests -> {<<>>} \cup (Nat \X Nat)]
  /\ lost \subseteq Requests

\* The cache: one session of a conversation at most, and no more than its bound.
CacheBounded ==
  /\ DOMAIN cached \subseteq DOMAIN sessions /\ cached \in [DOMAIN cached -> Nat \ {0}]
  /\ \A s, q \in DOMAIN cached : s # q => sessions[s].key # sessions[q].key
  /\ kind # "claude" => Cardinality(DOMAIN cached) <= SessionMax

\* An installation has a number of its own, counted by the changes of the record, and what
\* requests and sessions know of it is not newer than it is.
Numbered ==
  /\ agent.installed + (IF agent.status = "installing" THEN 1 ELSE 0) <= changes + 1
  /\ \A r \in Requests :
       pc[r] = "resolved" =>
         key[r] \in Keys /\ seen[r] \in Identities /\ seen[r].installed <= agent.installed
  /\ kind # "claude" =>
       \A s \in DOMAIN sessions :
         /\ sessions[s].identity \in Identities
         /\ sessions[s].identity.installed <= agent.installed

\* A request has a session of its conversation, and its lock when it is behind it.
Held ==
  \A r \in Requests :
    /\ pc[r] \in Admitted =>
         sess[r] \in DOMAIN sessions /\ sessions[sess[r]].key = key[r]
    /\ pc[r] \in Holding => sessions[sess[r]].holder = r
    /\ pc[r] = "given" => kind = "claude"
    /\ pc[r] \in {"matching", "confirming"} => kind = "codex"

\* A turn runs in the present native conversation of its session; an abandoned one ran in an
\* earlier one.
Turns ==
  \A r \in Requests :
    /\ pc[r] \in Running => turn[r] = <<sess[r], sessions[sess[r]].epoch>>
    /\ pc[r] = "abandoned" =>
         /\ sess[r] \in DOMAIN sessions
         /\ \E e \in 0 .. sessions[sess[r]].epoch - 1 : turn[r] = <<sess[r], e>>

\* A session goes on to another native conversation when a request of it ends.
Ended(s) == {r \in Requests : sess[r] = s /\ pc[r] \in Done}
EpochsBounded == \A s \in DOMAIN sessions : sessions[s].epoch <= Cardinality(Ended(s))

\* Who has lost the agent resolved is refused: codex compares the installation once more, and
\* for pi the session that took over keeps the cache.
Outdated(s) ==
  agent.status # "installed" \/ sessions[s].identity.installed < agent.installed
LostRefused ==
  \A r \in lost :
    \/ kind = "codex" /\ pc[r] = "unanswered"
    \/ kind = "codex" /\ pc[r] = "confirming" /\ Outdated(sess[r])
    \/ kind = "pi" /\ pc[r] \in {"unanswered", "abandoned"}
    \/ kind = "pi" /\ pc[r] \in {"queued", "running", "cancelling"} /\ ~ Current(sess[r])

Inv ==
  /\ Typed
  /\ CacheBounded
  /\ Numbered
  /\ Held
  /\ Turns
  /\ EpochsBounded
  /\ LostRefused

(***************************************************************************)
(* The effect of a step of request r.                                      *)
(***************************************************************************)
\* On the requests: r alone moves, and not from its end.
OnControl(r) ==
  /\ UNCHANGED <<kind, agent, changes>>
  /\ pc' \in [Requests -> Steps] /\ key' \in [Requests -> Keys \cup {0}]
  /\ seen' \in [Requests -> Identities \cup {None}]
  /\ sess' \in [Requests -> 0 .. Len(sessions')]
  /\ turn' \in [Requests -> {<<>>} \cup (Nat \X Nat)]
  /\ \A q \in Requests \ {r} :
       /\ pc'[q] = pc[q] /\ key'[q] = key[q] /\ seen'[q] = seen[q]
       /\ sess'[q] = sess[q] /\ turn'[q] = turn[q]
  /\ pc[r] \notin Done
  /\ pc[r] # "idle" => key'[r] = key[r]
  /\ pc'[r] = "resolved" => key'[r] \in Keys /\ seen'[r] = Identity
  /\ pc'[r] = "given" => kind = "claude"
  /\ pc'[r] \in {"matching", "confirming"} => kind = "codex"

\* On the sessions: they remain what they are for, r takes a lock that is free and gives its
\* own back, and with a turn that ends another native conversation may come.
OnSessions(r) ==
  /\ sessions' \in Seq(Session) /\ Len(sessions) <= Len(sessions')
  /\ \A s \in DOMAIN sessions :
       /\ sessions'[s].key = sessions[s].key /\ sessions'[s].identity = sessions[s].identity
       /\ sessions[s].holder \notin {None, r} => sessions'[s].holder = sessions[s].holder
       /\ \/ sessions'[s].epoch = sessions[s].epoch
          \/ /\ sessions'[s].epoch = sessions[s].epoch + 1
             /\ sess[r] = s /\ sess'[r] = s /\ pc[r] \in Running /\ pc'[r] \in Done
  /\ \A s \in DOMAIN sessions' \ DOMAIN sessions :
       /\ sessions'[s].epoch = 0 /\ sessions'[s].identity = Bound(seen[r])
       /\ pc[r] = "resolved"
  /\ pc'[r] \in Admitted => sess'[r] \in DOMAIN sessions' /\ sessions'[sess'[r]].key = key'[r]
  /\ pc'[r] \in Holding => sessions'[sess'[r]].holder = r
  /\ pc'[r] \in Running => turn'[r] = <<sess'[r], sessions'[sess'[r]].epoch>>
  /\ pc'[r] = "abandoned" =>
       /\ sess'[r] \in DOMAIN sessions'
       /\ \E e \in 0 .. sessions'[sess'[r]].epoch - 1 : turn'[r] = <<sess'[r], e>>

\* On the cache: sessions leave it, or those of r's conversation and others make room for a new
\* one.
Replaced(r) ==
  \E kept \in SUBSET (DOMAIN cached \ OfKey(key[r])) :
    /\ DOMAIN cached' = kept \cup {Len(sessions) + 1}
    /\ kind # "claude" => Cardinality(kept) < SessionMax
    /\ Len(sessions') = Len(sessions) + 1
    /\ sessions'[Len(sessions) + 1].key = key[r]
OnCache(r) ==
  /\ cached' \in [DOMAIN cached' -> Nat \ {0}]
  /\ DOMAIN cached' \subseteq DOMAIN cached \/ Replaced(r)

\* On the history: r has ended its turn on another installation, or taken over for others; and
\* what becomes of r when it was lost before.
OnHistory(r) ==
  /\ \A q \in lost' \ lost :
       \/ /\ q = r /\ kind = "codex" /\ sess'[r] = sess[r]
          /\ \/ pc'[r] = "unanswered"
             \/ pc'[r] = "confirming" /\ Outdated(sess[r]) /\ sess[r] \in DOMAIN sessions
       \/ /\ q \in Requests \ {r} /\ kind = "pi" /\ pc[q] \in {"queued", "running"}
          /\ key[q] = key[r] /\ Replaced(r)
  /\ pc[r] = "confirming" /\ Outdated(sess[r]) => pc'[r] = "unanswered"
  /\ kind = "pi" /\ pc[r] \in {"queued", "running", "cancelling"} /\ ~ Current(sess[r]) =>
       /\ pc'[r] \in {"queued", "running", "cancelling", "unanswered", "abandoned"}
       /\ sess'[r] = sess[r]

Effect(r) == OnControl(r) /\ OnSessions(r) /\ OnCache(r) /\ OnHistory(r)

LEMMA Constants ==
  /\ MaxRequests \in Nat /\ MaxKeys \in Nat /\ MaxChanges \in Nat /\ SessionMax \in Nat \ {0}
  /\ None \notin Requests /\ IsFiniteSet(Requests) /\ Requests \subseteq Nat
<1>1. MaxRequests \in Nat /\ MaxKeys \in Nat /\ MaxChanges \in Nat /\ SessionMax \in Nat \ {0}
  BY BoundsAssumption
<1>2. IsFiniteSet(Requests)
  BY <1>1, FS_Interval DEF Requests
<1> QED
  BY <1>1, <1>2, BoundsAssumption DEF Requests

(***************************************************************************)
(* Every conjunct of the invariant follows from the effect of a step.      *)
(***************************************************************************)
LEMMA EffectTyped == ASSUME Inv, NEW r \in Requests, Effect(r), lost' \subseteq Requests
                     PROVE  Typed'
BY DEF Inv, Typed, Effect, OnControl, OnSessions

LEMMA EffectHeld == ASSUME Inv, NEW r \in Requests, Effect(r)
                    PROVE  Held'
<1> SUFFICES ASSUME NEW q \in Requests
             PROVE  /\ pc'[q] \in Admitted =>
                         sess'[q] \in DOMAIN sessions' /\ sessions'[sess'[q]].key = key'[q]
                    /\ pc'[q] \in Holding => sessions'[sess'[q]].holder = q
                    /\ pc'[q] = "given" => kind' = "claude"
                    /\ pc'[q] \in {"matching", "confirming"} => kind' = "codex"
  BY DEF Held
<1>0. /\ sessions \in Seq(Session) /\ sessions' \in Seq(Session)
      /\ Len(sessions) <= Len(sessions') /\ kind' = kind
  BY DEF Inv, Typed, Effect, OnSessions, OnControl
<1>1. CASE q = r
  BY <1>0, <1>1 DEF Effect, OnSessions, OnControl
<1>2. CASE q # r
  <2>1. pc'[q] = pc[q] /\ key'[q] = key[q] /\ sess'[q] = sess[q]
    BY <1>2 DEF Effect, OnControl
  <2>2. \A s \in DOMAIN sessions : s \in DOMAIN sessions' /\ sessions'[s].key = sessions[s].key
    BY <1>0 DEF Effect, OnSessions
  <2>3. pc[q] \in Holding => sessions'[sess[q]].holder = q
    <3> SUFFICES ASSUME pc[q] \in Holding
                 PROVE  sessions'[sess[q]].holder = q
      OBVIOUS
    <3>1. sess[q] \in DOMAIN sessions /\ sessions[sess[q]].holder = q
      BY DEF Inv, Held, Admitted
    <3> QED
      BY <1>2, <3>1, Constants DEF Effect, OnSessions
  <2> QED
    BY <1>0, <2>1, <2>2, <2>3 DEF Inv, Held
<1> QED
  BY <1>1, <1>2

LEMMA EffectTurns == ASSUME Inv, NEW r \in Requests, Effect(r)
                     PROVE  Turns'
<1> SUFFICES ASSUME NEW q \in Requests
             PROVE  /\ pc'[q] \in Running => turn'[q] = <<sess'[q], sessions'[sess'[q]].epoch>>
                    /\ pc'[q] = "abandoned" =>
                         /\ sess'[q] \in DOMAIN sessions'
                         /\ \E e \in 0 .. sessions'[sess'[q]].epoch - 1 : turn'[q] = <<sess'[q], e>>
  BY DEF Turns
<1>0. /\ sessions \in Seq(Session) /\ sessions' \in Seq(Session)
      /\ Len(sessions) <= Len(sessions')
  BY DEF Inv, Typed, Effect, OnSessions
<1>1. CASE q = r
  BY <1>1 DEF Effect, OnSessions
<1>2. CASE q # r
  <2>1. pc'[q] = pc[q] /\ turn'[q] = turn[q] /\ sess'[q] = sess[q]
    BY <1>2 DEF Effect, OnControl
  <2>2. ASSUME pc[q] \in Running
        PROVE  turn[q] = <<sess[q], sessions'[sess[q]].epoch>>
    <3>1. sess[q] \in DOMAIN sessions /\ sessions[sess[q]].holder = q
      BY <2>2 DEF Inv, Held, Admitted, Holding, Running
    <3>2. pc[r] \in Running => sessions[sess[r]].holder = r
      BY DEF Inv, Held, Holding, Running
    <3>3. sessions'[sess[q]].epoch = sessions[sess[q]].epoch
      BY <1>2, <3>1, <3>2 DEF Effect, OnSessions
    <3> QED
      BY <2>2, <3>3 DEF Inv, Turns
  <2>3. ASSUME pc[q] = "abandoned"
        PROVE  /\ sess[q] \in DOMAIN sessions'
               /\ \E e \in 0 .. sessions'[sess[q]].epoch - 1 : turn[q] = <<sess[q], e>>
    <3>1. sess[q] \in DOMAIN sessions /\ sess[q] \in DOMAIN sessions'
      BY <1>0, <2>3 DEF Inv, Turns
    <3>2. PICK e \in 0 .. sessions[sess[q]].epoch - 1 : turn[q] = <<sess[q], e>>
      BY <2>3 DEF Inv, Turns
    <3>3. sessions[sess[q]].epoch \in Nat /\ sessions'[sess[q]].epoch \in Nat
      <4>1. sessions[sess[q]] \in Session /\ sessions'[sess[q]] \in Session
        BY <1>0, <3>1
      <4> QED
        BY <4>1 DEF Session
    <3>4. sessions[sess[q]].epoch <= sessions'[sess[q]].epoch
      BY SMTT(30), <3>1, <3>3 DEF Effect, OnSessions
    <3>5. e \in 0 .. sessions'[sess[q]].epoch - 1
      BY <3>2, <3>3, <3>4
    <3> QED
      BY <3>1, <3>2, <3>5
  <2> QED
    BY <2>1, <2>2, <2>3
<1> QED
  BY <1>1, <1>2

LEMMA EffectEpochs == ASSUME Inv, NEW r \in Requests, Effect(r)
                      PROVE  EpochsBounded'
<1> SUFFICES ASSUME NEW s \in DOMAIN sessions'
             PROVE  sessions'[s].epoch <= Cardinality(Ended(s)')
  BY DEF EpochsBounded
<1>0. /\ sessions \in Seq(Session) /\ sessions' \in Seq(Session)
      /\ Ended(s) \subseteq Requests /\ Ended(s)' \subseteq Requests
  BY DEF Inv, Typed, Effect, OnSessions, Ended
<1>1. /\ IsFiniteSet(Ended(s)) /\ IsFiniteSet(Ended(s)')
      /\ Cardinality(Ended(s)) \in Nat /\ Cardinality(Ended(s)') \in Nat
  BY <1>0, Constants, FS_Subset, FS_CardinalityType
<1>2. r \notin Ended(s) /\ Ended(s) \subseteq Ended(s)'
  BY DEF Effect, OnControl, Ended
<1>3. CASE s \notin DOMAIN sessions
  BY <1>1, <1>3 DEF Effect, OnSessions
<1>4. CASE s \in DOMAIN sessions /\ sessions'[s].epoch = sessions[s].epoch
  <2>1. Cardinality(Ended(s)) <= Cardinality(Ended(s)')
    BY <1>1, <1>2, FS_Subset
  <2>2. sessions[s].epoch <= Cardinality(Ended(s)) /\ sessions[s].epoch \in Nat
    <3>1. sessions[s] \in Session
      BY <1>0, <1>4
    <3> QED
      BY <1>4, <3>1 DEF Inv, EpochsBounded, Session
  <2> QED
    BY <1>1, <1>4, <2>1, <2>2
<1>5. CASE s \in DOMAIN sessions /\ sessions'[s].epoch # sessions[s].epoch
  <2>1. sessions'[s].epoch = sessions[s].epoch + 1 /\ sess'[r] = s /\ pc'[r] \in Done
    BY <1>5 DEF Effect, OnSessions
  <2>2. Ended(s) \cup {r} \subseteq Ended(s)'
    BY <1>2, <2>1 DEF Ended
  <2>3. /\ Cardinality(Ended(s) \cup {r}) = Cardinality(Ended(s)) + 1
        /\ Cardinality(Ended(s) \cup {r}) <= Cardinality(Ended(s)')
    BY <1>1, <1>2, <2>2, FS_AddElement, FS_Subset
  <2>4. sessions[s].epoch <= Cardinality(Ended(s)) /\ sessions[s].epoch \in Nat
    <3>1. sessions[s] \in Session
      BY <1>0, <1>5
    <3> QED
      BY <1>5, <3>1 DEF Inv, EpochsBounded, Session
  <2> QED
    BY <1>1, <2>1, <2>3, <2>4
<1> QED
  BY <1>3, <1>4, <1>5

LEMMA EffectNumbered == ASSUME Inv, NEW r \in Requests, Effect(r)
                        PROVE  Numbered'
<1>0. /\ sessions \in Seq(Session) /\ sessions' \in Seq(Session)
      /\ UNCHANGED <<kind, agent, changes>>
  BY DEF Inv, Typed, Effect, OnSessions, OnControl
<1>1. /\ agent.installed \in Nat /\ Identity \in Identities
      /\ Identity.installed = agent.installed
  BY Constants DEF Inv, Typed, Identity, Identities
<1>2. ASSUME NEW q \in Requests, pc'[q] = "resolved"
      PROVE  key'[q] \in Keys /\ seen'[q] \in Identities /\ seen'[q].installed <= agent.installed
  <2>1. CASE q = r
    BY <1>1, <1>2, <2>1 DEF Effect, OnControl
  <2>2. CASE q # r
    BY <1>2, <2>2 DEF Effect, OnControl, Inv, Numbered
  <2> QED
    BY <2>1, <2>2
<1>3. ASSUME kind # "claude", NEW s \in DOMAIN sessions'
      PROVE  /\ sessions'[s].identity \in Identities
             /\ sessions'[s].identity.installed <= agent.installed
  <2>1. CASE s \in DOMAIN sessions
    BY <1>3, <2>1 DEF Effect, OnSessions, Inv, Numbered
  <2>2. CASE s \notin DOMAIN sessions
    BY <1>3, <2>2 DEF Effect, OnSessions, Inv, Numbered, Bound
  <2> QED
    BY <2>1, <2>2
<1> QED
  BY <1>0, <1>2, <1>3 DEF Inv, Numbered

LEMMA EffectCache == ASSUME Inv, NEW r \in Requests, Effect(r)
                     PROVE  CacheBounded'
<1>0. /\ sessions \in Seq(Session) /\ sessions' \in Seq(Session) /\ kind' = kind
      /\ Len(sessions) <= Len(sessions') /\ cached' \in [DOMAIN cached' -> Nat \ {0}]
      /\ \A s \in DOMAIN sessions :
           s \in DOMAIN sessions' /\ sessions'[s].key = sessions[s].key
  BY DEF Inv, Typed, Effect, OnSessions, OnControl, OnCache
<1>1. IsFiniteSet(DOMAIN cached) /\ Cardinality(DOMAIN cached) \in Nat
  <2>1. DOMAIN sessions = 1 .. Len(sessions) /\ Len(sessions) \in Nat
    BY <1>0
  <2>2. IsFiniteSet(DOMAIN sessions)
    BY <2>1, FS_Interval
  <2> QED
    BY <2>2, FS_Subset, FS_CardinalityType DEF Inv, CacheBounded
<1>2. CASE DOMAIN cached' \subseteq DOMAIN cached
  <2>1. Cardinality(DOMAIN cached') <= Cardinality(DOMAIN cached)
        /\ Cardinality(DOMAIN cached') \in Nat
    BY <1>1, <1>2, FS_Subset, FS_CardinalityType
  <2>2. kind # "claude" => Cardinality(DOMAIN cached') <= SessionMax
    BY <1>1, <2>1, Constants DEF Inv, CacheBounded
  <2>3. DOMAIN cached' \subseteq DOMAIN sessions
    BY <1>2 DEF Inv, CacheBounded
  <2>4. \A s, q \in DOMAIN cached' : s # q => sessions'[s].key # sessions'[q].key
    BY <1>0, <1>2, <2>3 DEF Inv, CacheBounded
  <2> QED
    BY <1>0, <2>2, <2>3, <2>4 DEF CacheBounded
<1>3. CASE Replaced(r)
  <2> DEFINE new == Len(sessions) + 1
  <2>1. PICK kept \in SUBSET (DOMAIN cached \ OfKey(key[r])) :
          /\ DOMAIN cached' = kept \cup {new}
          /\ kind # "claude" => Cardinality(kept) < SessionMax
          /\ Len(sessions') = new /\ sessions'[new].key = key[r]
    BY <1>3 DEF Replaced
  <2>2. /\ kept \subseteq DOMAIN sessions /\ new \notin DOMAIN sessions
        /\ new \in DOMAIN sessions'
    BY <1>0, <2>1 DEF Inv, CacheBounded
  <2>3. \A s \in kept : sessions[s].key # key[r]
    BY DEF OfKey
  <2>4. /\ IsFiniteSet(kept) /\ Cardinality(kept) \in Nat
        /\ Cardinality(kept \cup {new}) = Cardinality(kept) + 1
    BY <1>1, <2>2, FS_Subset, FS_CardinalityType, FS_AddElement
  <2>5. kind # "claude" => Cardinality(DOMAIN cached') <= SessionMax
    BY <2>1, <2>4, Constants
  <2>6. DOMAIN cached' \subseteq DOMAIN sessions'
    BY <1>0, <2>1, <2>2
  <2>7. \A s, q \in kept : s # q => sessions'[s].key # sessions'[q].key
    BY <1>0, <2>2 DEF Inv, CacheBounded
  <2>8. \A s \in kept : sessions'[s].key # sessions'[new].key
    BY <1>0, <2>1, <2>2, <2>3
  <2>9. \A s, q \in DOMAIN cached' : s # q => sessions'[s].key # sessions'[q].key
    BY <2>1, <2>7, <2>8
  <2> QED
    BY <1>0, <2>5, <2>6, <2>9 DEF CacheBounded
<1> QED
  BY <1>2, <1>3 DEF Effect, OnCache

LEMMA EffectLost == ASSUME Inv, NEW r \in Requests, Effect(r)
                    PROVE  LostRefused' /\ lost' \subseteq Requests
<1>0. /\ sessions \in Seq(Session) /\ UNCHANGED <<kind, agent>> /\ lost \subseteq Requests
  BY DEF Inv, Typed, Effect, OnControl
<1>1. \A s \in DOMAIN sessions : s \in DOMAIN cached' => s \in DOMAIN cached
  <2>1. Len(sessions) + 1 \notin DOMAIN sessions
    BY <1>0
  <2>2. CASE Replaced(r)
    <3>1. PICK kept \in SUBSET (DOMAIN cached \ OfKey(key[r])) :
            DOMAIN cached' = kept \cup {Len(sessions) + 1}
      BY <2>2 DEF Replaced
    <3> QED
      BY <2>1, <3>1
  <2> QED
    BY <2>2 DEF Effect, OnCache
<1>2. \A s \in DOMAIN sessions : Outdated(s)' = Outdated(s)
  BY <1>0 DEF Effect, OnSessions, Outdated
<1>3. ASSUME NEW q \in lost' \ lost
      PROVE  /\ q \in Requests
             /\ \/ kind = "codex" /\ pc'[q] = "unanswered"
                \/ kind = "codex" /\ pc'[q] = "confirming" /\ Outdated(sess[q])' /\ sess'[q] = sess[q]
                \/ /\ kind = "pi" /\ pc'[q] \in {"queued", "running", "cancelling"}
                   /\ sess'[q] \notin DOMAIN cached'
  <2>1. CASE /\ q = r /\ kind = "codex" /\ sess'[r] = sess[r]
             /\ \/ pc'[r] = "unanswered"
                \/ pc'[r] = "confirming" /\ Outdated(sess[r]) /\ sess[r] \in DOMAIN sessions
    <3>1. pc'[r] = "unanswered" \/ (pc'[r] = "confirming" /\ Outdated(sess[r])')
      <4>1. sess[r] \in DOMAIN sessions => sessions'[sess[r]].identity = sessions[sess[r]].identity
        BY DEF Effect, OnSessions
      <4> QED
        BY <1>0, <2>1, <4>1 DEF Outdated
    <3> QED
      BY <2>1, <3>1
  <2>2. CASE /\ q \in Requests \ {r} /\ kind = "pi" /\ pc[q] \in {"queued", "running"}
             /\ key[q] = key[r] /\ Replaced(r)
    <3>1. pc'[q] = pc[q] /\ sess'[q] = sess[q]
      BY <2>2 DEF Effect, OnControl
    <3>2. sess[q] \in DOMAIN sessions /\ sessions[sess[q]].key = key[r]
      BY <2>2 DEF Inv, Held, Admitted, Holding
    <3>3. sess[q] \notin DOMAIN cached'
      <4>1. Len(sessions) + 1 \notin DOMAIN sessions
        BY <1>0
      <4> QED
        BY <2>2, <3>2, <4>1 DEF Replaced, OfKey
    <3> QED
      BY <2>2, <3>1, <3>3
  <2> QED
    BY <2>1, <2>2 DEF Effect, OnHistory
<1>4. ASSUME NEW q \in lost
      PROVE  \/ kind = "codex" /\ pc'[q] = "unanswered"
             \/ kind = "codex" /\ pc'[q] = "confirming" /\ Outdated(sess[q])' /\ sess'[q] = sess[q]
             \/ kind = "pi" /\ pc'[q] \in {"unanswered", "abandoned"}
             \/ /\ kind = "pi" /\ pc'[q] \in {"queued", "running", "cancelling"}
                /\ sess'[q] \notin DOMAIN cached'
  <2>0. q \in Requests
    BY <1>0
  <2>1. CASE kind = "codex" /\ pc[q] = "unanswered"
    BY <2>0, <2>1 DEF Effect, OnControl, Done
  <2>2. CASE kind = "codex" /\ pc[q] = "confirming" /\ Outdated(sess[q])
    <3>1. sess[q] \in DOMAIN sessions
      BY <2>0, <2>2 DEF Inv, Held, Admitted, Holding
    <3>2. Outdated(sess[q])' \/ sess'[q] # sess[q]
      <4>1. sessions'[sess[q]].identity = sessions[sess[q]].identity
        BY <3>1 DEF Effect, OnSessions
      <4> QED
        BY <1>0, <2>2, <4>1 DEF Outdated
    <3>3. CASE q = r
      BY <2>2, <3>3 DEF Effect, OnHistory
    <3>4. CASE q # r
      <4>1. pc'[q] = pc[q] /\ sess'[q] = sess[q]
        BY <2>0, <3>4 DEF Effect, OnControl
      <4> QED
        BY <2>2, <3>2, <4>1
    <3> QED
      BY <3>3, <3>4
  <2>3. CASE kind = "pi" /\ pc[q] \in {"unanswered", "abandoned"}
    BY <2>0, <2>3 DEF Effect, OnControl, Done
  <2>4. CASE kind = "pi" /\ pc[q] \in {"queued", "running", "cancelling"} /\ ~ Current(sess[q])
    <3>1. sess[q] \in DOMAIN sessions /\ sess[q] \notin DOMAIN cached'
      BY <1>1, <2>0, <2>4 DEF Inv, Held, Admitted, Holding, Current
    <3>2. CASE q = r
      BY <2>4, <3>1, <3>2 DEF Effect, OnHistory
    <3>3. CASE q # r
      BY <2>0, <2>4, <3>1, <3>3 DEF Effect, OnControl
    <3> QED
      BY <3>2, <3>3
  <2> QED
    BY <2>1, <2>2, <2>3, <2>4 DEF Inv, LostRefused
<1>5. lost' \subseteq Requests
  BY <1>0, <1>3
<1>6. LostRefused'
  BY <1>0, <1>3, <1>4 DEF LostRefused, Current
<1> QED
  BY <1>5, <1>6

(***************************************************************************)
(* The cache.                                                              *)
(***************************************************************************)
LEMMA CachePlaces ==
  ASSUME Typed, CacheBounded
  PROVE  /\ \A ss \in SUBSET DOMAIN cached :
              DOMAIN Keeping(ss) = ss /\ Keeping(ss) \in [ss -> Nat \ {0}]
         /\ \A ss \in SUBSET DOMAIN cached, s \in DOMAIN sessions \cup {Len(sessions) + 1} :
              /\ DOMAIN Latest(Keeping(ss), s) = ss \cup {s}
              /\ Latest(Keeping(ss), s) \in [ss \cup {s} -> Nat \ {0}]
<1>1. IsFiniteSet(DOMAIN cached)
  <2>1. DOMAIN sessions = 1 .. Len(sessions) /\ Len(sessions) \in Nat
    BY DEF Typed
  <2>2. IsFiniteSet(DOMAIN sessions)
    BY <2>1, FS_Interval
  <2> QED
    BY <2>2, FS_Subset DEF CacheBounded
<1>2. ASSUME NEW ss \in SUBSET DOMAIN cached
      PROVE  /\ DOMAIN Keeping(ss) = ss /\ Keeping(ss) \in [ss -> Nat \ {0}]
             /\ Cardinality(ss) \in Nat
  <2>1. Cardinality(ss) \in Nat
    BY <1>1, FS_Subset, FS_CardinalityType
  <2>2. ASSUME NEW s \in ss
        PROVE  Cardinality({q \in ss : cached[q] <= cached[s]}) \in Nat \ {0}
    <3> DEFINE S == {q \in ss : cached[q] <= cached[s]}
    <3>1. s \in S
      BY DEF CacheBounded
    <3>2. IsFiniteSet(S)
      BY <1>1, FS_Subset
    <3> QED
      BY <3>1, <3>2, FS_CardinalityType, FS_EmptySet
  <2> QED
    BY <2>1, <2>2 DEF Keeping
<1>3. ASSUME NEW ss \in SUBSET DOMAIN cached, NEW s
      PROVE  /\ DOMAIN Latest(Keeping(ss), s) = ss \cup {s}
             /\ Latest(Keeping(ss), s) \in [ss \cup {s} -> Nat \ {0}]
  BY <1>2 DEF Latest
<1> QED
  BY <1>2, <1>3

\* A use, a removal and making room only take sessions out of the cache.
LEMMA CacheShrinks ==
  ASSUME Inv, NEW r \in Requests, NEW s,
         \/ cached' = cached \/ cached' = Touched(s) \/ cached' = Without({s})
         \/ \E ss \in SUBSET DOMAIN cached : cached' = Keeping(ss)
  PROVE  OnCache(r)
<1>1. Typed /\ CacheBounded
  BY DEF Inv
<1>2. CASE cached' = cached
  BY <1>1, <1>2 DEF OnCache, CacheBounded
<1>3. ASSUME NEW ss \in SUBSET DOMAIN cached, cached' = Keeping(ss)
      PROVE  OnCache(r)
  BY <1>1, <1>3, CachePlaces DEF OnCache
<1>4. CASE cached' = Without({s})
  BY <1>3, <1>4 DEF Without
<1>5. CASE cached' = Touched(s) /\ Current(s)
  <2>1. cached' = Latest(Keeping(DOMAIN cached \ {s}), s)
    BY <1>5 DEF Touched, Without
  <2>2. s \in DOMAIN sessions /\ (DOMAIN cached \ {s}) \cup {s} = DOMAIN cached
    BY <1>1, <1>5 DEF Current, CacheBounded
  <2> QED
    BY <1>1, <2>1, <2>2, CachePlaces DEF OnCache
<1>6. CASE cached' = Touched(s) /\ ~ Current(s)
  BY <1>2, <1>6 DEF Touched
<1> QED
  BY <1>2, <1>3, <1>4, <1>5, <1>6

(***************************************************************************)
(* The lock of a session.                                                  *)
(***************************************************************************)
\* r takes the lock of session s of `all`, or queues for it.
Locking(r, s, all) ==
  /\ sessions' \in Seq(Session) /\ Len(sessions') = Len(all)
  /\ \A q \in DOMAIN all :
       /\ sessions'[q].key = all[q].key /\ sessions'[q].identity = all[q].identity
       /\ sessions'[q].epoch = all[q].epoch
       /\ all[q].holder \notin {None, r} => sessions'[q].holder = all[q].holder
  /\ \/ pc' = [pc EXCEPT ![r] = "queued"] /\ turn' = turn
     \/ /\ kind = "codex" /\ pc' = [pc EXCEPT ![r] = "matching"] /\ turn' = turn
        /\ sessions'[s].holder = r
     \/ /\ kind # "codex" /\ pc' = [pc EXCEPT ![r] = "running"]
        /\ turn' = [turn EXCEPT ![r] = <<s, all[s].epoch>>]
        /\ sessions'[s].holder = r

LEMMA HoldsLocks ==
  ASSUME NEW r \in Requests, NEW all \in Seq(Session), NEW s \in DOMAIN all,
         all[s].holder = None, Holds(r, s, all)
  PROVE  Locking(r, s, all)
<1> DEFINE x == [all[s] EXCEPT !.holder = r]
<1>1. all[s] \in Session
  OBVIOUS
<1>2. /\ x \in Session /\ x.key = all[s].key /\ x.identity = all[s].identity
      /\ x.epoch = all[s].epoch /\ x.holder = r
  BY <1>1 DEF Session
<1>3. sessions' = [all EXCEPT ![s] = x]
  BY DEF Holds
<1> HIDE DEF x
<1>4. /\ sessions' \in Seq(Session) /\ Len(sessions') = Len(all)
      /\ sessions'[s] = x /\ \A q \in DOMAIN all \ {s} : sessions'[q] = all[q]
  BY <1>2, <1>3
<1> QED
  BY <1>2, <1>4 DEF Locking, Holds, Go

LEMMA LocksLocks ==
  ASSUME NEW r \in Requests, NEW all \in Seq(Session), NEW s \in DOMAIN all, Locks(r, s, all)
  PROVE  Locking(r, s, all)
<1>1. CASE all[s].holder = None /\ Holds(r, s, all)
  BY <1>1, HoldsLocks
<1>2. CASE Waits(r, s, all)
  <2> DEFINE x == [all[s] EXCEPT !.queue = Append(@, r)]
  <2>1. all[s] \in Session
    OBVIOUS
  <2> DEFINE longer == Append(all[s].queue, r)
  <2>5. longer \in Seq(Requests)
    BY <2>1 DEF Session
  <2>6. x = [all[s] EXCEPT !.queue = longer]
    BY <2>1 DEF Session
  <2> HIDE DEF longer
  <2>2. /\ x \in Session /\ x.key = all[s].key /\ x.identity = all[s].identity
        /\ x.epoch = all[s].epoch /\ x.holder = all[s].holder
    BY <2>1, <2>5, <2>6 DEF Session
  <2>3. sessions' = [all EXCEPT ![s] = x]
    BY <1>2 DEF Waits
  <2> HIDE DEF x
  <2>4. /\ sessions' \in Seq(Session) /\ Len(sessions') = Len(all)
        /\ sessions'[s] = x /\ \A q \in DOMAIN all \ {s} : sessions'[q] = all[q]
    BY <2>2, <2>3
  <2> QED
    BY <1>2, <2>2, <2>4 DEF Locking, Waits, Go
<1> QED
  BY <1>1, <1>2 DEF Locks

\* Whoever comes for a lock, by the session it has or by one it gets.
LEMMA LockingEffect ==
  ASSUME Inv, NEW r \in Requests, NEW all \in Seq(Session), NEW s \in DOMAIN all,
         Locking(r, s, all),
         Len(sessions) <= Len(all), all[s].key = key[r],
         \A q \in DOMAIN sessions :
           /\ all[q].key = sessions[q].key /\ all[q].identity = sessions[q].identity
           /\ all[q].epoch = sessions[q].epoch /\ all[q].holder = sessions[q].holder,
         \A q \in DOMAIN all \ DOMAIN sessions :
           all[q].epoch = 0 /\ all[q].identity = Bound(seen[r]) /\ pc[r] = "resolved",
         sess' = [sess EXCEPT ![r] = s], pc[r] \notin Done, pc[r] # "idle",
         seen' = seen \/ seen' = [seen EXCEPT ![r] = None],
         UNCHANGED <<kind, agent, changes, key>>
  PROVE  OnControl(r) /\ OnSessions(r)
<1>1. /\ Typed /\ sessions \in Seq(Session) /\ all[s] \in Session
  BY DEF Inv, Typed
<1>2. s \in Nat /\ all[s].epoch \in Nat
  BY <1>1 DEF Session
<1>3. \A q \in DOMAIN sessions : q \in DOMAIN all
  BY <1>1
<1>4. OnControl(r)
  <2>1. s \in 0 .. Len(sessions') /\ sess' \in [Requests -> 0 .. Len(sessions')]
    <3>1. Len(sessions') = Len(all) /\ Len(all) \in Nat /\ Len(sessions) \in Nat
      BY <1>1 DEF Locking
    <3>2. s \in 0 .. Len(sessions')
      BY <3>1
    <3>3. \A q \in Requests : sess[q] \in 0 .. Len(sessions')
      BY <1>1, <3>1 DEF Typed
    <3>4. sess \in [Requests -> 0 .. Len(sessions')]
      BY <1>1, <3>3 DEF Typed
    <3> QED
      BY <3>2, <3>4
  <2>2. /\ pc' \in [Requests -> Steps] /\ pc'[r] \in {"queued", "matching", "running"}
        /\ \A q \in Requests \ {r} : pc'[q] = pc[q]
        /\ pc'[r] = "matching" => kind = "codex"
    BY <1>1 DEF Typed, Locking, Steps, Running
  <2>3. /\ turn' \in [Requests -> {<<>>} \cup (Nat \X Nat)]
        /\ \A q \in Requests \ {r} : turn'[q] = turn[q]
    <3> DEFINE pair == <<s, all[s].epoch>>
    <3>1. pair \in {<<>>} \cup (Nat \X Nat)
      BY <1>2
    <3>2. turn' = turn \/ turn' = [turn EXCEPT ![r] = pair]
      BY DEF Locking
    <3> HIDE DEF pair
    <3> QED
      BY <1>1, <3>1, <3>2 DEF Typed
  <2>4. /\ key' \in [Requests -> Keys \cup {0}] /\ seen' \in [Requests -> Identities \cup {None}]
        /\ \A q \in Requests \ {r} : seen'[q] = seen[q] /\ sess'[q] = sess[q]
    BY <1>1 DEF Typed
  <2> QED
    BY <2>1, <2>2, <2>3, <2>4 DEF OnControl
<1>5. pc'[r] \in {"queued", "matching", "running"} /\ sess'[r] = s
  BY <1>1 DEF Typed, Locking
<1>6. /\ sessions' \in Seq(Session) /\ Len(sessions) <= Len(sessions')
      /\ DOMAIN sessions' = DOMAIN all
  BY <1>1 DEF Locking
<1>7. \A q \in DOMAIN sessions :
        /\ sessions'[q].key = sessions[q].key /\ sessions'[q].identity = sessions[q].identity
        /\ sessions'[q].epoch = sessions[q].epoch
        /\ sessions[q].holder \notin {None, r} => sessions'[q].holder = sessions[q].holder
  BY <1>3 DEF Locking
<1>8. \A q \in DOMAIN sessions' \ DOMAIN sessions :
        /\ sessions'[q].epoch = 0 /\ sessions'[q].identity = Bound(seen[r])
        /\ pc[r] = "resolved"
  BY <1>6 DEF Locking
<1>9. /\ s \in DOMAIN sessions' /\ sessions'[s].key = key'[r]
      /\ pc'[r] \in {"matching", "running"} => sessions'[s].holder = r
      /\ pc'[r] = "running" => turn'[r] = <<s, sessions'[s].epoch>>
  BY <1>1, <1>6 DEF Locking, Typed
<1> QED
  BY <1>4, <1>5, <1>6, <1>7, <1>8, <1>9 DEF OnSessions, Holding, Running

\* A resolved request gets session s of `all`, in which one may be new.
LEMMA GetsEffect ==
  ASSUME Inv, NEW r \in Requests, NEW all \in Seq(Session), NEW s \in DOMAIN all,
         Gets(r, s, all), pc[r] = "resolved",
         Len(sessions) <= Len(all), all[s].key = key[r],
         \A q \in DOMAIN sessions : all[q] = sessions[q],
         \A q \in DOMAIN all \ DOMAIN sessions :
           all[q].epoch = 0 /\ all[q].identity = Bound(seen[r]),
         UNCHANGED <<kind, agent, changes, key>>
  PROVE  OnControl(r) /\ OnSessions(r)
<1>1. sess' = [sess EXCEPT ![r] = s] /\ seen' = [seen EXCEPT ![r] = None]
  BY DEF Gets
<1>2. CASE kind # "claude"
  <2>1. Locking(r, s, all)
    BY <1>2, LocksLocks DEF Gets
  <2> QED
    BY <1>1, <2>1, LockingEffect DEF Done
<1>3. CASE kind = "claude"
  <2>1. Go(r, "given") /\ sessions' = all /\ UNCHANGED turn
    BY <1>3 DEF Gets
  <2>2. Typed
    BY DEF Inv
  <2>3. OnControl(r)
    BY <1>1, <1>3, <2>1, <2>2 DEF Typed, OnControl, Go, Steps, Done
  <2>4. pc'[r] = "given" /\ sess'[r] = s
    BY <1>1, <2>1, <2>2 DEF Typed, Go
  <2> QED
    BY <2>1, <2>2, <2>3, <2>4 DEF Typed, OnSessions, Holding, Running
<1> QED
  BY <1>2, <1>3

\* A request that leaves gives its lock back and lets x be its session.
LEMMA LeaveEffect ==
  ASSUME Inv, NEW r \in Requests, NEW step \in Done, NEW x \in Session,
         pc[r] \in Holding, Leave(r, step, x),
         x.key = sessions[sess[r]].key, x.identity = sessions[sess[r]].identity,
         \/ x.epoch = sessions[sess[r]].epoch
         \/ x.epoch = sessions[sess[r]].epoch + 1 /\ pc[r] \in Running,
         step = "abandoned" =>
           x.epoch = sessions[sess[r]].epoch + 1 /\ turn[r] = <<sess[r], sessions[sess[r]].epoch>>,
         UNCHANGED <<kind, agent, changes, key, seen, sess, turn>>
  PROVE  /\ OnControl(r) /\ OnSessions(r)
         /\ pc'[r] = step
<1> DEFINE s == sess[r]
           y == [x EXCEPT !.holder = None]
<1>1. Typed /\ s \in DOMAIN sessions /\ sessions[s].holder = r
  BY DEF Inv, Held, Admitted
<1>2. sessions \in Seq(Session) /\ sessions[s] \in Session /\ sessions[s].epoch \in Nat
  <2>1. sessions[s] \in Session
    BY <1>1 DEF Typed
  <2> QED
    BY <1>1, <2>1 DEF Typed, Session
<1>3. /\ y \in Session /\ y.key = x.key /\ y.identity = x.identity /\ y.epoch = x.epoch
  BY DEF Session
<1>4. sessions' = [sessions EXCEPT ![s] = y] /\ pc' = [pc EXCEPT ![r] = step]
  BY DEF Leave, Go
<1> HIDE DEF y
<1>5. /\ sessions' \in Seq(Session) /\ Len(sessions') = Len(sessions)
      /\ sessions'[s] = y /\ \A q \in DOMAIN sessions \ {s} : sessions'[q] = sessions[q]
  BY <1>1, <1>2, <1>3, <1>4
<1>6. OnControl(r)
  BY <1>1, <1>4, <1>5 DEF Typed, OnControl, Steps, Done, Holding
<1>7. pc'[r] = step
  BY <1>1, <1>4 DEF Typed
<1>8. step \notin Admitted \cup Holding
  BY DEF Done, Admitted, Holding
<1>9. step = "abandoned" =>
        \E e \in 0 .. sessions'[s].epoch - 1 : turn'[r] = <<s, e>>
  BY <1>2, <1>3, <1>5
<1>10. \A q \in DOMAIN sessions :
         \/ sessions'[q].epoch = sessions[q].epoch
         \/ /\ sessions'[q].epoch = sessions[q].epoch + 1
            /\ sess[r] = q /\ sess'[r] = q /\ pc[r] \in Running /\ pc'[r] \in Done
  BY <1>3, <1>5, <1>7
<1>11. \A q \in DOMAIN sessions :
         /\ sessions'[q].key = sessions[q].key /\ sessions'[q].identity = sessions[q].identity
         /\ sessions[q].holder \notin {None, r} => sessions'[q].holder = sessions[q].holder
  BY <1>1, <1>3, <1>5
<1>12. Running \subseteq Holding /\ DOMAIN sessions' = DOMAIN sessions
  BY <1>2, <1>5 DEF Running, Holding
<1> QED
  BY <1>1, <1>5, <1>6, <1>7, <1>8, <1>9, <1>10, <1>11, <1>12 DEF OnSessions

\* A request that changes no session ends, or is told to cancel its turn.
LEMMA AloneEffect ==
  ASSUME Inv, NEW r \in Requests, NEW step \in {"unanswered", "cancelling"}, Go(r, step),
         pc[r] \notin Done, step = "cancelling" => pc[r] = "running",
         UNCHANGED <<kind, agent, changes, sessions, key, seen, sess, turn>>
  PROVE  /\ OnControl(r) /\ OnSessions(r)
         /\ pc'[r] = step
<1>1. Typed
  BY DEF Inv
<1>2. pc'[r] = step /\ pc' = [pc EXCEPT ![r] = step]
  BY <1>1 DEF Go, Typed
<1>3. OnControl(r)
  BY <1>1, <1>2 DEF Typed, OnControl, Steps, Running, Done
<1>4. step = "cancelling" =>
        /\ sess[r] \in DOMAIN sessions /\ sessions[sess[r]].key = key[r]
        /\ sessions[sess[r]].holder = r /\ turn[r] = <<sess[r], sessions[sess[r]].epoch>>
  BY DEF Inv, Held, Turns, Admitted, Holding, Running
<1> QED
  BY <1>1, <1>2, <1>3, <1>4 DEF Typed, OnSessions, Admitted, Holding, Running

LEMMA SessionChanged ==
  ASSUME NEW x \in Session, NEW e \in Nat, NEW b \in BOOLEAN
  PROVE  /\ [x EXCEPT !.epoch = e] \in Session
         /\ [x EXCEPT !.started = b] \in Session
         /\ [x EXCEPT !.epoch = e, !.started = b] \in Session
         /\ \A y \in {[x EXCEPT !.epoch = e], [x EXCEPT !.started = b],
                      [x EXCEPT !.epoch = e, !.started = b]} :
              y.key = x.key /\ y.identity = x.identity /\ y.holder = x.holder
         /\ [x EXCEPT !.epoch = e].epoch = e /\ [x EXCEPT !.started = b].epoch = x.epoch
         /\ [x EXCEPT !.epoch = e, !.started = b].epoch = e
BY DEF Session

(***************************************************************************)
(* The steps.                                                              *)
(***************************************************************************)
LEMMA ResolveEffect == ASSUME Inv, NEW r \in Requests, Resolve(r)
                       PROVE  Effect(r)
<1>1. Typed
  BY DEF Inv
<1>2. OnCache(r)
  BY CacheShrinks DEF Resolve
<1>3. OnHistory(r)
  BY DEF Resolve, OnHistory, Idle
<1>4. CASE agent.status = "installed"
  <2>1. /\ pc[r] = "idle" /\ pc' = [pc EXCEPT ![r] = "resolved"]
        /\ seen' = [seen EXCEPT ![r] = Identity]
        /\ UNCHANGED <<kind, agent, changes, sessions, sess, turn>>
    BY <1>4 DEF Resolve, Go, Idle
  <2>2. PICK k \in Keys : key' = [key EXCEPT ![r] = k]
    BY <1>4 DEF Resolve
  <2>3. Identity \in Identities
    BY <1>1 DEF Typed, Identity, Identities
  <2>4. OnControl(r)
    BY <1>1, <2>1, <2>2, <2>3 DEF Typed, OnControl, Steps, Done
  <2>5. OnSessions(r)
    BY <1>1, <2>1 DEF Typed, OnSessions, Admitted, Holding, Running
  <2> QED
    BY <1>2, <1>3, <2>4, <2>5 DEF Effect
<1>5. CASE agent.status # "installed"
  <2>1. OnControl(r) /\ OnSessions(r)
    BY <1>5, AloneEffect DEF Resolve, Idle, Done
  <2> QED
    BY <1>2, <1>3, <2>1 DEF Effect
<1> QED
  BY <1>4, <1>5

LEMMA ReuseEffect == ASSUME Inv, NEW r \in Requests, NEW n \in Nat, Reuse(r, n)
                     PROVE  Effect(r)
<1>1. PICK s \in Reusable(r, n) : Gets(r, s, sessions) /\ cached' = Touched(s)
  BY DEF Reuse
<1>2. s \in DOMAIN sessions /\ sessions[s].key = key[r]
  BY DEF Reusable, OfKey, Inv, CacheBounded
<1>3. OnCache(r)
  BY <1>1, CacheShrinks
<1>4. OnHistory(r)
  BY DEF Reuse, OnHistory
<1>5. /\ sessions \in Seq(Session) /\ pc[r] = "resolved"
      /\ UNCHANGED <<kind, agent, changes, key>>
  BY DEF Reuse, Inv, Typed
<1>6. Len(sessions) <= Len(sessions) /\ Len(sessions) \in Nat
  BY <1>5
<1>7. OnControl(r) /\ OnSessions(r)
  BY <1>1, <1>2, <1>5, <1>6, GetsEffect
<1> QED
  BY <1>3, <1>4, <1>7 DEF Effect

LEMMA CreateEffect == ASSUME Inv, NEW r \in Requests, NEW n \in Nat, Create(r, n)
                      PROVE  Effect(r)
<1> DEFINE s == Len(sessions) + 1
           x == NewSession(key[r], seen[r])
           all == Append(sessions, x)
           kept == Kept(Unexpired(r, n))
<1>1. /\ pc[r] = "resolved" /\ Gets(r, s, all) /\ cached' = Latest(Keeping(kept), s)
      /\ UNCHANGED <<kind, agent, changes, key>>
      /\ kind = "claude" \/ Cardinality(kept) < SessionMax
  BY DEF Create
<1>2. /\ Typed /\ sessions \in Seq(Session) /\ Len(sessions) \in Nat
      /\ key[r] \in Keys /\ seen[r] \in Identities
  BY <1>1 DEF Inv, Typed, Numbered
<1>3. /\ x \in Session /\ x.key = key[r] /\ x.epoch = 0 /\ x.identity = Bound(seen[r])
  BY <1>2 DEF NewSession, Session, Bound
<1>4. /\ all \in Seq(Session) /\ Len(all) = s /\ all[s] = x
      /\ \A q \in DOMAIN sessions : all[q] = sessions[q]
      /\ \A q \in DOMAIN all \ DOMAIN sessions : q = s
      /\ s \in DOMAIN all
  <2> HIDE DEF x
  <2> QED
    BY <1>2, <1>3
<1>5. kept \in SUBSET (DOMAIN cached \ OfKey(key[r]))
  BY DEF Kept, Unexpired
<1> HIDE DEF x, all, kept
<1>6. OnControl(r) /\ OnSessions(r)
  BY <1>1, <1>2, <1>3, <1>4, GetsEffect
<1>7. Len(sessions') = s /\ sessions'[s].key = key[r]
  <2>1. CASE kind = "claude"
    BY <1>1, <1>3, <1>4, <2>1 DEF Gets
  <2>2. CASE kind # "claude"
    <3>1. Locking(r, s, all)
      BY <1>1, <1>4, <2>2, LocksLocks DEF Gets
    <3> QED
      BY <1>3, <1>4, <3>1 DEF Locking
  <2> QED
    BY <2>1, <2>2
<1>8. /\ DOMAIN cached' = kept \cup {s}
      /\ cached' \in [DOMAIN cached' -> Nat \ {0}]
  <2>1. Typed /\ CacheBounded /\ kept \in SUBSET DOMAIN cached
    BY <1>5 DEF Inv
  <2> QED
    BY <1>1, <2>1, CachePlaces
<1>9. Replaced(r)
  BY <1>1, <1>5, <1>7, <1>8 DEF Replaced
<1>10. OnCache(r)
  BY <1>8, <1>9 DEF OnCache
<1>11. OnHistory(r)
  <2>1. \A q \in lost' \ lost :
          /\ q \in Requests \ {r} /\ kind = "pi" /\ pc[q] \in {"queued", "running"}
          /\ key[q] = key[r]
    BY DEF Create
  <2> QED
    BY <1>1, <1>9, <2>1 DEF OnHistory
<1> QED
  BY <1>6, <1>10, <1>11 DEF Effect

LEMMA BusyEffect == ASSUME Inv, NEW r \in Requests, NEW n \in Nat, Busy(r, n)
                    PROVE  Effect(r)
<1>1. OnControl(r) /\ OnSessions(r)
  BY AloneEffect DEF Busy, Done
<1>2. Kept(Unexpired(r, n)) \in SUBSET DOMAIN cached
  BY DEF Kept, Unexpired
<1>3. OnCache(r)
  BY <1>2, CacheShrinks DEF Busy
<1>4. OnHistory(r)
  BY DEF Busy, OnHistory
<1> QED
  BY <1>1, <1>3, <1>4 DEF Effect

LEMMA StreamEffect == ASSUME Inv, NEW r \in Requests, Stream(r)
                      PROVE  Effect(r)
<1>1. /\ sessions \in Seq(Session) /\ sess[r] \in DOMAIN sessions
      /\ sessions[sess[r]].key = key[r] /\ kind = "claude"
      /\ sess = [sess EXCEPT ![r] = sess[r]]
  BY DEF Inv, Typed, Held, Stream, Admitted
<1>2. Locking(r, sess[r], sessions)
  BY <1>1, LocksLocks DEF Stream
<1>3. /\ pc[r] = "given" /\ sess' = [sess EXCEPT ![r] = sess[r]] /\ Len(sessions) \in Nat
      /\ UNCHANGED <<kind, agent, changes, key>> /\ seen' = seen
      /\ pc[r] \notin Done /\ pc[r] # "idle" /\ Len(sessions) <= Len(sessions)
      /\ \A q \in DOMAIN sessions \ DOMAIN sessions :
           /\ sessions[q].epoch = 0 /\ sessions[q].identity = Bound(seen[r])
           /\ pc[r] = "resolved"
  BY <1>1 DEF Stream, Done
<1>4. OnControl(r) /\ OnSessions(r)
  BY <1>1, <1>2, <1>3, LockingEffect
<1>5. OnCache(r)
  BY CacheShrinks DEF Stream
<1>6. OnHistory(r)
  BY <1>1 DEF Stream, OnHistory
<1> QED
  BY <1>4, <1>5, <1>6 DEF Effect

LEMMA QueueChanged ==
  ASSUME Inv, NEW s \in DOMAIN sessions, NEW q \in Seq(Requests)
  PROVE  LET all == [sessions EXCEPT ![s].queue = q]
         IN  /\ all \in Seq(Session) /\ Len(all) = Len(sessions)
             /\ \A t \in DOMAIN sessions :
                  /\ all[t].key = sessions[t].key /\ all[t].identity = sessions[t].identity
                  /\ all[t].epoch = sessions[t].epoch /\ all[t].holder = sessions[t].holder
<1> DEFINE x == [sessions[s] EXCEPT !.queue = q]
<1>1. sessions \in Seq(Session) /\ sessions[s] \in Session
  <2>1. sessions \in Seq(Session)
    BY DEF Inv, Typed
  <2> QED
    BY <2>1
<1>2. /\ x \in Session /\ x.key = sessions[s].key /\ x.identity = sessions[s].identity
      /\ x.epoch = sessions[s].epoch /\ x.holder = sessions[s].holder
  BY <1>1 DEF Session
<1>3. [sessions EXCEPT ![s].queue = q] = [sessions EXCEPT ![s] = x]
  OBVIOUS
<1> HIDE DEF x
<1> QED
  BY SMTT(30), <1>1, <1>2, <1>3

LEMMA TakeEffect == ASSUME Inv, NEW r \in Requests, Take(r)
                    PROVE  Effect(r)
<1> DEFINE s == sess[r]
           rest == Tail(sessions[s].queue)
           woken == [sessions EXCEPT ![s].queue = rest]
<1>1. /\ sessions \in Seq(Session) /\ s \in DOMAIN sessions /\ sessions[s].key = key[r]
      /\ sess = [sess EXCEPT ![r] = s] /\ Len(sessions) \in Nat
  BY DEF Inv, Typed, Held, Take, Admitted
<1>2. rest \in Seq(Requests)
  <2>1. sessions[s] \in Session
    BY <1>1
  <2>2. sessions[s].queue \in Seq(Requests) /\ sessions[s].queue # <<>>
    BY <2>1 DEF Session, Take
  <2> QED
    BY <2>2
<1>3. /\ pc[r] = "queued" /\ sessions[s].holder = None
      /\ \/ (kind = "claude" \/ Current(s)) /\ Holds(r, s, woken)
         \/ /\ kind # "claude" /\ ~ Current(s) /\ Go(r, "unanswered")
            /\ sessions' = woken /\ UNCHANGED turn
      /\ UNCHANGED <<kind, agent, changes, cached, key, seen, sess, lost>>
  BY DEF Take, Locked
<1> HIDE DEF rest
<1>4. /\ woken \in Seq(Session) /\ Len(woken) = Len(sessions)
      /\ \A t \in DOMAIN sessions :
           /\ woken[t].key = sessions[t].key /\ woken[t].identity = sessions[t].identity
           /\ woken[t].epoch = sessions[t].epoch /\ woken[t].holder = sessions[t].holder
  BY <1>1, <1>2, QueueChanged
<1> HIDE DEF woken
<1>5. DOMAIN woken = DOMAIN sessions
  BY <1>1, <1>4
<1>6. OnCache(r)
  BY <1>3, CacheShrinks
<1>7. CASE (kind = "claude" \/ Current(s)) /\ Holds(r, s, woken)
  <2>1. Locking(r, s, woken)
    BY <1>1, <1>3, <1>4, <1>5, <1>7, HoldsLocks
  <2>2. OnControl(r) /\ OnSessions(r)
    BY SMTT(30), <1>1, <1>3, <1>4, <1>5, <2>1, LockingEffect DEF Done
  <2>3. OnHistory(r)
    BY <1>3, <1>7 DEF OnHistory
  <2> QED
    BY <1>6, <2>2, <2>3 DEF Effect
<1>8. CASE ~ Current(s) /\ Go(r, "unanswered") /\ sessions' = woken /\ UNCHANGED turn
  <2>1. Typed
    BY DEF Inv
  <2>2. pc'[r] = "unanswered" /\ pc' = [pc EXCEPT ![r] = "unanswered"]
    BY <1>8, <2>1 DEF Typed, Go
  <2>3. OnControl(r)
    BY <1>3, <1>4, <1>8, <2>1, <2>2 DEF Typed, OnControl, Steps, Done
  <2>4. OnSessions(r)
    BY <1>1, <1>3, <1>4, <1>5, <1>8, <2>2 DEF OnSessions, Admitted, Holding, Running
  <2>5. OnHistory(r)
    BY <1>3, <2>2 DEF OnHistory
  <2> QED
    BY <1>6, <2>3, <2>4, <2>5 DEF Effect
<1> QED
  BY <1>3, <1>7, <1>8

\* What a request that has its lock knows of its session.
LEMMA HolderKnows ==
  ASSUME Inv, NEW r \in Requests, pc[r] \in Holding
  PROVE  /\ Typed /\ sess[r] \in DOMAIN sessions /\ sessions[sess[r]] \in Session
         /\ sessions[sess[r]].epoch \in Nat /\ sessions[sess[r]].epoch + 1 \in Nat
         /\ sessions[sess[r]].key = key[r] /\ sessions[sess[r]].holder = r
         /\ pc[r] \in Running => turn[r] = <<sess[r], sessions[sess[r]].epoch>>
         /\ kind = "codex" => sessions[sess[r]].identity \in Identities
<1>1. Typed /\ sess[r] \in DOMAIN sessions
  BY DEF Inv, Held, Admitted
<1>2. sessions[sess[r]] \in Session
  BY <1>1 DEF Typed
<1> QED
  BY <1>1, <1>2 DEF Inv, Held, Admitted, Turns, Numbered, Session

\* What the registry says cannot be what an outdated session was made for.
LEMMA OutdatedDiffers ==
  ASSUME Inv, NEW r \in Requests, pc[r] \in Holding, kind = "codex", Outdated(sess[r])
  PROVE  ~ Matches(sess[r])
<1>1. sessions[sess[r]].identity.installed \in Nat /\ agent.installed \in Nat
  BY HolderKnows DEF Identities, Typed
<1> QED
  BY <1>1 DEF Outdated, Matches, Identity

LEMMA MatchEffect == ASSUME Inv, NEW r \in Requests, Match(r)
                     PROVE  Effect(r)
<1> DEFINE s == sess[r]
<1>1. pc[r] = "matching" /\ pc[r] \in Holding /\ kind = "codex"
      /\ UNCHANGED <<kind, agent, changes, key, seen, sess, lost>>
  BY DEF Match, Holding, Inv, Held
<1>2. /\ Typed /\ s \in DOMAIN sessions /\ sessions[s] \in Session
      /\ sessions[s].key = key[r] /\ sessions[s].holder = r /\ sessions[s].epoch \in Nat
  BY <1>1, HolderKnows
<1>3. OnHistory(r)
  BY <1>1 DEF OnHistory
<1>4. CASE Matches(s)
  <2>1. /\ pc' = [pc EXCEPT ![r] = "running"] /\ turn' = [turn EXCEPT ![r] = <<s, sessions[s].epoch>>]
        /\ UNCHANGED <<sessions, cached>>
    BY <1>4 DEF Match, Go
  <2>2. turn' \in [Requests -> {<<>>} \cup (Nat \X Nat)]
    <3> DEFINE pair == <<s, sessions[s].epoch>>
    <3>1. pair \in {<<>>} \cup (Nat \X Nat)
      BY <1>2 DEF Typed
    <3> HIDE DEF pair
    <3>2. turn' = [turn EXCEPT ![r] = pair]
      BY <2>1 DEF pair
    <3> QED
      BY <1>2, <3>1, <3>2 DEF Typed
  <2>3. OnControl(r)
    BY <1>1, <1>2, <2>1, <2>2 DEF Typed, OnControl, Steps, Running, Done
  <2>4. OnSessions(r)
    BY <1>1, <1>2, <2>1 DEF Typed, OnSessions
  <2>5. OnCache(r)
    BY <2>1, CacheShrinks
  <2> QED
    BY <1>3, <2>3, <2>4, <2>5 DEF Effect
<1>5. CASE ~ Matches(s)
  <2>1. Leave(r, "unanswered", sessions[s]) /\ cached' = Without({s}) /\ UNCHANGED turn
    BY <1>5 DEF Match
  <2>2. OnControl(r) /\ OnSessions(r)
    BY <1>1, <1>2, <2>1, LeaveEffect DEF Done
  <2>3. OnCache(r)
    BY <2>1, CacheShrinks
  <2> QED
    BY <1>3, <2>2, <2>3 DEF Effect
<1> QED
  BY <1>4, <1>5

LEMMA SucceedEffect == ASSUME Inv, NEW r \in Requests, Succeed(r)
                       PROVE  Effect(r)
<1> DEFINE s == sess[r]
           resumed == [sessions[s] EXCEPT !.started = TRUE]
<1>1. pc[r] = "running" /\ pc[r] \in Holding /\ kind \in Kinds
      /\ UNCHANGED <<kind, agent, changes, key, seen, sess, turn>>
  BY DEF Succeed, Holding, Inv, Typed
<1>2. /\ Typed /\ s \in DOMAIN sessions /\ sessions[s] \in Session
      /\ sessions[s].key = key[r] /\ sessions[s].holder = r /\ sessions[s].epoch \in Nat
      /\ turn[r] = <<s, sessions[s].epoch>>
  BY <1>1, HolderKnows DEF Running
<1>3. /\ resumed \in Session /\ resumed.key = sessions[s].key
      /\ resumed.identity = sessions[s].identity /\ resumed.epoch = sessions[s].epoch
      /\ resumed.holder = r
  BY <1>2, SessionChanged
<1>4. /\ kind = "claude" => Leave(r, "answered", resumed) /\ cached' = Touched(s)
      /\ kind = "pi" =>
           /\ Leave(r, IF Current(s) THEN "answered" ELSE "unanswered", resumed)
           /\ cached' = Touched(s)
      /\ kind = "codex" /\ Current(s) =>
           /\ Go(r, "confirming") /\ sessions' = [sessions EXCEPT ![s] = resumed]
           /\ UNCHANGED cached
      /\ kind = "codex" /\ ~ Current(s) =>
           Leave(r, "unanswered", resumed) /\ UNCHANGED cached
  BY <1>1 DEF Succeed, Kinds
<1>5. /\ kind # "codex" => lost' = lost
      /\ lost' = lost \/ (lost' = lost \cup {r} /\ Outdated(s))
  <2>1. kind = "codex" => sessions[s].identity \in Identities
                            /\ sessions[s].identity.installed <= agent.installed
    BY <1>2 DEF Inv, Numbered
  <2>2. agent.installed \in Nat
    BY <1>2 DEF Typed
  <2>3. agent.installed # sessions[s].identity.installed /\ kind = "codex" => Outdated(s)
    BY <2>1, <2>2 DEF Outdated, Identities
  <2> QED
    BY <2>3 DEF Succeed, Outdated
<1> HIDE DEF resumed
<1>6. OnCache(r)
  BY <1>1, <1>4, CacheShrinks DEF Kinds
<1>7. CASE kind = "codex" /\ Current(s)
  <2>1. pc' = [pc EXCEPT ![r] = "confirming"] /\ sessions' = [sessions EXCEPT ![s] = resumed]
    BY <1>4, <1>7 DEF Go
  <2>2. /\ sessions' \in Seq(Session) /\ Len(sessions') = Len(sessions)
        /\ sessions'[s] = resumed /\ \A q \in DOMAIN sessions \ {s} : sessions'[q] = sessions[q]
    BY <1>2, <1>3, <2>1 DEF Typed
  <2>3. OnControl(r)
    BY <1>1, <1>2, <1>7, <2>1, <2>2 DEF Typed, OnControl, Steps, Done
  <2>4. \A q \in DOMAIN sessions :
          /\ sessions'[q].key = sessions[q].key /\ sessions'[q].identity = sessions[q].identity
          /\ sessions'[q].epoch = sessions[q].epoch /\ sessions'[q].holder = sessions[q].holder
    BY <1>2, <1>3, <2>2
  <2>5. pc'[r] = "confirming" /\ DOMAIN sessions' = DOMAIN sessions
    BY <1>2, <2>1, <2>2 DEF Typed
  <2>6. OnSessions(r)
    BY <1>1, <1>2, <2>2, <2>4, <2>5 DEF OnSessions, Running
  <2>7. OnHistory(r)
    BY <1>1, <1>2, <1>5, <1>7, <2>5 DEF OnHistory
  <2> QED
    BY <1>6, <2>3, <2>6, <2>7 DEF Effect
<1>8. ASSUME ~ (kind = "codex" /\ Current(s)), NEW step \in {"answered", "unanswered"},
             Leave(r, step, resumed),
             kind # "claude" /\ ~ Current(s) => step = "unanswered"
      PROVE  Effect(r)
  <2>1. OnControl(r) /\ OnSessions(r) /\ pc'[r] = step
    BY <1>1, <1>2, <1>3, <1>8, LeaveEffect DEF Done
  <2>2. OnHistory(r)
    BY <1>1, <1>5, <1>8, <2>1 DEF OnHistory
  <2> QED
    BY <1>6, <2>1, <2>2 DEF Effect
<1>9. CASE kind = "claude"
  BY <1>4, <1>8, <1>9
<1>10. CASE kind = "pi" /\ Current(s)
  BY <1>4, <1>8, <1>10
<1>11. CASE kind # "claude" /\ ~ Current(s)
  BY <1>1, <1>4, <1>8, <1>11 DEF Kinds
<1> QED
  BY <1>1, <1>7, <1>9, <1>10, <1>11 DEF Kinds

LEMMA FailEffect == ASSUME Inv, NEW r \in Requests, Fail(r)
                    PROVE  Effect(r)
<1> DEFINE s == sess[r]
           epoch == IF kind = "codex" /\ ~ sessions[s].started
                    THEN sessions[s].epoch + 1 ELSE sessions[s].epoch
           x == [sessions[s] EXCEPT !.epoch = epoch]
<1>1. pc[r] = "running" /\ pc[r] \in Holding
      /\ Leave(r, "unanswered", x) /\ cached' = Touched(s)
      /\ UNCHANGED <<kind, agent, changes, key, seen, sess, turn, lost>>
  BY DEF Fail, Holding
<1>2. /\ sessions[s] \in Session /\ epoch \in Nat
      /\ epoch = sessions[s].epoch \/ epoch = sessions[s].epoch + 1
  BY <1>1, HolderKnows
<1> HIDE DEF epoch
<1>3. /\ x \in Session /\ x.key = sessions[s].key /\ x.identity = sessions[s].identity
      /\ x.epoch = epoch
  BY <1>2, SessionChanged
<1> HIDE DEF x
<1>4. OnControl(r) /\ OnSessions(r) /\ pc'[r] = "unanswered"
  BY <1>1, <1>2, <1>3, LeaveEffect DEF Running, Done
<1>5. OnCache(r)
  BY <1>1, CacheShrinks
<1>6. OnHistory(r)
  BY <1>1, <1>4 DEF OnHistory
<1> QED
  BY <1>4, <1>5, <1>6 DEF Effect

LEMMA ConfirmEffect == ASSUME Inv, NEW r \in Requests, Confirm(r)
                       PROVE  Effect(r)
<1> DEFINE s == sess[r]
           step == IF Matches(s) THEN "answered" ELSE "unanswered"
<1>1. pc[r] = "confirming" /\ pc[r] \in Holding /\ kind = "codex"
      /\ Leave(r, step, sessions[s]) /\ cached' \in {Touched(s), Without({s})}
      /\ UNCHANGED <<kind, agent, changes, key, seen, sess, turn, lost>>
  BY DEF Confirm, Holding, Inv, Held
<1>2. step \in {"answered", "unanswered"} /\ (Outdated(s) => step = "unanswered")
  BY <1>1, OutdatedDiffers
<1> HIDE DEF step
<1>3. OnControl(r) /\ OnSessions(r) /\ pc'[r] = step
  BY <1>1, <1>2, HolderKnows, LeaveEffect DEF Done
<1>4. OnCache(r)
  BY <1>1, CacheShrinks
<1>5. OnHistory(r)
  BY <1>1, <1>2, <1>3 DEF OnHistory
<1> QED
  BY <1>3, <1>4, <1>5 DEF Effect

LEMMA CancelEffect == ASSUME Inv, NEW r \in Requests, Cancel(r)
                      PROVE  Effect(r)
<1> DEFINE s == sess[r]
<1>0. UNCHANGED <<kind, agent, changes, key, seen, sess, turn, lost>> /\ Typed
  BY DEF Cancel, Inv
<1>1. CASE pc[r] \in {"resolved", "given"} /\ Go(r, "unanswered") /\ UNCHANGED <<sessions, cached>>
  <2>1. OnControl(r) /\ OnSessions(r)
    BY <1>0, <1>1, AloneEffect DEF Done
  <2>2. OnCache(r) /\ OnHistory(r)
    BY <1>0, <1>1, CacheShrinks DEF OnHistory
  <2> QED
    BY <2>1, <2>2 DEF Effect
<1>2. CASE /\ pc[r] = "queued" /\ Go(r, "unanswered") /\ UNCHANGED cached
           /\ \E i \in DOMAIN sessions[s].queue :
                sessions' = [sessions EXCEPT ![s].queue = RemoveAt(@, i)]
  <2>1. PICK i \in DOMAIN sessions[s].queue :
          sessions' = [sessions EXCEPT ![s].queue = RemoveAt(@, i)]
    BY <1>2
  <2> DEFINE rest == RemoveAt(sessions[s].queue, i)
  <2>2. s \in DOMAIN sessions /\ sessions[s] \in Session /\ sessions \in Seq(Session)
    <3>1. s \in DOMAIN sessions
      BY <1>2 DEF Inv, Held, Admitted
    <3> QED
      BY <1>0, <3>1 DEF Typed
  <2>3. rest \in Seq(Requests)
    <3> DEFINE queue == sessions[s].queue
    <3>1. queue \in Seq(Requests) /\ i \in 1 .. Len(queue) /\ Len(queue) \in Nat
      BY <2>2 DEF Session
    <3> HIDE DEF queue
    <3>2. SubSeq(queue, 1, i - 1) \in Seq(Requests) /\ SubSeq(queue, i + 1, Len(queue)) \in Seq(Requests)
      BY <3>1
    <3>3. SubSeq(queue, 1, i - 1) \o SubSeq(queue, i + 1, Len(queue)) \in Seq(Requests)
      BY <3>2
    <3> QED
      BY <3>3 DEF RemoveAt, queue
  <2>4. sessions' = [sessions EXCEPT ![s].queue = rest]
    BY <2>1
  <2> HIDE DEF rest
  <2>5. /\ sessions' \in Seq(Session) /\ Len(sessions') = Len(sessions)
        /\ \A t \in DOMAIN sessions :
             /\ sessions'[t].key = sessions[t].key /\ sessions'[t].identity = sessions[t].identity
             /\ sessions'[t].epoch = sessions[t].epoch /\ sessions'[t].holder = sessions[t].holder
    BY <2>2, <2>3, <2>4, QueueChanged
  <2>6. pc'[r] = "unanswered" /\ pc' = [pc EXCEPT ![r] = "unanswered"]
    BY <1>0, <1>2 DEF Typed, Go
  <2>7. OnControl(r)
    BY <1>0, <1>2, <2>5, <2>6 DEF Typed, OnControl, Steps, Done
  <2>8. DOMAIN sessions' = DOMAIN sessions /\ Len(sessions) \in Nat
    BY <2>2, <2>5
  <2>9. OnSessions(r)
    BY <2>5, <2>6, <2>8 DEF OnSessions, Admitted, Holding, Running
  <2>10. OnCache(r) /\ OnHistory(r)
    BY <1>0, <1>2, <2>6, CacheShrinks DEF OnHistory
  <2> QED
    BY <2>7, <2>9, <2>10 DEF Effect
<1>3. CASE /\ pc[r] \in {"matching", "confirming"} /\ Leave(r, "unanswered", sessions[s])
           /\ cached' = Touched(s)
  <2>1. pc[r] \in Holding
    BY <1>3 DEF Holding
  <2>2. OnControl(r) /\ OnSessions(r) /\ pc'[r] = "unanswered"
    BY <1>0, <1>3, <2>1, HolderKnows, LeaveEffect DEF Done
  <2>3. OnCache(r) /\ OnHistory(r)
    BY <1>0, <1>3, <2>2, CacheShrinks DEF OnHistory
  <2> QED
    BY <2>2, <2>3 DEF Effect
<1>4. CASE pc[r] = "running" /\ Go(r, "cancelling") /\ UNCHANGED <<sessions, cached>>
  <2>1. OnControl(r) /\ OnSessions(r) /\ pc'[r] = "cancelling"
    BY <1>0, <1>4, AloneEffect DEF Done
  <2>2. OnCache(r) /\ OnHistory(r)
    BY <1>0, <1>4, <2>1, CacheShrinks DEF OnHistory
  <2> QED
    BY <2>1, <2>2 DEF Effect
<1> QED
  BY <1>1, <1>2, <1>3, <1>4 DEF Cancel

LEMMA UnwindEffect == ASSUME Inv, NEW r \in Requests, Unwind(r)
                      PROVE  Effect(r)
<1> DEFINE s == sess[r]
           epoch == sessions[s].epoch + 1
           x == [sessions[s] EXCEPT !.epoch = epoch, !.started = FALSE]
<1>1. pc[r] = "cancelling" /\ pc[r] \in Holding
      /\ Leave(r, "abandoned", x) /\ cached' = Touched(s)
      /\ UNCHANGED <<kind, agent, changes, key, seen, sess, turn, lost>>
  BY DEF Unwind, Holding
<1>2. sessions[s] \in Session /\ epoch \in Nat /\ turn[r] = <<s, sessions[s].epoch>>
  BY <1>1, HolderKnows DEF Running
<1>3. /\ x \in Session /\ x.key = sessions[s].key /\ x.identity = sessions[s].identity
      /\ x.epoch = sessions[s].epoch + 1
  BY <1>2, SessionChanged
<1> HIDE DEF x, epoch
<1>4. OnControl(r) /\ OnSessions(r) /\ pc'[r] = "abandoned"
  BY <1>1, <1>2, <1>3, LeaveEffect DEF Running, Done
<1>5. OnCache(r)
  BY <1>1, CacheShrinks
<1>6. OnHistory(r)
  BY <1>1, <1>4 DEF OnHistory
<1> QED
  BY <1>4, <1>5, <1>6 DEF Effect

(***************************************************************************)
(* The invariant.                                                          *)
(***************************************************************************)
LEMMA EffectInv == ASSUME Inv, NEW r \in Requests, Effect(r)
                   PROVE  Inv'
BY EffectLost, EffectTyped, EffectCache, EffectNumbered, EffectHeld, EffectTurns, EffectEpochs
   DEF Inv

LEMMA StepEffect == ASSUME Inv, NEW r \in Requests, Resolve(r) \/ Step(r) \/ Cancel(r)
                    PROVE  Effect(r)
<1>1. CASE Enter(r)
  <2>1. PICK n \in 0 .. Cardinality(DOMAIN cached) : Reuse(r, n) \/ Create(r, n) \/ Busy(r, n)
    BY <1>1 DEF Enter
  <2>2. n \in Nat
    OBVIOUS
  <2> QED
    BY <2>1, <2>2, ReuseEffect, CreateEffect, BusyEffect
<1> QED
  BY <1>1, ResolveEffect, StreamEffect, TakeEffect, MatchEffect, SucceedEffect, FailEffect,
     ConfirmEffect, UnwindEffect, CancelEffect DEF Step

\* The commands on the record change nothing but what the registry says.
LEMMA RecordInv == ASSUME Inv, Uninstall \/ Install \/ Move
                   PROVE  Inv'
<1>0. /\ UNCHANGED <<kind, sessions, cached, pc, key, seen, sess, turn, lost>>
      /\ agent.installed \in Nat /\ changes \in Nat
  BY DEF Uninstall, Install, Move, Inv, Typed
<1>1. /\ agent' \in [status : {"installed", "installing"}, installed : 0 .. MaxChanges + 1,
                     place : Places]
      /\ changes' \in 0 .. MaxChanges /\ agent'.installed >= agent.installed
      /\ agent'.installed + (IF agent'.status = "installing" THEN 1 ELSE 0) <= changes' + 1
      /\ agent.status # "installed" =>
           agent'.status # "installed" \/ agent'.installed > agent.installed
  <2>1. /\ agent \in [status : {"installed", "installing"}, installed : 0 .. MaxChanges + 1,
                      place : Places]
        /\ changes \in 0 .. MaxChanges
        /\ agent.installed + (IF agent.status = "installing" THEN 1 ELSE 0) <= changes + 1
    BY DEF Inv, Typed, Numbered
  <2>2. CASE Uninstall
    BY <2>1, <2>2, Constants DEF Uninstall
  <2>3. CASE Install
    <3>1. agent.installed + 1 \in 0 .. MaxChanges + 1 /\ agent.installed + 1 <= changes + 1
      BY <1>0, <2>1, <2>3, Constants DEF Install
    <3>2. /\ changes' = changes
          /\ agent' = [agent EXCEPT !.status = "installed", !.installed = agent.installed + 1]
      BY <2>3 DEF Install
    <3>3. agent'.installed = agent.installed + 1 /\ agent'.status = "installed"
      BY <2>1, <3>2
    <3>4. agent' \in [status : {"installed", "installing"}, installed : 0 .. MaxChanges + 1,
                      place : Places]
      BY <2>1, <3>1, <3>2
    <3> QED
      BY <1>0, <2>1, <3>1, <3>2, <3>3, <3>4
  <2>4. CASE Move
    BY <2>1, <2>4, Constants DEF Move
  <2> QED
    BY <2>2, <2>3, <2>4
<1>2. Typed'
  BY <1>0, <1>1 DEF Inv, Typed
<1>3. CacheBounded' /\ Held' /\ Turns'
  BY <1>0 DEF Inv, CacheBounded, Held, Turns
<1>4. EpochsBounded'
  BY <1>0 DEF Inv, EpochsBounded, Ended
<1>5. Numbered'
  <2>1. \A i \in Identities : i.installed \in Nat
    BY DEF Identities
  <2>2. agent'.installed \in Nat
    BY <1>1
  <2>3. ASSUME NEW i \in Identities, i.installed <= agent.installed
        PROVE  i.installed <= agent'.installed
    BY <1>0, <1>1, <2>1, <2>2, <2>3
  <2> QED
    BY <1>0, <1>1, <2>3 DEF Inv, Numbered
<1>6. LostRefused'
  <2>1. ASSUME NEW r \in lost, kind = "codex", pc[r] = "confirming", Outdated(sess[r])
        PROVE  Outdated(sess[r])'
    <3>1. r \in Requests /\ pc[r] \in Holding
      BY <2>1 DEF Inv, Typed, Holding
    <3>2. /\ sessions[sess[r]].identity.installed \in Nat
          /\ sessions[sess[r]].identity.installed <= agent.installed
      BY <2>1, <3>1, HolderKnows DEF Inv, Numbered, Identities
    <3> QED
      BY <1>0, <1>1, <2>1, <3>2 DEF Outdated
  <2> QED
    BY <1>0, <2>1 DEF Inv, LostRefused, Current
<1> QED
  BY <1>2, <1>3, <1>4, <1>5, <1>6 DEF Inv

LEMMA NextInv == Inv /\ [Next]_vars => Inv'
<1> SUFFICES ASSUME Inv, [Next]_vars
             PROVE  Inv'
  OBVIOUS
<1>1. ASSUME NEW r \in Requests, Resolve(r) \/ Step(r) \/ Cancel(r)
      PROVE  Inv'
  BY <1>1, StepEffect, EffectInv
<1>2. CASE Uninstall \/ Install \/ Move
  BY <1>2, RecordInv
<1>3. CASE UNCHANGED vars
  <2> USE <1>3 DEF vars, Inv
  <2>1. Typed' /\ CacheBounded'
    BY DEF Typed, CacheBounded
  <2>2. Numbered' /\ Held'
    BY DEF Numbered, Held
  <2>3. Turns' /\ EpochsBounded'
    BY DEF Turns, EpochsBounded, Ended
  <2>4. LostRefused'
    BY DEF LostRefused, Outdated, Current
  <2> QED
    BY <2>1, <2>2, <2>3, <2>4
<1> QED
  BY <1>1, <1>2, <1>3 DEF Next

LEMMA InitInv == Init => Inv
<1> SUFFICES ASSUME Init
             PROVE  Inv
  OBVIOUS
<1>1. /\ kind \in Kinds /\ changes = 0 /\ sessions = <<>> /\ cached = <<>> /\ lost = {}
      /\ agent \in [status : {"installed"}, installed : {0, 1}, place : {"here"}]
      /\ \A r \in Requests : pc[r] = "idle" /\ key[r] = 0 /\ sess[r] = 0
  BY DEF Init, Idle
<1>2. Typed
  <2>1. agent \in [status : {"installed", "installing"}, installed : 0 .. MaxChanges + 1,
                   place : Places]
    BY <1>1, Constants DEF Places
  <2>2. sessions \in Seq(Session) /\ Len(sessions) = 0
    BY <1>1
  <2>3. /\ pc \in [Requests -> Steps] /\ key \in [Requests -> Keys \cup {0}]
        /\ seen \in [Requests -> Identities \cup {None}]
        /\ turn \in [Requests -> {<<>>} \cup (Nat \X Nat)]
    BY DEF Init, Steps, Idle
  <2>4. sess \in [Requests -> 0 .. Len(sessions)]
    BY <2>2 DEF Init
  <2> QED
    BY <1>1, <2>1, <2>2, <2>3, <2>4, Constants DEF Typed
<1>3. CacheBounded
  <2>1. DOMAIN cached = {} /\ cached \in [{} -> Nat \ {0}]
    BY <1>1
  <2> QED
    BY <2>1, FS_EmptySet, Constants DEF CacheBounded
<1>4. Numbered
  BY <1>1 DEF Numbered
<1>5. Held /\ Turns
  BY <1>1 DEF Held, Turns, Admitted, Holding, Running
<1>6. EpochsBounded
  BY <1>1 DEF EpochsBounded
<1>7. LostRefused
  BY <1>1 DEF LostRefused
<1> QED
  BY <1>2, <1>3, <1>4, <1>5, <1>6, <1>7 DEF Inv

\* The invariant holds in every reachable state.
THEOREM Invariance == Spec => []Inv
<1> QED
  BY InitInv, NextInv, PTL DEF Spec

\* Types, one cached session of a conversation, and the bound of the cache of codex and pi
\* (_get_codex_browser_session), however many requests come at once.
THEOREM TypeCorrect == Spec => []TypeOK
<1>1. Inv => TypeOK
  <2> SUFFICES ASSUME Inv
               PROVE  TypeOK
    OBVIOUS
  <2>1. ASSUME NEW s \in DOMAIN sessions
        PROVE  sessions[s] \in Sessions
    <3>1. sessions[s] \in Session
      BY DEF Inv, Typed
    <3>2. Ended(s) \subseteq Requests
      BY DEF Ended
    <3>3. /\ Cardinality(Ended(s)) <= Cardinality(Requests)
          /\ Cardinality(Ended(s)) \in Nat /\ Cardinality(Requests) \in Nat
      BY <3>2, Constants, FS_Subset, FS_CardinalityType
    <3>4. sessions[s].epoch \in Nat /\ sessions[s].epoch <= Cardinality(Ended(s))
      BY <3>1 DEF Inv, EpochsBounded, Session
    <3>5. sessions[s].epoch \in 0 .. Cardinality(Requests)
      BY <3>3, <3>4
    <3> QED
      BY <3>1, <3>5 DEF Session, Sessions
  <2> QED
    BY <2>1 DEF Inv, Typed, CacheBounded, TypeOK
<1> QED
  BY <1>1, Invariance, PTL

\* Two turns never run in one native conversation at once, and none in one of which the
\* browser abandoned a turn (the lock of a session, clear_history).
THEOREM TurnsApart == Spec => []Apart
<1>1. Inv => Apart
  <2> SUFFICES ASSUME Inv, NEW r \in Requests, NEW q \in Requests, r # q, pc[r] \in Running,
                      pc[q] \in Running \cup {"abandoned"}, turn[r] = turn[q]
               PROVE  FALSE
    BY DEF Apart
  <2>1. /\ turn[r] = <<sess[r], sessions[sess[r]].epoch>> /\ sessions[sess[r]].holder = r
        /\ sess[r] \in DOMAIN sessions /\ sessions[sess[r]].epoch \in Nat
    BY HolderKnows DEF Running, Holding
  <2>2. CASE pc[q] \in Running
    <3>1. turn[q] = <<sess[q], sessions[sess[q]].epoch>> /\ sessions[sess[q]].holder = q
      BY <2>2, HolderKnows DEF Running, Holding
    <3>2. <<sess[r], sessions[sess[r]].epoch>> = <<sess[q], sessions[sess[q]].epoch>>
      BY <2>1, <3>1
    <3>3. sess[r] = sess[q]
      BY <3>2
    <3> QED
      BY <2>1, <3>1, <3>3
  <2>3. CASE pc[q] = "abandoned"
    <3>1. PICK e \in 0 .. sessions[sess[q]].epoch - 1 : turn[q] = <<sess[q], e>>
      BY <2>3 DEF Inv, Turns
    <3>2. <<sess[r], sessions[sess[r]].epoch>> = <<sess[q], e>>
      BY <2>1, <3>1
    <3>3. sess[q] = sess[r] /\ e = sessions[sess[r]].epoch
      BY <3>2
    <3> QED
      BY <2>1, <3>1, <3>3
  <2> QED
    BY <2>2, <2>3
<1> QED
  BY <1>1, Invariance, PTL

\* An answer is that of the agent the request was for: whoever lost it is refused.
THEOREM OwnAnswers == Spec => []AnswersOwn
<1>1. Inv => AnswersOwn
  BY DEF Inv, LostRefused, AnswersOwn
<1> QED
  BY <1>1, Invariance, PTL
=============================================================================
