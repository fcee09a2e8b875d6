--------------------------- MODULE MCInstallCleanup ---------------------------
(***************************************************************************)
(* Install with what `agent sync` tells the operator of an agent whose     *)
(* installation has not ended (core/lifecycle_canonical.py): that it is    *)
(* finished by `create --cleanup-failed`, and that the attachments are     *)
(* preserved.                                                              *)
(***************************************************************************)
EXTENDS Install

CONSTANTS p1, n1, t1, q1, i1

VARIABLE promised  \* promised[n]: what was attached to n when a sync said so

SyncRefuses(n) ==
  /\ \A p \in Procs : run[p] = Idle
  /\ agents[n].status \in {"installing", "failed"}
  /\ promised' = [promised EXCEPT ![n] = agents[n].attached]
  /\ UNCHANGED vars

\* The operator detaches something himself, or an installer dies with what it keeps.
Withdrawn(n) ==
  \/ Remove(n)
  \/ \E item \in Items : Detach(n, item)
  \/ \E p \in Procs :
       run[p].name = n /\ (LeaveInstalling(p) \/ \E item \in Providers : AttachProvider(p, item))

CleanupInit == Init /\ promised = [n \in Names |-> {}]
CleanupNext ==
  \/ Next /\ promised' = [n \in Names |-> IF Withdrawn(n) THEN {} ELSE promised[n]]
  \/ \E n \in Names : SyncRefuses(n)
CleanupSpec == CleanupInit /\ [][CleanupNext]_<<vars, promised>>

\* The claim of the refusal of a sync ("Run `clawctl agent create ... --cleanup-failed` to
\* finish the install first - your attachments are preserved"): once the agent is
\* installed it has what it had then.
AttachmentsPreserved ==
  \A n \in Names : agents[n].status = "installed" => promised[n] \subseteq agents[n].attached
=============================================================================
