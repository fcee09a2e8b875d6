------------------------------ MODULE MCLifecycle ------------------------------
(***************************************************************************)
(* Lifecycle with one process, for the claim about a configure that does   *)
(* not hold (LifecyclePairing.cfg); MCAgents has it with two, and there    *)
(* TLC evaluates its assumption.                                           *)
(***************************************************************************)
EXTENDS Lifecycle, TLC

CONSTANT p1
=============================================================================
