----------------------------- MODULE MCHostsStore -----------------------------
(***************************************************************************)
(* Instance of HostsStore for TLC: two processes making any calls, any     *)
(* number of times, on a file that has room for one host.  No symmetry,    *)
(* because the configuration checks liveness.                              *)
(***************************************************************************)
EXTENDS HostsStore
CONSTANTS p1, p2, h1
=============================================================================
