----------------------------- MODULE MCCodexOAuth -----------------------------
(***************************************************************************)
(* Instances of CodexOAuth for TLC.                                          *)
(***************************************************************************)
EXTENDS CodexOAuth, TLC

CONSTANTS c1, c2, p1, p2

Symmetry == Permutations(Clis) \cup Permutations(Providers)
=============================================================================
