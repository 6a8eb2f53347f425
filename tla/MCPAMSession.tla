---------------------------- MODULE MCPAMSession ----------------------------
(* Instances of PAMSession for TLC. *)
EXTENDS PAMSession, TLC

\* Sessions differ by name only.
Symmetry == Permutations(Session)
=============================================================================
