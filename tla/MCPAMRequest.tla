---------------------------- MODULE MCPAMRequest ----------------------------
(* Instances of PAMRequest for TLC. *)
EXTENDS PAMRequest, TLC

\* Workers differ by name only, and so do requests of one kind.
Symmetry == Permutations(Worker) \cup Permutations(View)
=============================================================================
