--------------------------- MODULE MCPAMExecution ---------------------------
(* Small instances of PAMExecution. *)
EXTENDS PAMExecution, TLC

\* Generated candidates: 24 random bytes, so no two versions share a plaintext.
DistinctPasswords == [v \in Version |-> v]

\* An operator may type the password the account already has.
RepeatedPassword == [v \in Version |-> Initial]

PasswordValues == Exec \cup Manual \cup {Initial}

Symmetry == Permutations(Exec) \cup Permutations(Run) \cup Permutations(Key)
=============================================================================
