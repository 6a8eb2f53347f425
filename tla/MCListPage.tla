----------------------------- MODULE MCListPage -----------------------------
(* Three records, one to a page, of which one can still be created.        *)
EXTENDS UIPages

MCHits == [q \in {"all", "some"} |-> IF q = "all" THEN {1, 2, 3} ELSE {2, 3}]
=============================================================================
