--------------------------- MODULE MCWorkStation ---------------------------
(* A directory in a directory; what is in them has no part in it.          *)
EXTENDS WorkStation

MCTree == {<<>>, <<"a">>, <<"a", "b">>}
=============================================================================
