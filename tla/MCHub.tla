-------------------------------- MODULE MCHub -------------------------------
(***************************************************************************)
(* Small instances of Hub: two connections of one user, one of another.   *)
(***************************************************************************)
EXTENDS Hub

CONSTANTS c1, c2, c3, ann, bob

Tabs == [c \in Conns |-> IF c = c3 THEN bob ELSE ann]
=============================================================================
