---------------------------- MODULE MCContestRoom ---------------------------
(***************************************************************************)
(* Small instances of ContestRoom: every connection is one user's.         *)
(***************************************************************************)
EXTENDS ContestRoom

CONSTANTS c1, c2, ann

Tabs == [c \in Conns |-> ann]
=============================================================================
