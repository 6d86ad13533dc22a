------------------------------ MODULE MCAccess ------------------------------
(***************************************************************************)
(* Two accounts behind one address, of which one starts as an admin.       *)
(***************************************************************************)
EXTENDS Access

CONSTANTS u1, u2

TwoUsers == {u1, u2}
OneAdmin == {u1}
=============================================================================
