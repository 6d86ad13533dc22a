----------------------------- MODULE MCSession ------------------------------
(***************************************************************************)
(* Small instances of Session: two tabs, of one browser or of two.         *)
(***************************************************************************)
EXTENDS Session, TLC

CONSTANTS t1, t2, b1, b2

SameForAll == Permutations(Tabs) \cup Permutations(Browsers)
=============================================================================
