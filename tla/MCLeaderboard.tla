---------------------------- MODULE MCLeaderboard ---------------------------
(***************************************************************************)
(* Small instances of Leaderboard.  The order of the member IDs is the     *)
(* order of the names, so ZREVRANGE breaks ties the other way than SQL.    *)
(***************************************************************************)
EXTENDS Leaderboard

CONSTANTS ann, bob, cid, p1, p2, s1, s2, r1, r2

Alphabetical == [u \in Users |-> CASE u = ann -> 1 [] u = bob -> 2 [] OTHER -> 3]

\* The worker's clock may be behind the clock that set the start.
Skewed == {-1, 1}
=============================================================================
