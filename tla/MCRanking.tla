----------------------------- MODULE MCRanking -----------------------------
(***************************************************************************)
(* Instances of Ranking for TLC.                                           *)
(***************************************************************************)
EXTENDS Ranking

CONSTANTS q1
=============================================================================
