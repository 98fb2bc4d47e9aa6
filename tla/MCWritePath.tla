----------------------------- MODULE MCWritePath -----------------------------
(***************************************************************************)
(* Instances of WritePath for TLC.                                         *)
(***************************************************************************)
EXTENDS WritePath, TLC

CONSTANTS allTime, day1, day2, alice, bob, r1, r2, r3

TwoBoards == {allTime, day1}
OneDay == {{allTime, day1}}

\* Submissions on either side of midnight share the all-time board only.
ThreeBoards == {allTime, day1, day2}
TwoDays == {{allTime, day1}, {allTime, day2}}

RequestSymmetry == Permutations(Requests)
=============================================================================
