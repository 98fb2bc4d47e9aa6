----------------------------- MODULE MCIndexSync -----------------------------
(***************************************************************************)
(* Instances of IndexSync for TLC.                                         *)
(***************************************************************************)
EXTENDS IndexSync

CONSTANTS allTime, day1, day2, alice, bob, s1, w1, w2

\* One all-time board and one day.
TwoBoards == {allTime, day1}
OneDay == {{allTime, day1}}

\* Submissions on either side of midnight share the all-time board only.
ThreeBoards == {allTime, day1, day2}
TwoDays == {{allTime, day1}, {allTime, day2}}

Days == {day1, day2} \cap Boards
=============================================================================
