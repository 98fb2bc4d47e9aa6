------------------------------ MODULE Standings ------------------------------
(***************************************************************************)
(* The vocabulary the other modules share: boards, users, scores, and the  *)
(* one rule that decides a standing (Spec.md D1, "best score wins").       *)
(***************************************************************************)
EXTENDS Integers

CONSTANTS
    Boards,     \* the boards of one game, one per (period, bucket)
    Users,      \* the players
    Scores,     \* the scores a request may carry (schemas.common.Score)
    Fanouts     \* sets of boards one submission updates (all_buckets_for)

ASSUME ScoresAssumption == Scores \subseteq Nat
ASSUME FanoutsAssumption == Fanouts \subseteq SUBSET Boards

\* A user without a row on a board.  Below every score, so that "insert if
\* absent, update if strictly greater" is a single comparison.
NoStanding == -1

Standing == Scores \cup {NoStanding}

Nobody == [b \in Boards |-> [u \in Users |-> NoStanding]]

Larger(x, y) == IF y > x THEN y ELSE x

\* The boards of bs that a score v of user u improves: strictly greater only.
Improved(standings, u, bs, v) == {b \in bs : v > standings[b][u]}

\* Mutant of Raised: one improved board lets the score overwrite all of them.
RaisedTogether(standings, u, bs, v) ==
    [b \in Boards |-> IF b \in bs THEN [standings[b] EXCEPT ![u] = v] ELSE standings[b]]

\* The standings after user u brought score v to every board of bs.
Raised(standings, u, bs, v) ==
    [b \in Boards |->
        IF b \in Improved(standings, u, bs, v)
          THEN [standings[b] EXCEPT ![u] = v] ELSE standings[b]]
=============================================================================
