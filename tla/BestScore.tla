------------------------------ MODULE BestScore ------------------------------
(***************************************************************************)
(* What the write path promises (Spec.md D1): a board holds, for each      *)
(* user, the greatest score any accepted submission brought to it, and a   *)
(* submission reaches all of its boards in one step.                       *)
(*                                                                         *)
(* Nothing here says how: no statement, no row lock, no transaction, no    *)
(* index.  WritePath and ServedBoard are both shown to implement it.       *)
(***************************************************************************)
EXTENDS Standings

VARIABLE best   \* best[b][u]: the score u holds on b, or NoStanding

BestInit == best = Nobody

Record(u, bs, v) ==
    best' = [b \in Boards |->
                [w \in Users |-> IF b \in bs /\ w = u THEN Larger(best[b][w], v)
                                                      ELSE best[b][w]]]

BestNext == \E u \in Users, bs \in Fanouts, v \in Scores : Record(u, bs, v)

BestSpec == BestInit /\ [][BestNext]_best
=============================================================================
