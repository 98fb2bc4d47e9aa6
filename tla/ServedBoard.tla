----------------------------- MODULE ServedBoard -----------------------------
(***************************************************************************)
(* What the service promises of its two stores together (Spec.md D2, D4):  *)
(* the rank index is a copy of the durable standings that lags behind      *)
(* them, never runs ahead of them, and never goes back, as long as Redis   *)
(* keeps its keys.                                                         *)
(*                                                                         *)
(* The outbox, the fast path, the sweepers and their failures are all      *)
(* hidden: IndexSync is shown to implement this module, with its Postgres  *)
(* standings for best and its Redis sorted sets for shown.                 *)
(***************************************************************************)
EXTENDS BestScore

VARIABLE shown   \* shown[b][u]: the score the index holds for u, or NoStanding

served == <<best, shown>>

ServedInit ==
    /\ BestInit
    /\ shown = Nobody

\* A submission is accepted; the index has not heard of it yet.
Accept(u, bs, v) == Record(u, bs, v) /\ UNCHANGED shown

\* The index catches up by one member, to some score the user has reached.
CatchUp(b, u, v) ==
    /\ shown[b][u] < v
    /\ v <= best[b][u]
    /\ shown' = [shown EXCEPT ![b][u] = v]
    /\ UNCHANGED best

ServedNext ==
    \/ \E u \in Users, bs \in Fanouts, v \in Scores : Accept(u, bs, v)
    \/ \E b \in Boards, u \in Users, v \in Scores : CatchUp(b, u, v)

ServedSpec == ServedInit /\ [][ServedNext]_served
=============================================================================
