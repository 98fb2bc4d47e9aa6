----------------------------- MODULE MCColdReads -----------------------------
(***************************************************************************)
(* Instances of ColdReads for TLC.                                         *)
(***************************************************************************)
EXTENDS ColdReads

CONSTANTS alice, bob, q1, i1, admin

AllOnOne == [q \in Readers |-> i1]

\* Alice improves her score, bob comes and stays as he is.
AliceImproves == {[user |-> alice, score |-> 1], [user |-> alice, score |-> 2],
                  [user |-> bob, score |-> 1]}

EveryoneOnce == {[user |-> u, score |-> 1] : u \in Users}
=============================================================================
