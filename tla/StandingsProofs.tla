--------------------------- MODULE StandingsProofs ---------------------------
(***************************************************************************)
(* What the rule of Standings does to a table of standings: the facts that *)
(* the proofs about WritePath and about IndexSync both need.               *)
(***************************************************************************)
EXTENDS Standings, TLAPS

\* A score or "no standing" is an integer.
LEMMA StandingIsInt == Standing \subseteq Int /\ Scores \subseteq Standing
BY ScoresAssumption DEF Standing, NoStanding

\* Raising u to v on the boards of bs takes the maximum there and touches no
\* other standing.
LEMMA RaisedStandings ==
  ASSUME NEW table \in [Boards -> [Users -> Standing]],
         NEW u \in Users, NEW bs \in SUBSET Boards, NEW v \in Scores
  PROVE  /\ Raised(table, u, bs, v) \in [Boards -> [Users -> Standing]]
         /\ \A b \in Boards, w \in Users :
              Raised(table, u, bs, v)[b][w] =
                IF b \in bs /\ w = u THEN Larger(table[b][w], v) ELSE table[b][w]
         /\ \A b \in Boards, w \in Users :
              Raised(table, u, bs, v)[b][w] =
                IF b \in Improved(table, u, bs, v) /\ w = u THEN v ELSE table[b][w]
         /\ \A b \in Boards, w \in Users : Raised(table, u, bs, v)[b][w] >= table[b][w]
<1>1. \A b \in Boards : table[b] \in [Users -> Standing]
  OBVIOUS
<1>2. \A b \in Boards, w \in Users : table[b][w] \in Int
  BY <1>1, StandingIsInt
<1>3. v \in Standing /\ v \in Int
  BY ScoresAssumption DEF Standing
<1>4. \A b \in Boards : Raised(table, u, bs, v)[b] =
        IF b \in Improved(table, u, bs, v) THEN [table[b] EXCEPT ![u] = v] ELSE table[b]
  BY DEF Raised
<1>5. Raised(table, u, bs, v) \in [Boards -> [Users -> Standing]]
  BY <1>1, <1>3 DEF Raised
<1>6. \A b \in Boards, w \in Users : Raised(table, u, bs, v)[b][w] =
        IF b \in Improved(table, u, bs, v) /\ w = u THEN v ELSE table[b][w]
  BY <1>1, <1>4
<1>7. \A b \in Boards : b \in Improved(table, u, bs, v) <=> b \in bs /\ v > table[b][u]
  BY DEF Improved
<1>. QED
  BY <1>2, <1>3, <1>5, <1>6, <1>7 DEF Larger
=============================================================================
