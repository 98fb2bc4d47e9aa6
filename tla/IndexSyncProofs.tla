--------------------------- MODULE IndexSyncProofs ---------------------------
(***************************************************************************)
(* What TLAPS proves of IndexSync, for every set of boards, users, scores, *)
(* submitters and sweepers and every bound: the type invariant, the safety *)
(* properties, and that it implements ServedBoard.  The argument is in     *)
(* IInv; two lemmas say what the only two writers of the two stores do to  *)
(* them: RaisedStandings (of StandingsProofs) to Postgres, Executed to     *)
(* Redis.  All of it is about a Redis that loses no key, as IndexSync is.  *)
(***************************************************************************)
EXTENDS IndexSync, StandingsProofs

\* The fields of a row.
LEMMA RowFields ==
  ASSUME NEW r \in Row
  PROVE  r.board \in Boards /\ r.user \in Users /\ r.score \in Standing /\ r.score \in Int
<1>1. r.board \in Boards /\ r.user \in Users /\ r.score \in Scores
  BY DEF Row
<1>. QED
  BY <1>1, StandingIsInt

\* The fields of a command.
LEMMA CommandFields ==
  ASSUME NEW m \in Command
  PROVE  m.op \in {"ZADD", "EXPIRE"} /\ m.row \in Row
BY DEF Command

\* A command raises at most the one member it names, to the score it carries,
\* and after a ZADD that member shows that score or a better one.
LEMMA Executed ==
  ASSUME TypeOK, NEW m \in Command, Execute(m)
  PROVE  /\ index' \in [Boards -> [Users -> Standing]]
         /\ expiring' \subseteq Boards
         /\ \A b \in Boards, u \in Users : index'[b][u] >= index[b][u]
         /\ \A b \in Boards, u \in Users :
              \/ index'[b][u] = index[b][u]
              \/ /\ m.row.board = b /\ m.row.user = u
                 /\ index[b][u] < m.row.score
                 /\ index' = [index EXCEPT ![b][u] = m.row.score]
                 /\ index'[b][u] = m.row.score
         /\ m.op = "ZADD" => index'[m.row.board][m.row.user] >= m.row.score
<1>1. /\ index \in [Boards -> [Users -> Standing]]
      /\ expiring \subseteq Boards
      /\ m.row.board \in Boards /\ m.row.user \in Users
      /\ m.row.score \in Standing /\ m.row.score \in Int
  <2>1. m.row \in Row
    BY CommandFields
  <2>. QED
    BY <2>1, RowFields DEF TypeOK
<1>2. \A b \in Boards : index[b] \in [Users -> Standing]
  BY <1>1
<1>3. \A b \in Boards, u \in Users : index[b][u] \in Int
  BY <1>2, StandingIsInt
<1>4. CASE m.op = "EXPIRE"
  BY <1>1, <1>3, <1>4 DEF Execute
<1>5. CASE m.op = "ZADD"
  <2>. DEFINE B == m.row.board
              U == m.row.user
              new == Larger(index[B][U], m.row.score)
  <2>1. /\ index' = [index EXCEPT ![B][U] = new]
        /\ expiring' = expiring
    BY <1>5 DEF Execute
  <2>2. new \in Standing /\ new >= index[B][U] /\ new >= m.row.score
    BY <1>1, <1>2, <1>3 DEF Larger
  <2>3. index' \in [Boards -> [Users -> Standing]]
    BY <1>1, <1>2, <2>1, <2>2
  <2>4. \A b \in Boards, u \in Users :
          index'[b][u] = IF b = B /\ u = U THEN new ELSE index[b][u]
    BY <1>1, <1>2, <2>1
  <2>5. \/ new = index[B][U]
        \/ new = m.row.score /\ index[B][U] < m.row.score
    BY <1>1, <1>3 DEF Larger
  <2>6. \A b \in Boards, u \in Users : index'[b][u] >= index[b][u]
    BY <1>3, <2>2, <2>4
  <2>7. index'[B][U] >= m.row.score
    BY <1>1, <2>2, <2>4
  <2>8. ASSUME NEW b \in Boards, NEW u \in Users, index'[b][u] # index[b][u]
        PROVE  /\ m.row.board = b /\ m.row.user = u
               /\ index[b][u] < m.row.score
               /\ index' = [index EXCEPT ![b][u] = m.row.score]
               /\ index'[b][u] = m.row.score
    <3>1. b = B /\ u = U /\ new = m.row.score /\ index[B][U] < m.row.score
      BY <2>4, <2>5, <2>8
    <3>. QED
      BY <2>1, <2>4, <2>8, <3>1
  <2>. QED
    BY <1>1, <2>1, <2>3, <2>6, <2>7, <2>8
<1>. QED
  BY <1>4, <1>5, CommandFields

\* Commands built from rows are commands.
LEMMA CommandsOfRows ==
  ASSUME NEW rows \in SUBSET Row
  PROVE  /\ WithPeriod(rows) \subseteq Command
         /\ WithoutPeriod(rows) \subseteq Command
         /\ \A r \in rows : /\ [op |-> "ZADD", row |-> r] \in WithPeriod(rows)
                            /\ [op |-> "ZADD", row |-> r] \in WithoutPeriod(rows)
         /\ \A m \in WithPeriod(rows) \cup WithoutPeriod(rows) : m.row \in rows
<1>1. \A r \in rows, o \in {"ZADD", "EXPIRE"} : [op |-> o, row |-> r] \in Command
  BY DEF Command
<1>2. \A m \in WithPeriod(rows) \cup WithoutPeriod(rows) :
        \E r \in rows, o \in {"ZADD", "EXPIRE"} : m = [op |-> o, row |-> r]
  BY DEF Zadds, WithPeriod, WithoutPeriod
<1>3. ASSUME NEW m \in WithPeriod(rows) \cup WithoutPeriod(rows)
      PROVE  m \in Command /\ m.row \in rows
  <2>1. PICK r \in rows, o \in {"ZADD", "EXPIRE"} : m = [op |-> o, row |-> r]
    BY <1>2
  <2>2. m.row = r
    BY <2>1
  <2>. QED
    BY <1>1, <2>1, <2>2
<1>4. \A r \in rows : [op |-> "ZADD", row |-> r] \in Zadds(rows)
  BY DEF Zadds
<1>. QED
  BY <1>3, <1>4 DEF WithPeriod, WithoutPeriod

-----------------------------------------------------------------------------

LEMMA InitInvariant == Init => IInv
<1>. SUFFICES ASSUME Init PROVE IInv
  OBVIOUS
<1>1. Nobody \in [Boards -> [Users -> Standing]]
  BY DEF Nobody, Standing
<1>2. TypeOK
  BY <1>1, MaxFaultsAssumption DEF Init, TypeOK
<1>3. \A b \in Boards, u \in Users : index[b][u] = standing[b][u] /\ index[b][u] \in Int
  BY DEF Init, Nobody, NoStanding
<1>4. IndexNeverAhead /\ NoStandingForgotten
  BY <1>3 DEF IndexNeverAhead, NoStandingForgotten
<1>5. WorkAccepted /\ JobTracked
  BY DEF Init, WorkAccepted, JobTracked
<1>. QED
  BY <1>2, <1>4, <1>5 DEF IInv

\* The facts every step starts from, as numbers.
LEMMA Ranges ==
  ASSUME TypeOK
  PROVE  \A b \in Boards, u \in Users : standing[b][u] \in Int /\ index[b][u] \in Int
<1>1. \A b \in Boards : standing[b] \in [Users -> Standing] /\ index[b] \in [Users -> Standing]
  BY DEF TypeOK
<1>. QED
  BY <1>1, StandingIsInt

LEMMA SubmitInvariant ==
  ASSUME IInv, NEW s \in Submitters, NEW u \in Users, NEW bs \in Fanouts,
         NEW v \in Scores, Submit(s, u, bs, v)
  PROVE  IInv'
<1>. DEFINE rows == {[board |-> b, user |-> u, score |-> v] :
                        b \in Improved(standing, u, bs, v)}
<1>1. TypeOK
  BY DEF IInv
<1>2. /\ standing' = Raised(standing, u, bs, v)
      /\ pending' = pending \cup rows
      /\ job' = [job EXCEPT ![s] = rows]
      /\ wire' = [wire EXCEPT ![s] = WithPeriod(rows)]
      /\ UNCHANGED <<delivered, index, expiring, orphans, faults>>
  BY DEF Submit, redis
<1>3. bs \in SUBSET Boards /\ s \in Clients
  BY FanoutsAssumption DEF Clients
<1>4. rows \subseteq Row
  BY <1>3 DEF Row, Improved
<1>5. WithPeriod(rows) \subseteq Command
  BY <1>4, CommandsOfRows
<1>6. standing \in [Boards -> [Users -> Standing]]
  BY <1>1 DEF TypeOK
<1>7. /\ standing' \in [Boards -> [Users -> Standing]]
      /\ \A b \in Boards, w \in Users :
          /\ standing'[b][w] >= standing[b][w]
          /\ b \in Improved(standing, u, bs, v) => standing'[b][u] = v
          /\ ~(b \in Improved(standing, u, bs, v) /\ w = u) => standing'[b][w] = standing[b][w]
  <2>. DEFINE raised == Raised(standing, u, bs, v)
  <2>1. /\ raised \in [Boards -> [Users -> Standing]]
        /\ \A b \in Boards, w \in Users :
             raised[b][w] = IF b \in bs /\ w = u THEN Larger(standing[b][w], v) ELSE standing[b][w]
        /\ \A b \in Boards, w \in Users :
             raised[b][w] = IF b \in Improved(standing, u, bs, v) /\ w = u THEN v ELSE standing[b][w]
        /\ \A b \in Boards, w \in Users : raised[b][w] >= standing[b][w]
    <3>1. bs \in SUBSET Boards
      BY FanoutsAssumption
    <3>. QED
      BY <1>6, <3>1, RaisedStandings
  <2>. QED
    BY <1>2, <2>1
<1>8. TypeOK'
  <2>1. job' \in [Clients -> SUBSET Row] /\ wire' \in [Clients -> SUBSET Command]
    BY <1>1, <1>2, <1>3, <1>4, <1>5 DEF TypeOK
  <2>. QED
    BY <1>1, <1>2, <1>4, <1>7, <2>1 DEF TypeOK
<1>9. \A b \in Boards, w \in Users : standing[b][w] \in Int /\ standing'[b][w] \in Int
                                      /\ index[b][w] \in Int
  <2>1. \A b \in Boards : standing'[b] \in [Users -> Standing]
    BY <1>7
  <2>. QED
    BY <1>1, <2>1, Ranges, StandingIsInt
<1>10. IndexNeverAhead'
  BY <1>2, <1>7, <1>9 DEF IInv, IndexNeverAhead
<1>11. \A r \in Row : Accepted(r) => Accepted(r)'
  BY <1>7, <1>9, RowFields DEF Accepted
<1>12. \A r \in rows : Accepted(r)'
  BY <1>3, <1>7, <1>9, ScoresAssumption DEF Accepted, Improved
<1>13. WorkAccepted'
  <2>1. \A r \in pending' : Accepted(r)'
    BY <1>1, <1>2, <1>11, <1>12 DEF IInv, WorkAccepted, TypeOK
  <2>2. \A m \in WithPeriod(rows) : m.row \in rows
    BY <1>4, CommandsOfRows
  <2>3. ASSUME NEW c \in Clients, NEW m \in wire'[c] PROVE Accepted(m.row)'
    <3>1. CASE c = s
      BY <1>1, <1>2, <1>12, <2>2, <2>3, <3>1 DEF TypeOK
    <3>2. CASE c # s
      <4>1. m \in wire[c] /\ m.row \in Row
        BY <1>1, <1>2, <2>3, <3>2 DEF TypeOK, Command
      <4>. QED
        BY <1>11, <4>1 DEF IInv, WorkAccepted
    <3>. QED
      BY <3>1, <3>2
  <2>4. \A pipe \in orphans' : \A m \in pipe : Accepted(m.row)'
    <3>1. \A pipe \in orphans : \A m \in pipe : m.row \in Row
      BY <1>1 DEF TypeOK, Command
    <3>. QED
      BY <1>2, <1>11, <3>1 DEF IInv, WorkAccepted
  <2>. QED
    BY <2>1, <2>3, <2>4 DEF WorkAccepted
<1>14. JobTracked'
  <2>. SUFFICES ASSUME NEW c \in Clients, NEW r \in job'[c]
                PROVE  \/ [op |-> "ZADD", row |-> r] \in wire'[c]
                       \/ index'[r.board][r.user] >= r.score
    BY DEF JobTracked
  <2>1. CASE c = s
    BY <1>1, <1>2, <1>4, <2>1, CommandsOfRows DEF TypeOK
  <2>2. CASE c # s
    BY <1>1, <1>2, <2>2 DEF TypeOK, IInv, JobTracked
  <2>. QED
    BY <2>1, <2>2
<1>15. NoStandingForgotten'
  <2>. SUFFICES ASSUME NEW b \in Boards, NEW w \in Users
                PROVE  \/ index'[b][w] = standing'[b][w]
                       \/ [board |-> b, user |-> w, score |-> standing'[b][w]] \in pending'
    BY DEF NoStandingForgotten
  <2>1. CASE b \in Improved(standing, u, bs, v) /\ w = u
    BY <1>2, <1>7, <2>1
  <2>2. CASE ~(b \in Improved(standing, u, bs, v) /\ w = u)
    BY <1>2, <1>7, <2>2 DEF IInv, NoStandingForgotten
  <2>. QED
    BY <2>1, <2>2
<1>. QED
  BY <1>8, <1>10, <1>13, <1>14, <1>15 DEF IInv

\* Rows may be marked delivered once the index shows them.
LEMMA MarkDeliveredInvariant ==
  ASSUME IInv, NEW c \in Clients, wire[c] = {}, MarkDelivered(job[c]),
         job' = [job EXCEPT ![c] = {}],
         UNCHANGED <<standing, redis, wire, orphans, faults>>
  PROVE  IInv'
<1>1. TypeOK
  BY DEF IInv
<1>2. /\ pending' = pending \ job[c]
      /\ delivered' = delivered \cup (pending \cap job[c])
      /\ UNCHANGED <<standing, index, expiring, wire, orphans, faults>>
  BY DEF MarkDelivered, redis
<1>3. TypeOK'
  <2>1. job' \in [Clients -> SUBSET Row]
    BY <1>1 DEF TypeOK
  <2>. QED
    BY <1>1, <1>2, <2>1 DEF TypeOK
<1>4. IndexNeverAhead'
  BY <1>2 DEF IInv, IndexNeverAhead
<1>5. WorkAccepted'
  BY <1>2 DEF IInv, WorkAccepted, Accepted
<1>6. JobTracked'
  <2>1. \A d \in Clients : job'[d] \subseteq job[d]
    BY <1>1 DEF TypeOK
  <2>. QED
    BY <1>2, <2>1 DEF IInv, JobTracked
<1>7. NoStandingForgotten'
  <2>. SUFFICES ASSUME NEW b \in Boards, NEW u \in Users, index[b][u] # standing[b][u]
                PROVE  [board |-> b, user |-> u, score |-> standing[b][u]] \in pending'
    BY <1>2 DEF NoStandingForgotten
  <2>. DEFINE r == [board |-> b, user |-> u, score |-> standing[b][u]]
  <2>1. r \in pending
    BY DEF IInv, NoStandingForgotten
  <2>2. r \notin job[c]
    <3>. SUFFICES ASSUME r \in job[c] PROVE FALSE
      OBVIOUS
    <3>1. index[b][u] >= standing[b][u]
      BY DEF IInv, JobTracked
    <3>2. index[b][u] <= standing[b][u]
      BY DEF IInv, IndexNeverAhead
    <3>3. index[b][u] \in Int /\ standing[b][u] \in Int
      BY <1>1, Ranges
    <3>. QED
      BY <3>1, <3>2, <3>3
  <2>. QED
    BY <1>2, <2>1, <2>2
<1>. QED
  BY <1>3, <1>4, <1>5, <1>6, <1>7 DEF IInv

LEMMA ClaimInvariant ==
  ASSUME IInv, NEW w \in Sweepers, Claim(w)
  PROVE  IInv'
<1>1. TypeOK
  BY DEF IInv
<1>2. PICK rows \in SUBSET Unlocked :
        /\ job' = [job EXCEPT ![w] = rows]
        /\ wire' = [wire EXCEPT ![w] = WithoutPeriod(rows)]
  BY DEF Claim
<1>3. UNCHANGED <<standing, pending, delivered, index, expiring, orphans, faults>>
  BY DEF Claim, durable, redis
<1>4. rows \subseteq pending /\ rows \subseteq Row /\ w \in Clients
  BY <1>1 DEF Unlocked, TypeOK, Clients
<1>5. WithoutPeriod(rows) \subseteq Command
  BY <1>4, CommandsOfRows
<1>6. TypeOK'
  <2>1. job' \in [Clients -> SUBSET Row] /\ wire' \in [Clients -> SUBSET Command]
    BY <1>1, <1>2, <1>4, <1>5 DEF TypeOK
  <2>. QED
    BY <1>1, <1>3, <2>1 DEF TypeOK
<1>7. IndexNeverAhead' /\ NoStandingForgotten'
  BY <1>3 DEF IInv, IndexNeverAhead, NoStandingForgotten
<1>8. WorkAccepted'
  <2>1. \A m \in WithoutPeriod(rows) : m.row \in pending
    BY <1>4, CommandsOfRows
  <2>2. \A c \in Clients : wire'[c] = IF c = w THEN WithoutPeriod(rows) ELSE wire[c]
    BY <1>1, <1>2, <1>4 DEF TypeOK
  <2>. QED
    BY <1>3, <2>1, <2>2 DEF IInv, WorkAccepted, Accepted
<1>9. JobTracked'
  <2>1. \A c \in Clients : /\ wire'[c] = IF c = w THEN WithoutPeriod(rows) ELSE wire[c]
                           /\ job'[c] = IF c = w THEN rows ELSE job[c]
    BY <1>1, <1>2, <1>4 DEF TypeOK
  <2>2. \A r \in rows : [op |-> "ZADD", row |-> r] \in WithoutPeriod(rows)
    BY <1>4, CommandsOfRows
  <2>. QED
    BY <1>3, <2>1, <2>2 DEF IInv, JobTracked
<1>. QED
  BY <1>6, <1>7, <1>8, <1>9 DEF IInv

\* Redis running one command: m is the command, its pipeline shrinks.
LEMMA ExecuteInvariant ==
  ASSUME IInv, NEW m \in Command, Accepted(m.row), Execute(m),
         UNCHANGED <<durable, job, faults>>
  PROVE  /\ IndexNeverAhead'
         /\ NoStandingForgotten'
         /\ \A b \in Boards, u \in Users : index'[b][u] >= index[b][u]
         /\ m.op = "ZADD" => index'[m.row.board][m.row.user] >= m.row.score
         /\ index' \in [Boards -> [Users -> Standing]]
         /\ expiring' \subseteq Boards
<1>1. TypeOK
  BY DEF IInv
<1>2. UNCHANGED <<standing, pending, delivered, job, faults>>
  BY DEF durable
<1>3. IndexNeverAhead'
  <2>. SUFFICES ASSUME NEW b \in Boards, NEW u \in Users
                PROVE  index'[b][u] <= standing[b][u]
    BY <1>2 DEF IndexNeverAhead
  <2>1. index[b][u] <= standing[b][u]
    BY DEF IInv, IndexNeverAhead
  <2>2. \/ index'[b][u] = index[b][u]
        \/ m.row.board = b /\ m.row.user = u /\ index'[b][u] = m.row.score
    BY <1>1, Executed
  <2>. QED
    BY <2>1, <2>2 DEF Accepted
<1>4. NoStandingForgotten'
  <2>. SUFFICES ASSUME NEW b \in Boards, NEW u \in Users,
                       [board |-> b, user |-> u, score |-> standing[b][u]] \notin pending
                PROVE  index'[b][u] = standing[b][u]
    BY <1>2 DEF NoStandingForgotten
  <2>1. index[b][u] = standing[b][u]
    BY DEF IInv, NoStandingForgotten
  <2>2. index'[b][u] >= index[b][u]
    BY <1>1, Executed
  <2>3. index'[b][u] <= standing[b][u]
    BY <1>2, <1>3 DEF IndexNeverAhead
  <2>4. index[b][u] \in Int
    BY <1>1, Ranges
  <2>5. index'[b] \in [Users -> Standing]
    BY <1>1, Executed
  <2>6. index'[b][u] \in Int
    BY <2>5, StandingIsInt
  <2>. QED
    BY <2>1, <2>2, <2>3, <2>4, <2>6
<1>. QED
  BY <1>1, <1>3, <1>4, Executed

LEMMA RunInvariant ==
  ASSUME IInv, NEW c \in Clients, Run(c)
  PROVE  IInv'
<1>1. TypeOK
  BY DEF IInv
<1>2. PICK m \in wire[c] :
        Execute(m) /\ wire' = [wire EXCEPT ![c] = @ \ {m}]
  BY DEF Run
<1>3. UNCHANGED <<durable, job, orphans, faults>>
  BY DEF Run
<1>4. m \in Command /\ Accepted(m.row)
  BY <1>1 DEF TypeOK, IInv, WorkAccepted
<1>5. /\ IndexNeverAhead' /\ NoStandingForgotten'
      /\ \A b \in Boards, u \in Users : index'[b][u] >= index[b][u]
      /\ m.op = "ZADD" => index'[m.row.board][m.row.user] >= m.row.score
      /\ index' \in [Boards -> [Users -> Standing]]
      /\ expiring' \subseteq Boards
  BY <1>2, <1>3, <1>4, ExecuteInvariant
<1>6. \A d \in Clients : wire'[d] = IF d = c THEN wire[c] \ {m} ELSE wire[d]
  BY <1>1, <1>2 DEF TypeOK
<1>7. TypeOK'
  <2>1. wire' \in [Clients -> SUBSET Command]
    BY <1>1, <1>2 DEF TypeOK
  <2>. QED
    BY <1>1, <1>3, <1>5, <2>1 DEF TypeOK, durable
<1>8. WorkAccepted'
  BY <1>3, <1>6 DEF IInv, WorkAccepted, Accepted, durable
<1>9. JobTracked'
  <2>. SUFFICES ASSUME NEW d \in Clients, NEW r \in job[d],
                       [op |-> "ZADD", row |-> r] \notin wire'[d]
                PROVE  index'[r.board][r.user] >= r.score
    BY <1>3 DEF JobTracked
  <2>1. r \in Row
    BY <1>1 DEF TypeOK
  <2>2. CASE [op |-> "ZADD", row |-> r] = m
    BY <1>5, <2>2
  <2>3. CASE [op |-> "ZADD", row |-> r] # m
    <3>1. [op |-> "ZADD", row |-> r] \notin wire[d]
      BY <1>6, <2>3
    <3>2. index[r.board][r.user] >= r.score
      BY <3>1 DEF IInv, JobTracked
    <3>3. index'[r.board][r.user] >= index[r.board][r.user]
      BY <1>5, <2>1, RowFields
    <3>4. index'[r.board] \in [Users -> Standing]
      BY <1>5, <2>1, RowFields
    <3>5. index'[r.board][r.user] \in Int /\ index[r.board][r.user] \in Int /\ r.score \in Int
      BY <1>1, <2>1, <3>4, RowFields, Ranges, StandingIsInt
    <3>. QED
      BY <3>2, <3>3, <3>5
  <2>. QED
    BY <2>2, <2>3
<1>. QED
  BY <1>5, <1>7, <1>8, <1>9 DEF IInv

LEMMA RunOrphanInvariant ==
  ASSUME IInv, RunOrphan
  PROVE  IInv'
<1>1. TypeOK
  BY DEF IInv
<1>2. PICK pipe \in orphans : \E m \in pipe :
        /\ Execute(m)
        /\ orphans' = ((orphans \ {pipe}) \cup {pipe \ {m}}) \ {{}}
  BY DEF RunOrphan
<1>3. PICK m \in pipe :
        /\ Execute(m)
        /\ orphans' = ((orphans \ {pipe}) \cup {pipe \ {m}}) \ {{}}
  BY <1>2
<1>4. UNCHANGED <<durable, job, wire, faults>>
  BY DEF RunOrphan
<1>5. m \in Command /\ Accepted(m.row)
  BY <1>1 DEF TypeOK, IInv, WorkAccepted
<1>6. /\ IndexNeverAhead' /\ NoStandingForgotten'
      /\ \A b \in Boards, u \in Users : index'[b][u] >= index[b][u]
      /\ index' \in [Boards -> [Users -> Standing]]
      /\ expiring' \subseteq Boards
  BY <1>3, <1>4, <1>5, ExecuteInvariant
<1>7. TypeOK'
  <2>1. orphans' \subseteq SUBSET Command
    BY <1>1, <1>3 DEF TypeOK
  <2>. QED
    BY <1>1, <1>4, <1>6, <2>1 DEF TypeOK, durable
<1>8. WorkAccepted'
  <2>1. \A p \in orphans' : \A n \in p : Accepted(n.row)
    BY <1>3 DEF IInv, WorkAccepted
  <2>. QED
    BY <1>4, <2>1 DEF IInv, WorkAccepted, Accepted, durable
<1>9. JobTracked'
  <2>. SUFFICES ASSUME NEW d \in Clients, NEW r \in job[d],
                       [op |-> "ZADD", row |-> r] \notin wire[d]
                PROVE  index'[r.board][r.user] >= r.score
    BY <1>4 DEF JobTracked
  <2>1. r \in Row
    BY <1>1 DEF TypeOK
  <2>2. index[r.board][r.user] >= r.score
    BY DEF IInv, JobTracked
  <2>3. index'[r.board][r.user] >= index[r.board][r.user]
    BY <1>6, <2>1, RowFields
  <2>4. index'[r.board] \in [Users -> Standing]
    BY <1>6, <2>1, RowFields
  <2>5. index'[r.board][r.user] \in Int /\ index[r.board][r.user] \in Int /\ r.score \in Int
    BY <1>1, <2>1, <2>4, RowFields, Ranges, StandingIsInt
  <2>. QED
    BY <2>2, <2>3, <2>5
<1>. QED
  BY <1>6, <1>7, <1>8, <1>9 DEF IInv

LEMMA GiveUpInvariant ==
  ASSUME IInv, NEW c \in Clients, GiveUp(c)
  PROVE  IInv'
<1>1. TypeOK
  BY DEF IInv
<1>2. /\ job' = [job EXCEPT ![c] = {}]
      /\ wire' = [wire EXCEPT ![c] = {}]
      /\ orphans' = (orphans \cup {wire[c]}) \ {{}}
      /\ faults' = faults + 1 /\ faults < MaxFaults
      /\ UNCHANGED <<standing, pending, delivered, index, expiring>>
  BY DEF GiveUp, durable, redis
<1>3. \A d \in Clients : /\ job'[d] = IF d = c THEN {} ELSE job[d]
                         /\ wire'[d] = IF d = c THEN {} ELSE wire[d]
  BY <1>1, <1>2 DEF TypeOK
<1>4. TypeOK'
  <2>1. job' \in [Clients -> SUBSET Row] /\ wire' \in [Clients -> SUBSET Command]
    BY <1>1, <1>2 DEF TypeOK
  <2>2. orphans' \subseteq SUBSET Command
    BY <1>1, <1>2 DEF TypeOK
  <2>3. faults' \in 0..MaxFaults
    BY <1>1, <1>2, MaxFaultsAssumption DEF TypeOK
  <2>. QED
    BY <1>1, <1>2, <2>1, <2>2, <2>3 DEF TypeOK
<1>5. IndexNeverAhead' /\ NoStandingForgotten'
  BY <1>2 DEF IInv, IndexNeverAhead, NoStandingForgotten
<1>6. WorkAccepted'
  BY <1>2, <1>3 DEF IInv, WorkAccepted, Accepted
<1>7. JobTracked'
  <2>. SUFFICES ASSUME NEW d \in Clients, NEW r \in job'[d]
                PROVE  \/ [op |-> "ZADD", row |-> r] \in wire'[d]
                       \/ index'[r.board][r.user] >= r.score
    BY DEF JobTracked
  <2>1. d # c
    BY <1>3
  <2>2. r \in job[d] /\ wire'[d] = wire[d]
    BY <1>3, <2>1
  <2>. QED
    BY <1>2, <2>2 DEF IInv, JobTracked
<1>. QED
  BY <1>4, <1>5, <1>6, <1>7 DEF IInv

LEMMA LoseOrphanInvariant == IInv /\ LoseOrphan => IInv'
BY DEF IInv, LoseOrphan, TypeOK, IndexNeverAhead, NoStandingForgotten, WorkAccepted,
       Accepted, JobTracked, durable, redis

LEMMA PruneInvariant == IInv /\ Prune => IInv'
BY DEF IInv, Prune, TypeOK, IndexNeverAhead, NoStandingForgotten, WorkAccepted,
       Accepted, JobTracked, redis

LEMMA NextInvariant == IInv /\ [Next]_vars => IInv'
<1>. SUFFICES ASSUME IInv, [Next]_vars PROVE IInv'
  OBVIOUS
<1>1. ASSUME NEW s \in Submitters, NEW u \in Users, NEW bs \in Fanouts, NEW v \in Scores,
             Submit(s, u, bs, v)
      PROVE  IInv'
  BY <1>1, SubmitInvariant
<1>2. ASSUME NEW s \in Submitters, Settle(s) PROVE IInv'
  BY <1>2, MarkDeliveredInvariant DEF Settle, Clients
<1>3. ASSUME NEW w \in Sweepers, Claim(w) PROVE IInv'
  BY <1>3, ClaimInvariant
<1>4. ASSUME NEW w \in Sweepers, Deliver(w) PROVE IInv'
  BY <1>4, MarkDeliveredInvariant DEF Deliver, Clients
<1>5. ASSUME NEW c \in Clients, Run(c) PROVE IInv'
  BY <1>5, RunInvariant
<1>6. ASSUME NEW c \in Clients, GiveUp(c) PROVE IInv'
  BY <1>6, GiveUpInvariant
<1>7. CASE RunOrphan
  BY <1>7, RunOrphanInvariant
<1>8. CASE LoseOrphan
  BY <1>8, LoseOrphanInvariant
<1>9. CASE Prune
  BY <1>9, PruneInvariant
<1>10. CASE UNCHANGED vars
  BY <1>10 DEF vars, IInv, TypeOK, IndexNeverAhead, NoStandingForgotten, WorkAccepted,
               Accepted, JobTracked
<1>. QED
  BY <1>1, <1>2, <1>3, <1>4, <1>5, <1>6, <1>7, <1>8, <1>9, <1>10 DEF Next

\* The inductive invariant holds in every reachable state.
THEOREM Invariant == Spec => []IInv
<1>1. Init => IInv
  BY InitInvariant
<1>2. IInv /\ [Next]_vars => IInv'
  BY NextInvariant
<1>. QED
  BY <1>1, <1>2, PTL DEF Spec

-----------------------------------------------------------------------------

\* The state always has the shape the tables and keys of the code have.
THEOREM TypeCorrect == Spec => []TypeOK
<1>1. IInv => TypeOK
  BY DEF IInv
<1>. QED
  BY <1>1, Invariant, PTL

\* The index never shows a score Postgres has not accepted, whatever is lost,
\* late or repeated.
THEOREM NeverAhead == Spec => []IndexNeverAhead
<1>1. IInv => IndexNeverAhead
  BY DEF IInv
<1>. QED
  BY <1>1, Invariant, PTL

\* Every standing is shown by the index or still to be delivered.
THEOREM NeverForgotten == Spec => []NoStandingForgotten
<1>1. IInv => NoStandingForgotten
  BY DEF IInv
<1>. QED
  BY <1>1, Invariant, PTL

\* No member of the index ever goes back to a lower score: only Redis executing a
\* command changes the index, and ZADD GT only raises it.
THEOREM NeverRegresses == Spec => IndexNeverRegresses
<1>1. IInv /\ [Next]_vars =>
        [\A b \in Boards, u \in Users : index'[b][u] >= index[b][u]]_vars
  <2>. SUFFICES ASSUME IInv, Next, NEW b \in Boards, NEW u \in Users
                PROVE  index'[b][u] >= index[b][u]
    OBVIOUS
  <2>1. TypeOK
    BY DEF IInv
  <2>2. CASE UNCHANGED index
    BY <2>1, <2>2, Ranges
  <2>3. ASSUME NEW c \in Clients, Run(c) PROVE index'[b][u] >= index[b][u]
    BY <2>1, <2>3, Executed DEF Run, TypeOK
  <2>4. CASE RunOrphan
    BY <2>1, <2>4, Executed DEF RunOrphan, TypeOK
  <2>. QED
    BY <2>2, <2>3, <2>4
       DEF Next, Submit, Settle, Claim, Deliver, GiveUp, LoseOrphan, Prune, redis
<1>. QED
  BY <1>1, Invariant, PTL DEF Spec, IndexNeverRegresses

\* A row is marked delivered only for work that landed: rows leave the pending set
\* in Settle and Deliver alone, whose clients have had every reply.
THEOREM DeliveryIsShown == Spec => DeliveredMeansShown
<1>1. IInv /\ [Next]_vars =>
        [\A r \in pending :
            r \notin pending' => index'[r.board][r.user] >= r.score]_vars
  <2>. SUFFICES ASSUME IInv, Next, NEW r \in pending, r \notin pending'
                PROVE  index'[r.board][r.user] >= r.score
    OBVIOUS
  <2>1. ASSUME NEW c \in Clients, wire[c] = {}, MarkDelivered(job[c]), UNCHANGED redis
        PROVE  index'[r.board][r.user] >= r.score
    <3>1. r \in job[c]
      BY <2>1 DEF MarkDelivered
    <3>. QED
      BY <2>1, <3>1 DEF IInv, JobTracked, redis
  <2>2. CASE pending \subseteq pending'
    BY <2>2
  <2>3. ASSUME NEW s \in Submitters, Settle(s) PROVE index'[r.board][r.user] >= r.score
    BY <2>1, <2>3 DEF Settle, Clients, redis
  <2>4. ASSUME NEW w \in Sweepers, Deliver(w) PROVE index'[r.board][r.user] >= r.score
    BY <2>1, <2>4 DEF Deliver, Clients, redis
  <2>. QED
    BY <2>2, <2>3, <2>4
       DEF Next, Submit, Claim, Run, GiveUp, RunOrphan, LoseOrphan, Prune, durable
<1>. QED
  BY <1>1, Invariant, PTL DEF Spec, DeliveredMeansShown

-----------------------------------------------------------------------------

\* What a sweeper has claimed nobody else works on: FOR UPDATE SKIP LOCKED keeps
\* the other sweepers away, the row locks make the fast path wait.
THEOREM ClaimsAreExclusive == Spec => []ClaimsHold
<1>1. Init => ClaimsHold
  BY DEF Init, ClaimsHold, Clients
<1>2. TypeOK /\ ClaimsHold /\ [Next]_vars => ClaimsHold'
  <2>. SUFFICES ASSUME TypeOK, ClaimsHold, [Next]_vars PROVE ClaimsHold'
    OBVIOUS
  <2>. USE DEF Clients
  <2>1. ASSUME NEW s \in Submitters, NEW u \in Users, NEW bs \in Fanouts, NEW v \in Scores,
               Submit(s, u, bs, v)
        PROVE  ClaimsHold'
    <3>1. pending \subseteq pending' /\ \A w \in Sweepers : job'[w] = job[w]
      BY <2>1, ClientsAssumption DEF Submit, TypeOK
    <3>. QED
      BY <3>1 DEF ClaimsHold
  <2>2. ASSUME NEW s \in Submitters, Settle(s) PROVE ClaimsHold'
    <3>1. /\ pending' = pending \ job[s]
          /\ \A w \in Sweepers : job'[w] = job[w] /\ job[w] \cap job[s] = {}
      BY <2>2, ClientsAssumption DEF Settle, MarkDelivered, TypeOK
    <3>. QED
      BY <3>1 DEF ClaimsHold
  <2>3. ASSUME NEW w \in Sweepers, Claim(w) PROVE ClaimsHold'
    <3>1. PICK rows \in SUBSET Unlocked : job' = [job EXCEPT ![w] = rows]
      BY <2>3 DEF Claim
    <3>2. pending' = pending
      BY <2>3 DEF Claim, durable
    <3>3. \A x \in Sweepers : job'[x] = IF x = w THEN rows ELSE job[x]
      BY <3>1 DEF TypeOK
    <3>4. rows \subseteq pending /\ \A x \in Sweepers : rows \cap job[x] = {}
      BY DEF Unlocked
    <3>. QED
      BY <3>2, <3>3, <3>4 DEF ClaimsHold
  <2>4. ASSUME NEW w \in Sweepers, Deliver(w) PROVE ClaimsHold'
    <3>1. pending' = pending \ job[w]
      BY <2>4 DEF Deliver, MarkDelivered
    <3>2. \A x \in Sweepers : job'[x] = IF x = w THEN {} ELSE job[x]
      BY <2>4 DEF Deliver, TypeOK
    <3>. QED
      BY <3>1, <3>2 DEF ClaimsHold
  <2>5. ASSUME NEW c \in Clients, GiveUp(c) PROVE ClaimsHold'
    <3>1. pending' = pending
      BY <2>5 DEF GiveUp, durable
    <3>2. \A x \in Sweepers : job'[x] = IF x = c THEN {} ELSE job[x]
      BY <2>5 DEF GiveUp, TypeOK
    <3>. QED
      BY <3>1, <3>2 DEF ClaimsHold
  <2>6. CASE UNCHANGED <<pending, job>>
    BY <2>6 DEF ClaimsHold
  <2>. QED
    BY <2>1, <2>2, <2>3, <2>4, <2>5, <2>6
       DEF Next, Run, RunOrphan, LoseOrphan, Prune, vars, durable
<1>. QED
  BY <1>1, <1>2, TypeCorrect, PTL DEF Spec

-----------------------------------------------------------------------------
(* The lifetime of the keys.                                               *)

\* A client sends commands only for the rows it is working on.
PipesFollowJobs == \A c \in Clients : \A m \in wire[c] : m.row \in job[c]

\* A fast path that is still under way writes to board b.
Entered(b) == \E s \in Submitters : \E r \in job[s] : r.board = b

\* While no call has failed, the fast path of every undelivered row is still under
\* way, so whatever a sweeper creates early gets its lifetime from that.
ExpiresInTime ==
    /\ PipesFollowJobs
    /\ faults = 0 =>
        /\ orphans = {}
        /\ \A r \in pending : \E s \in Submitters : r \in job[s]
        /\ \A s \in Submitters : \A r \in job[s] :
              r.board \in Windowed =>
                [op |-> "EXPIRE", row |-> r] \in wire[s] \/ r.board \in expiring
        /\ \A b \in Windowed : KeyExists(b) => b \in expiring \/ Entered(b)

LEMMA SubmitExpires ==
  ASSUME IInv, ExpiresInTime, NEW s \in Submitters, NEW u \in Users, NEW bs \in Fanouts,
         NEW v \in Scores, Submit(s, u, bs, v)
  PROVE  ExpiresInTime'
<1>. DEFINE rows == {[board |-> b, user |-> u, score |-> v] : b \in Improved(standing, u, bs, v)}
<1>1. /\ job[s] = {}
      /\ pending' = pending \cup rows
      /\ job' = [job EXCEPT ![s] = rows]
      /\ wire' = [wire EXCEPT ![s] = WithPeriod(rows)]
      /\ orphans' = orphans /\ faults' = faults
      /\ index' = index /\ expiring' = expiring
  BY DEF Submit, redis
<1>2. s \in Clients /\ Submitters \subseteq Clients
  BY DEF Clients
<1>3. \A c \in Clients : /\ job'[c] = IF c = s THEN rows ELSE job[c]
                         /\ wire'[c] = IF c = s THEN WithPeriod(rows) ELSE wire[c]
  BY <1>1, <1>2 DEF IInv, TypeOK
<1>4. rows \in SUBSET Row
  <2>1. bs \subseteq Boards
    BY FanoutsAssumption
  <2>. QED
    BY <2>1 DEF Improved, Row
<1>5. PipesFollowJobs'
  <2>1. \A m \in WithPeriod(rows) : m.row \in rows
    BY <1>4, CommandsOfRows
  <2>. QED
    BY <1>3, <2>1 DEF ExpiresInTime, PipesFollowJobs
<1>6. ASSUME faults' = 0
      PROVE  /\ orphans' = {}
             /\ \A r \in pending' : \E t \in Submitters : r \in job'[t]
             /\ \A t \in Submitters : \A r \in job'[t] :
                   r.board \in Windowed =>
                     [op |-> "EXPIRE", row |-> r] \in wire'[t] \/ r.board \in expiring'
             /\ \A b \in Windowed : KeyExists(b)' => b \in expiring' \/ Entered(b)'
  <2>. USE <1>1, <1>6
  <2>1. \A t \in Submitters : job[t] \subseteq job'[t]
    BY <1>2, <1>3
  <2>2. \A r \in pending' : \E t \in Submitters : r \in job'[t]
    BY <1>2, <1>3, <2>1 DEF ExpiresInTime
  <2>3. \A r \in rows : r.board \in Windowed => [op |-> "EXPIRE", row |-> r] \in WithPeriod(rows)
    BY DEF WithPeriod
  <2>4. \A t \in Submitters : \A r \in job'[t] :
          r.board \in Windowed =>
            [op |-> "EXPIRE", row |-> r] \in wire'[t] \/ r.board \in expiring'
    BY <1>2, <1>3, <2>3 DEF ExpiresInTime
  <2>5. \A b \in Windowed : KeyExists(b)' => b \in expiring' \/ Entered(b)'
    BY <2>1 DEF ExpiresInTime, KeyExists, Entered
  <2>. QED
    BY <2>2, <2>4, <2>5 DEF ExpiresInTime
<1>. QED
  BY <1>5, <1>6 DEF ExpiresInTime

LEMMA SettleExpires ==
  ASSUME IInv, ExpiresInTime, NEW s \in Submitters, Settle(s)
  PROVE  ExpiresInTime'
<1>1. /\ wire[s] = {}
      /\ pending' = pending \ job[s]
      /\ job' = [job EXCEPT ![s] = {}]
      /\ wire' = wire /\ orphans' = orphans /\ faults' = faults
      /\ index' = index /\ expiring' = expiring
  BY DEF Settle, MarkDelivered, redis
<1>2. s \in Clients /\ Submitters \subseteq Clients
  BY DEF Clients
<1>3. \A c \in Clients : job'[c] = IF c = s THEN {} ELSE job[c]
  BY <1>1, <1>2 DEF IInv, TypeOK
<1>4. PipesFollowJobs'
  BY <1>1, <1>3 DEF ExpiresInTime, PipesFollowJobs
<1>5. ASSUME faults' = 0
      PROVE  /\ orphans' = {}
             /\ \A r \in pending' : \E t \in Submitters : r \in job'[t]
             /\ \A t \in Submitters : \A r \in job'[t] :
                   r.board \in Windowed =>
                     [op |-> "EXPIRE", row |-> r] \in wire'[t] \/ r.board \in expiring'
             /\ \A b \in Windowed : KeyExists(b)' => b \in expiring' \/ Entered(b)'
  <2>. USE <1>1, <1>5
  <2>1. \A r \in pending' : \E t \in Submitters : r \in job'[t]
    <3>. SUFFICES ASSUME NEW r \in pending' PROVE \E t \in Submitters : r \in job'[t]
      OBVIOUS
    <3>1. r \in pending /\ r \notin job[s]
      OBVIOUS
    <3>2. PICK t \in Submitters : r \in job[t]
      BY <3>1 DEF ExpiresInTime
    <3>. QED
      BY <1>2, <1>3, <3>1, <3>2
  <2>2. \A t \in Submitters : \A r \in job'[t] :
          r.board \in Windowed =>
            [op |-> "EXPIRE", row |-> r] \in wire'[t] \/ r.board \in expiring'
    BY <1>2, <1>3 DEF ExpiresInTime
  <2>3. \A r \in job[s] : r.board \in Windowed => r.board \in expiring
    BY DEF ExpiresInTime
  <2>4. ASSUME NEW b \in Windowed, KeyExists(b)', b \notin expiring'
        PROVE  Entered(b)'
    <3>1. PICK t \in Submitters : \E r \in job[t] : r.board = b
      BY <2>4 DEF ExpiresInTime, KeyExists, Entered
    <3>2. t # s
      BY <2>3, <2>4, <3>1
    <3>. QED
      BY <1>2, <1>3, <3>1, <3>2 DEF Entered
  <2>. QED
    BY <2>1, <2>2, <2>4 DEF ExpiresInTime
<1>. QED
  BY <1>4, <1>5 DEF ExpiresInTime

\* The one step that creates a key or gives it a lifetime.
LEMMA RunExpires ==
  ASSUME IInv, ClaimsHold, ExpiresInTime, NEW c \in Clients, Run(c)
  PROVE  ExpiresInTime'
<1>1. PICK m \in wire[c] : /\ Runnable(m, wire[c])
                           /\ Execute(m)
                           /\ wire' = [wire EXCEPT ![c] = @ \ {m}]
                           /\ UNCHANGED <<durable, job, orphans, faults>>
  BY DEF Run
<1>2. /\ pending' = pending /\ job' = job /\ orphans' = orphans /\ faults' = faults
  BY <1>1 DEF durable
<1>3. /\ TypeOK /\ m \in Command /\ m.row \in Row
      /\ m.row.board \in Boards /\ m.row.user \in Users
  <2>1. TypeOK /\ m \in Command
    BY DEF IInv, TypeOK
  <2>. QED
    BY <2>1, CommandFields, RowFields
<1>4. \A d \in Clients : wire'[d] = IF d = c THEN wire[c] \ {m} ELSE wire[d]
  BY <1>1, <1>3 DEF TypeOK
<1>5. m.row \in job[c]
  BY DEF ExpiresInTime, PipesFollowJobs
<1>6. PipesFollowJobs'
  BY <1>2, <1>4 DEF ExpiresInTime, PipesFollowJobs
<1>7. expiring \subseteq expiring'
  BY <1>1 DEF Execute
<1>8. ASSUME m.op = "EXPIRE" PROVE index' = index /\ m.row.board \in expiring'
  <2>1. [op |-> "ZADD", row |-> m.row] \notin wire[c]
    BY <1>1, <1>8 DEF Runnable
  <2>2. index[m.row.board][m.row.user] >= m.row.score
    BY <1>5, <2>1 DEF IInv, JobTracked
  <2>3. m.row.score \in Nat /\ index[m.row.board][m.row.user] \in Int
    <3>1. index[m.row.board] \in [Users -> Standing]
      BY <1>3 DEF TypeOK
    <3>. QED
      BY <1>3, <3>1, StandingIsInt, ScoresAssumption DEF Row
  <2>4. KeyExists(m.row.board)
    BY <1>3, <2>2, <2>3 DEF KeyExists, NoStanding
  <2>. QED
    BY <1>1, <1>8, <2>4 DEF Execute
<1>9. ASSUME faults' = 0
      PROVE  /\ orphans' = {}
             /\ \A r \in pending' : \E t \in Submitters : r \in job'[t]
             /\ \A t \in Submitters : \A r \in job'[t] :
                   r.board \in Windowed =>
                     [op |-> "EXPIRE", row |-> r] \in wire'[t] \/ r.board \in expiring'
             /\ \A b \in Windowed : KeyExists(b)' => b \in expiring' \/ Entered(b)'
  <2>1. faults = 0
    BY <1>2, <1>9
  <2>2. \E s \in Submitters : m.row \in job[s]
    <3>1. CASE c \in Submitters
      BY <1>5, <3>1
    <3>2. CASE c \in Sweepers
      BY <1>5, <2>1, <3>2 DEF ClaimsHold, ExpiresInTime
    <3>. QED
      BY <3>1, <3>2 DEF Clients
  <2>3. ASSUME NEW t \in Submitters, NEW r \in job'[t], r.board \in Windowed
        PROVE  [op |-> "EXPIRE", row |-> r] \in wire'[t] \/ r.board \in expiring'
    <3>1. t \in Clients /\ r \in job[t]
      BY <1>2 DEF Clients
    <3>2. [op |-> "EXPIRE", row |-> r] \in wire[t] \/ r.board \in expiring
      BY <2>1, <2>3, <3>1 DEF ExpiresInTime
    <3>3. CASE m = [op |-> "EXPIRE", row |-> r]
      BY <1>8, <3>3
    <3>4. CASE m # [op |-> "EXPIRE", row |-> r]
      BY <1>4, <1>7, <3>1, <3>2, <3>4
    <3>. QED
      BY <3>3, <3>4
  <2>4. ASSUME NEW b \in Windowed, KeyExists(b)'
        PROVE  b \in expiring' \/ Entered(b)'
    <3>1. b \in Boards
      BY WindowedAssumption
    <3>2. CASE m.row.board = b
      BY <1>2, <2>2, <3>2 DEF Entered
    <3>3. CASE m.row.board # b
      <4>1. \A w \in Users : index'[b][w] = index[b][w]
        BY <1>1, <1>3, <3>1, <3>3, Executed
      <4>2. KeyExists(b)
        BY <2>4, <4>1 DEF KeyExists
      <4>. QED
        BY <1>2, <1>7, <2>1, <4>2 DEF ExpiresInTime, Entered
    <3>. QED
      BY <3>2, <3>3
  <2>. QED
    BY <1>2, <2>1, <2>3, <2>4 DEF ExpiresInTime
<1>. QED
  BY <1>6, <1>9 DEF ExpiresInTime

\* After a failed call the second half of the invariant says nothing.
LEMMA GiveUpExpires ==
  ASSUME IInv, ExpiresInTime, NEW c \in Clients, GiveUp(c)
  PROVE  ExpiresInTime'
<1>1. faults' = faults + 1 /\ faults \in Nat
  BY MaxFaultsAssumption DEF GiveUp, IInv, TypeOK
<1>2. faults' # 0
  BY <1>1
<1>3. \A d \in Clients : /\ job'[d] = IF d = c THEN {} ELSE job[d]
                         /\ wire'[d] = IF d = c THEN {} ELSE wire[d]
  BY DEF GiveUp, IInv, TypeOK
<1>. QED
  BY <1>2, <1>3 DEF ExpiresInTime, PipesFollowJobs

\* A sweeper takes rows, or lets them go when they are shown: the fast paths and
\* the keys are as before.
LEMMA SweeperExpires ==
  ASSUME IInv, ExpiresInTime, NEW w \in Sweepers, Claim(w) \/ Deliver(w)
  PROVE  ExpiresInTime'
<1>1. /\ pending' \subseteq pending
      /\ orphans' = orphans /\ faults' = faults
      /\ index' = index /\ expiring' = expiring
  BY DEF Claim, Deliver, MarkDelivered, durable, redis
<1>2. \A s \in Submitters : job'[s] = job[s] /\ wire'[s] = wire[s]
  BY ClientsAssumption DEF Claim, Deliver, IInv, TypeOK, Clients
<1>3. PipesFollowJobs'
  <2>1. CASE Claim(w)
    <3>1. PICK rows \in SUBSET Unlocked : /\ job' = [job EXCEPT ![w] = rows]
                                          /\ wire' = [wire EXCEPT ![w] = WithoutPeriod(rows)]
      BY <2>1 DEF Claim
    <3>2. rows \in SUBSET Row
      BY DEF Unlocked, IInv, TypeOK
    <3>3. \A m \in WithoutPeriod(rows) : m.row \in rows
      BY <3>2, CommandsOfRows
    <3>4. \A c \in Clients : /\ job'[c] = IF c = w THEN rows ELSE job[c]
                             /\ wire'[c] = IF c = w THEN WithoutPeriod(rows) ELSE wire[c]
      BY <3>1 DEF IInv, TypeOK
    <3>. QED
      BY <3>3, <3>4 DEF ExpiresInTime, PipesFollowJobs
  <2>2. CASE Deliver(w)
    <3>1. wire[w] = {} /\ wire' = wire
      BY <2>2 DEF Deliver
    <3>2. \A c \in Clients : job'[c] = IF c = w THEN {} ELSE job[c]
      BY <2>2 DEF Deliver, IInv, TypeOK
    <3>. QED
      BY <3>1, <3>2 DEF ExpiresInTime, PipesFollowJobs
  <2>. QED
    BY <2>1, <2>2
<1>. QED
  BY <1>1, <1>2, <1>3 DEF ExpiresInTime, KeyExists, Entered

\* While no call has failed, no windowed key outlives the traffic without a time to
\* live, even when a sweeper was first to create it.
THEOREM KeysGetALifetime == Spec => []KeysExpireUnlessFaulted
<1>1. Init => ExpiresInTime
  <2>. SUFFICES ASSUME Init PROVE ExpiresInTime
    OBVIOUS
  <2>1. \A c \in Clients : job[c] = {} /\ wire[c] = {}
    BY DEF Init
  <2>2. \A b \in Windowed : ~KeyExists(b)
    BY WindowedAssumption DEF Init, Nobody, KeyExists
  <2>. QED
    BY <2>1, <2>2 DEF Init, ExpiresInTime, PipesFollowJobs, Clients
<1>2. IInv /\ ClaimsHold /\ ExpiresInTime /\ [Next]_vars => ExpiresInTime'
  <2>. SUFFICES ASSUME IInv, ClaimsHold, ExpiresInTime, [Next]_vars PROVE ExpiresInTime'
    OBVIOUS
  <2>1. CASE RunOrphan \/ LoseOrphan
    <3>1. orphans # {} /\ faults' = faults /\ job' = job /\ wire' = wire
      BY <2>1 DEF RunOrphan, LoseOrphan
    <3>. QED
      BY <3>1 DEF ExpiresInTime, PipesFollowJobs
  <2>2. CASE UNCHANGED <<pending, index, expiring, job, wire, orphans, faults>>
    BY <2>2 DEF ExpiresInTime, PipesFollowJobs, KeyExists, Entered
  <2>. QED
    BY <2>1, <2>2, SubmitExpires, SettleExpires, SweeperExpires, RunExpires, GiveUpExpires
       DEF Next, Prune, vars, redis
<1>3. ExpiresInTime => KeysExpireUnlessFaulted
  BY DEF ExpiresInTime, KeysExpireUnlessFaulted, Quiet, Entered, Clients
<1>. QED
  BY <1>1, <1>2, <1>3, Invariant, ClaimsAreExclusive, PTL DEF Spec


-----------------------------------------------------------------------------

\* A step of Redis is a step of ServedBoard: one member catches up with a score
\* its user has reached, or nothing changes.
LEMMA ExecuteCatchesUp ==
  ASSUME IInv, NEW m \in Command, Accepted(m.row), Execute(m), UNCHANGED standing
  PROVE  [Served!ServedNext]_(Served!served)
<1>1. TypeOK
  BY DEF IInv
<1>2. CASE \A b \in Boards, u \in Users : index'[b][u] = index[b][u]
  <2>1. index' = index
    <3>1. index \in [Boards -> [Users -> Standing]] /\ index' \in [Boards -> [Users -> Standing]]
      BY <1>1, Executed DEF TypeOK
    <3>2. \A b \in Boards : index'[b] = index[b]
      BY <1>2, <3>1
    <3>. QED
      BY <3>1, <3>2
  <2>. QED
    BY <2>1 DEF Served!served
<1>3. CASE ~ \A b \in Boards, u \in Users : index'[b][u] = index[b][u]
  <2>1. PICK b \in Boards, u \in Users : index'[b][u] # index[b][u]
    BY <1>3
  <2>2. /\ m.row.board = b /\ m.row.user = u
        /\ index[b][u] < m.row.score
        /\ index' = [index EXCEPT ![b][u] = m.row.score]
    BY <1>1, <2>1, Executed
  <2>3. m.row.score \in Scores
    BY CommandFields DEF Row
  <2>4. m.row.score <= standing[b][u]
    BY <2>2 DEF Accepted
  <2>5. Served!CatchUp(b, u, m.row.score)
    BY <2>2, <2>4 DEF Served!CatchUp
  <2>. QED
    BY <2>3, <2>5 DEF Served!ServedNext
<1>. QED
  BY <1>2, <1>3

\* A submission is a step of ServedBoard: the tables take the maximum, the index
\* does not move.
LEMMA SubmitAccepts ==
  ASSUME TypeOK, NEW s \in Submitters, NEW u \in Users, NEW bs \in Fanouts,
         NEW v \in Scores, Submit(s, u, bs, v)
  PROVE  Served!Accept(u, bs, v)
<1>. DEFINE raised == Raised(standing, u, bs, v)
            recorded == [b \in Boards |->
                           [w \in Users |-> IF b \in bs /\ w = u
                                              THEN Larger(standing[b][w], v)
                                              ELSE standing[b][w]]]
<1>1. bs \in SUBSET Boards /\ standing \in [Boards -> [Users -> Standing]]
  BY FanoutsAssumption DEF TypeOK
<1>2. /\ raised \in [Boards -> [Users -> Standing]]
      /\ \A b \in Boards, w \in Users :
           raised[b][w] = IF b \in bs /\ w = u THEN Larger(standing[b][w], v) ELSE standing[b][w]
      /\ \A b \in Boards, w \in Users :
           raised[b][w] = IF b \in Improved(standing, u, bs, v) /\ w = u THEN v ELSE standing[b][w]
      /\ \A b \in Boards, w \in Users : raised[b][w] >= standing[b][w]
  BY <1>1, RaisedStandings
<1>3. \A b \in Boards : raised[b] = recorded[b]
  BY <1>2
<1>4. raised = recorded
  BY <1>2, <1>3
<1>5. standing' = recorded /\ index' = index
  BY <1>4 DEF Submit, redis
<1>. QED
  BY <1>5 DEF Served!Accept, Served!Record, Served!Larger, Larger

\* The service's two stores implement what ServedBoard promises of them.
THEOREM ImplementsServedBoard == Spec => ServedBoardSpec
<1>1. Init => Served!ServedInit
  BY DEF Init, Served!ServedInit, Served!BestInit, Nobody, Served!Nobody,
         NoStanding, Served!NoStanding
<1>2. IInv /\ [Next]_vars => [Served!ServedNext]_(Served!served)
  <2>. SUFFICES ASSUME IInv, [Next]_vars PROVE [Served!ServedNext]_(Served!served)
    OBVIOUS
  <2>1. TypeOK
    BY DEF IInv
  <2>2. CASE UNCHANGED <<standing, index>>
    BY <2>2 DEF Served!served
  <2>3. ASSUME NEW s \in Submitters, NEW u \in Users, NEW bs \in Fanouts, NEW v \in Scores,
               Submit(s, u, bs, v)
        PROVE  Served!ServedNext
    BY <2>1, <2>3, SubmitAccepts DEF Served!ServedNext
  <2>4. ASSUME NEW c \in Clients, Run(c) PROVE [Served!ServedNext]_(Served!served)
    <3>1. PICK m \in wire[c] : Execute(m)
      BY <2>4 DEF Run
    <3>2. m \in Command /\ Accepted(m.row) /\ UNCHANGED standing
      BY <2>1, <2>4 DEF TypeOK, IInv, WorkAccepted, Run, durable
    <3>. QED
      BY <3>1, <3>2, ExecuteCatchesUp
  <2>5. CASE RunOrphan
    <3>1. PICK pipe \in orphans : \E m \in pipe : Execute(m)
      BY <2>5 DEF RunOrphan
    <3>2. PICK m \in pipe : Execute(m)
      BY <3>1
    <3>3. m \in Command /\ Accepted(m.row) /\ UNCHANGED standing
      BY <2>1, <2>5 DEF TypeOK, IInv, WorkAccepted, RunOrphan, durable
    <3>. QED
      BY <3>2, <3>3, ExecuteCatchesUp
  <2>. QED
    BY <2>2, <2>3, <2>4, <2>5
       DEF Next, vars, Settle, Claim, Deliver, GiveUp, LoseOrphan, Prune, durable, redis
<1>. QED
  BY <1>1, <1>2, Invariant, PTL DEF Spec, ServedBoardSpec, Served!ServedSpec
=============================================================================
