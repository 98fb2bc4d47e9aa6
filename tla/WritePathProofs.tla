--------------------------- MODULE WritePathProofs ---------------------------
(***************************************************************************)
(* What TLAPS proves of WritePath, for every set of boards, fan-outs,      *)
(* users, scores, names and requests: the type invariant, what the tables  *)
(* tell at any moment, what a commit reports, and that the write path      *)
(* implements BestScore.  The argument is in IInv: the row lock of a user  *)
(* has one holder, and so what a transaction has read stays true of the    *)
(* tables until it commits, although it read it statements ago.            *)
(***************************************************************************)
EXTENDS WritePath, StandingsProofs

\* No two transactions hold the row of one user.
UserRowsExclusive ==
    \A q, r \in Requests :
        q # r /\ HoldsUserRow(q) /\ HoldsUserRow(r) => req[q].user # req[r].user

\* The name COALESCE gives the user of r.
NameFor(r) ==
    IF req[r].name = NoName /\ profile[req[r].user] # NoUser
      THEN profile[req[r].user] ELSE req[r].name

\* The outbox rows r owes for what it improves.
RowsOf(r) ==
    IF IndexConfigured
      THEN {[board |-> b, user |-> req[r].user, score |-> req[r].score, by |-> r] :
              b \in ImprovedBoards(r)}
      ELSE {}

\* What a transaction has found so far is what it would find now.
Current(r) ==
    /\ HoldsUserRow(r) => txn[r].name = NameFor(r)
    /\ HoldsEntryRows(r) => txn[r].improved = ImprovedBoards(r)
    /\ phase[r] \in {"enqueue", "commit"} => txn[r].reported = ReadBack(r)
    /\ phase[r] = "commit" => txn[r].rows = RowsOf(r)

\* Nobody is stamped ahead of the clock.
StampedInThePast == \A r \in Requests : phase[r] # "idle" => req[r].at \in 0..clock

IInv ==
    /\ TypeOK
    /\ StampedInThePast
    /\ UserRowsExclusive
    /\ \A r \in Requests : Current(r)

-----------------------------------------------------------------------------
(* Facts about one request.                                                *)

\* What a request that has arrived carries.
LEMMA Carried ==
  ASSUME TypeOK, NEW r \in Requests, phase[r] # "idle"
  PROVE  /\ req[r].user \in Users
         /\ req[r].boards \in Fanouts /\ req[r].boards \subseteq Boards
         /\ req[r].score \in Scores /\ req[r].score \in Standing /\ req[r].score \in Int
         /\ req[r].name \in Names \cup {NoName}
<1>1. req[r] \in Submission
  BY DEF TypeOK
<1>2. /\ req[r].user \in Users /\ req[r].boards \in Fanouts /\ req[r].score \in Scores
      /\ req[r].name \in Names \cup {NoName}
  BY <1>1 DEF Submission
<1>. QED
  BY <1>2, StandingIsInt, FanoutsAssumption

\* What a transaction is.
LEMMA Written ==
  ASSUME TypeOK, NEW r \in Requests
  PROVE  /\ txn[r] \in Transaction
         /\ txn[r].name \in Names \cup {NoName}
         /\ txn[r].improved \subseteq Boards
         /\ txn[r].rows \subseteq OutboxRow
BY DEF TypeOK, Transaction

\* A standing is an integer.
LEMMA TableOfInts ==
  ASSUME TypeOK, NEW b \in Boards, NEW u \in Users
  PROVE  standing[b] \in [Users -> Standing] /\ standing[b][u] \in Standing /\ standing[b][u] \in Int
BY StandingIsInt DEF TypeOK

\* The rows a request owes are outbox rows, and one per board it improves.
LEMMA RowsOwed ==
  ASSUME TypeOK, NEW r \in Requests, phase[r] # "idle"
  PROVE  /\ RowsOf(r) \subseteq OutboxRow
         /\ \A p \in RowsOf(r) : /\ IndexConfigured
                                 /\ p.board \in ImprovedBoards(r)
                                 /\ p.user = req[r].user /\ p.score = req[r].score /\ p.by = r
         /\ IndexConfigured =>
              \A b \in ImprovedBoards(r) :
                \E p \in RowsOf(r) :
                  p.board = b /\ p.user = req[r].user /\ p.score = req[r].score
<1>1. \A b \in ImprovedBoards(r) :
        [board |-> b, user |-> req[r].user, score |-> req[r].score, by |-> r] \in OutboxRow
  BY Carried DEF OutboxRow, ImprovedBoards, Improved
<1>2. \A p \in RowsOf(r) : /\ IndexConfigured
                           /\ \E b \in ImprovedBoards(r) :
                                p = [board |-> b, user |-> req[r].user,
                                     score |-> req[r].score, by |-> r]
  BY DEF RowsOf
<1>3. ASSUME IndexConfigured, NEW b \in ImprovedBoards(r)
      PROVE  \E p \in RowsOf(r) :
                  p.board = b /\ p.user = req[r].user /\ p.score = req[r].score
  <2>. DEFINE row == [board |-> b, user |-> req[r].user, score |-> req[r].score, by |-> r]
  <2>1. row \in RowsOf(r)
    BY <1>3 DEF RowsOf
  <2>2. row.board = b /\ row.user = req[r].user /\ row.score = req[r].score
    OBVIOUS
  <2>. QED
    BY <2>1, <2>2
<1>. QED
  BY <1>1, <1>2, <1>3

\* A board of the fan-out that is not improved holds the score or a better one.
LEMMA NotImproved ==
  ASSUME TypeOK, NEW r \in Requests, phase[r] # "idle"
  PROVE  /\ ImprovedBoards(r) \subseteq req[r].boards
         /\ \A b \in ImprovedBoards(r) : req[r].score > standing[b][req[r].user]
         /\ \A b \in req[r].boards \ ImprovedBoards(r) :
              standing[b][req[r].user] >= req[r].score
<1>1. \A b \in req[r].boards : standing[b][req[r].user] \in Int
  BY Carried, TableOfInts
<1>. QED
  BY <1>1, Carried DEF ImprovedBoards, Improved

\* With the tables and the request as they were, there is the same to find.
LEMMA FindsTheSame ==
  ASSUME NEW r \in Requests, UNCHANGED committed, req'[r] = req[r]
  PROVE  /\ NameFor(r)' = NameFor(r)
         /\ ImprovedBoards(r)' = ImprovedBoards(r)
         /\ RowsOf(r)' = RowsOf(r)
         /\ txn'[r].improved = txn[r].improved => ReadBack(r)' = ReadBack(r)
<1>1. standing' = standing /\ profile' = profile
  BY DEF committed
<1>2. NameFor(r)' = NameFor(r) /\ ImprovedBoards(r)' = ImprovedBoards(r)
  BY <1>1 DEF NameFor, ImprovedBoards, Improved
<1>3. RowsOf(r)' = RowsOf(r)
  BY <1>2 DEF RowsOf
<1>4. ASSUME txn'[r].improved = txn[r].improved PROVE ReadBack(r)' = ReadBack(r)
  BY <1>1, <1>4 DEF ReadBack
<1>. QED
  BY <1>2, <1>3, <1>4

\* So a request that is left alone stays current.
LEMMA StaysCurrent ==
  ASSUME NEW r \in Requests, Current(r), UNCHANGED committed,
         req'[r] = req[r], phase'[r] = phase[r], txn'[r] = txn[r]
  PROVE  Current(r)'
BY FindsTheSame DEF Current, HoldsUserRow, HoldsEntryRows

-----------------------------------------------------------------------------
(* The invariant.                                                          *)

LEMMA InitInvariant == Init => IInv
<1>. SUFFICES ASSUME Init PROVE IInv
  OBVIOUS
<1>1. EmptyTxn \in Transaction
  BY DEF EmptyTxn, Transaction
<1>2. TypeOK
  BY <1>1 DEF Init, TypeOK, Nobody, Standing
<1>. QED
  BY <1>2 DEF Init, IInv, StampedInThePast, UserRowsExclusive, Current, HoldsUserRow,
              HoldsEntryRows

LEMMA RegistryInvariant == IInv /\ (Register \/ Retire) => IInv'
<1>. SUFFICES ASSUME IInv, Register \/ Retire PROVE IInv'
  OBVIOUS
<1>1. game' \in {"absent", "active", "retired"}
  BY DEF IInv, TypeOK, Register, Registered, Retire
<1>2. UNCHANGED <<profile, standing, dated, outbox, clock, phase, req, txn>>
  BY DEF Register, Retire
<1>3. TypeOK'
  BY <1>1, <1>2 DEF IInv, TypeOK
<1>4. ASSUME NEW r \in Requests PROVE Current(r)'
  <2>1. Current(r)
    BY DEF IInv
  <2>. QED
    BY <1>2, <2>1 DEF Current, HoldsUserRow, HoldsEntryRows, NameFor, ImprovedBoards,
                      Improved, ReadBack, RowsOf
<1>. QED
  BY <1>2, <1>3, <1>4 DEF IInv, StampedInThePast, UserRowsExclusive, HoldsUserRow

LEMMA ArriveInvariant ==
  ASSUME IInv, NEW r \in Requests, NEW u \in Users, NEW bs \in Fanouts, NEW v \in Scores,
         NEW n \in Names \cup {NoName}, Arrive(r, u, bs, v, n)
  PROVE  IInv'
<1>. DEFINE s == [user |-> u, boards |-> bs, score |-> v, name |-> n, at |-> clock']
<1>1. /\ clock' = clock + 1 /\ clock \in Nat /\ clock' \in Nat
      /\ req' = [req EXCEPT ![r] = s]
      /\ phase' = [phase EXCEPT ![r] = "check"]
      /\ phase[r] = "idle"
      /\ UNCHANGED <<committed, txn>>
  BY DEF IInv, TypeOK, Arrive, Goto
<1>2. s \in Submission
  BY <1>1 DEF Submission
<1>3. /\ req'[r] = s /\ s.at = clock' /\ phase'[r] = "check"
      /\ \A q \in Requests \ {r} : req'[q] = req[q] /\ phase'[q] = phase[q]
  BY <1>1 DEF IInv, TypeOK
<1>4. TypeOK'
  <2>1. dated' \in [Boards -> [Users -> 0..clock']]
    <3>1. dated \in [Boards -> [Users -> 0..clock]]
      BY DEF IInv, TypeOK
    <3>2. 0..clock \subseteq 0..clock'
      BY <1>1
    <3>3. \A b \in Boards : dated[b] \in [Users -> 0..clock']
      BY <3>1, <3>2
    <3>. QED
      BY <1>1, <3>1, <3>3 DEF committed
  <2>2. req' \in [Requests -> Submission \cup {NoSubmission}]
    BY <1>1, <1>2 DEF IInv, TypeOK
  <2>3. \A q \in Requests : phase'[q] # "idle" => req'[q] \in Submission
    BY <1>2, <1>3 DEF IInv, TypeOK
  <2>4. phase' \in [Requests -> {"idle", "check"} \cup InTransaction \cup Outcomes]
    BY <1>1 DEF IInv, TypeOK
  <2>. QED
    BY <1>1, <2>1, <2>2, <2>3, <2>4 DEF IInv, TypeOK, committed
<1>5. StampedInThePast'
  BY <1>1, <1>3 DEF IInv, StampedInThePast
<1>6. UserRowsExclusive'
  BY <1>3 DEF IInv, UserRowsExclusive, HoldsUserRow
<1>7. ASSUME NEW q \in Requests PROVE Current(q)'
  <2>1. CASE q = r
    BY <1>3, <2>1 DEF Current, HoldsUserRow, HoldsEntryRows
  <2>2. CASE q # r
    <3>1. Current(q) /\ req'[q] = req[q] /\ phase'[q] = phase[q] /\ txn'[q] = txn[q]
      BY <1>1, <1>3, <2>2 DEF IInv
    <3>. QED
      BY <1>1, <3>1, StaysCurrent
  <2>. QED
    BY <2>1, <2>2
<1>. QED
  BY <1>4, <1>5, <1>6, <1>7 DEF IInv

\* A statement of one transaction: it moves on and may note what it found, and
\* nothing else changes.
Moves(r, p, found) ==
    /\ phase' = [phase EXCEPT ![r] = p]
    /\ txn' = [txn EXCEPT ![r] = found]
    /\ UNCHANGED <<committed, clock, req>>

\* A move keeps the invariant when what it found is what there is to find, and the
\* row of the user is free if it takes it.
LEMMA MoveInvariant ==
  ASSUME IInv, NEW r \in Requests, phase[r] # "idle",
         NEW p \in {"check"} \cup InTransaction \cup Outcomes,
         NEW found \in Transaction, Moves(r, p, found),
         Current(r)',
         HoldsUserRow(r)' => HoldsUserRow(r) \/ UserRowFree(r)
  PROVE  IInv'
<1>1. /\ phase'[r] = p /\ txn'[r] = found /\ UNCHANGED <<committed, clock, req>>
      /\ \A q \in Requests \ {r} : phase'[q] = phase[q] /\ txn'[q] = txn[q]
  BY DEF IInv, TypeOK, Moves
<1>2. TypeOK'
  <2>1. /\ phase' \in [Requests -> {"idle", "check"} \cup InTransaction \cup Outcomes]
        /\ txn' \in [Requests -> Transaction]
    BY DEF IInv, TypeOK, Moves
  <2>2. \A q \in Requests : phase'[q] # "idle" => req'[q] \in Submission
    BY <1>1 DEF IInv, TypeOK
  <2>. QED
    BY <1>1, <2>1, <2>2 DEF IInv, TypeOK, committed
<1>3. StampedInThePast'
  BY <1>1 DEF IInv, StampedInThePast
<1>4. UserRowsExclusive'
  <2>1. \A q \in Requests \ {r} : HoldsUserRow(q)' <=> HoldsUserRow(q)
    BY <1>1 DEF HoldsUserRow
  <2>2. HoldsUserRow(r)' =>
          \A q \in Requests \ {r} : HoldsUserRow(q) => req[q].user # req[r].user
    BY DEF IInv, UserRowsExclusive, UserRowFree
  <2>. QED
    BY <1>1, <2>1, <2>2 DEF IInv, UserRowsExclusive
<1>5. \A q \in Requests \ {r} : Current(q)'
  BY <1>1, StaysCurrent DEF IInv
<1>. QED
  BY <1>2, <1>3, <1>4, <1>5 DEF IInv

LEMMA CheckGameInvariant == ASSUME IInv, NEW r \in Requests, CheckGame(r) PROVE IInv'
<1>. DEFINE p == IF game = "active" THEN "user" ELSE "refused"
<1>1. phase[r] = "check" /\ Moves(r, p, txn[r]) /\ txn[r] \in Transaction
  BY DEF IInv, TypeOK, CheckGame, Goto, Moves
<1>2. p \in {"user", "refused"} /\ phase'[r] = p
  BY <1>1 DEF IInv, TypeOK, Moves
<1>. HIDE DEF p
<1>3. Current(r)' /\ ~HoldsUserRow(r)'
  BY <1>2 DEF Current, HoldsUserRow, HoldsEntryRows
<1>. QED
  BY <1>1, <1>2, <1>3, MoveInvariant DEF InTransaction, Outcomes

LEMMA FailInvariant == ASSUME IInv, NEW r \in Requests, Fail(r) PROVE IInv'
<1>1. /\ phase[r] # "idle" /\ Moves(r, "failed", txn[r]) /\ txn[r] \in Transaction
      /\ phase'[r] = "failed"
  BY DEF IInv, TypeOK, Fail, Goto, Moves, InTransaction
<1>2. Current(r)' /\ ~HoldsUserRow(r)'
  BY <1>1 DEF Current, HoldsUserRow, HoldsEntryRows
<1>. QED
  BY <1>1, <1>2, MoveInvariant DEF Outcomes

LEMMA UpsertUserInvariant == ASSUME IInv, NEW r \in Requests, UpsertUser(r) PROVE IInv'
<1>. DEFINE found == [txn[r] EXCEPT !.name = NameFor(r)]
<1>1. phase[r] = "user" /\ UserRowFree(r) /\ UNCHANGED <<committed, clock, req>>
  BY DEF UpsertUser
<1>2. NameFor(r) \in Names \cup {NoName}
  BY <1>1, Carried DEF IInv, TypeOK, NameFor
<1>3. found \in Transaction /\ found.name = NameFor(r)
  BY <1>2, Written DEF IInv, Transaction
<1>4. Moves(r, "entries", found)
  BY DEF UpsertUser, Moves, Goto, NameFor, IInv, TypeOK
<1>5. phase'[r] = "entries" /\ txn'[r] = found
  BY <1>4 DEF IInv, TypeOK, Moves
<1>6. Current(r)'
  BY <1>1, <1>3, <1>5, FindsTheSame DEF Current, HoldsUserRow, HoldsEntryRows
<1>. QED
  BY <1>1, <1>3, <1>4, <1>6, MoveInvariant DEF InTransaction

LEMMA UpsertEntriesInvariant == ASSUME IInv, NEW r \in Requests, UpsertEntries(r) PROVE IInv'
<1>. DEFINE found == [txn[r] EXCEPT !.improved = ImprovedBoards(r)]
<1>1. phase[r] = "entries" /\ UNCHANGED <<committed, clock, req>>
  BY DEF UpsertEntries
<1>2. ImprovedBoards(r) \subseteq Boards
  BY <1>1, Carried, NotImproved DEF IInv
<1>3. /\ found \in Transaction
      /\ found.improved = ImprovedBoards(r) /\ found.name = txn[r].name
  BY <1>2, Written DEF IInv, Transaction
<1>4. Moves(r, "readback", found)
  BY DEF UpsertEntries, Moves, Goto
<1>5. phase'[r] = "readback" /\ txn'[r] = found
  BY <1>4 DEF IInv, TypeOK, Moves
<1>6. txn[r].name = NameFor(r)
  BY <1>1 DEF IInv, Current, HoldsUserRow
<1>7. Current(r)' /\ HoldsUserRow(r)
  BY <1>1, <1>3, <1>5, <1>6, FindsTheSame DEF Current, HoldsUserRow, HoldsEntryRows
<1>. QED
  BY <1>1, <1>3, <1>4, <1>7, MoveInvariant DEF InTransaction

LEMMA SelectStandingsInvariant ==
  ASSUME IInv, NEW r \in Requests, SelectStandings(r) PROVE IInv'
<1>. DEFINE found == [txn[r] EXCEPT !.reported = ReadBack(r)]
<1>1. phase[r] = "readback" /\ UNCHANGED <<committed, clock, req>>
  BY DEF SelectStandings
<1>2. ReadBack(r) \in [req[r].boards -> Standing] /\ req[r].boards \in Fanouts
  BY <1>1, Carried, TableOfInts DEF IInv, ReadBack
<1>3. /\ found \in Transaction
      /\ found.reported = ReadBack(r)
      /\ found.name = txn[r].name /\ found.improved = txn[r].improved
  BY <1>2, Written DEF IInv, Transaction
<1>4. Moves(r, "enqueue", found)
  BY DEF SelectStandings, Moves, Goto
<1>5. phase'[r] = "enqueue" /\ txn'[r] = found
  BY <1>4 DEF IInv, TypeOK, Moves
<1>6. ReadBack(r)' = ReadBack(r)
  BY <1>1, <1>3, <1>5 DEF ReadBack, committed
<1>7. txn[r].name = NameFor(r) /\ txn[r].improved = ImprovedBoards(r)
  BY <1>1 DEF IInv, Current, HoldsUserRow, HoldsEntryRows
<1>8. Current(r)' /\ HoldsUserRow(r)
  BY <1>1, <1>3, <1>5, <1>6, <1>7, FindsTheSame DEF Current, HoldsUserRow, HoldsEntryRows
<1>. QED
  BY <1>1, <1>3, <1>4, <1>8, MoveInvariant DEF InTransaction

LEMMA InsertOutboxInvariant ==
  ASSUME IInv, NEW r \in Requests, InsertOutbox(r) PROVE IInv'
<1>. DEFINE found == [txn[r] EXCEPT !.rows = RowsOf(r)]
<1>1. phase[r] = "enqueue" /\ UNCHANGED <<committed, clock, req>>
  BY DEF InsertOutbox
<1>2. /\ txn[r].name = NameFor(r) /\ txn[r].improved = ImprovedBoards(r)
      /\ txn[r].reported = ReadBack(r)
  BY <1>1 DEF IInv, Current, HoldsUserRow, HoldsEntryRows
<1>3. \A b \in ImprovedBoards(r) : txn[r].reported[b] = req[r].score
  BY <1>1, <1>2, NotImproved DEF IInv, ReadBack
<1>4. /\ found \in Transaction
      /\ found.rows = RowsOf(r) /\ found.name = txn[r].name
      /\ found.improved = txn[r].improved /\ found.reported = txn[r].reported
  BY <1>1, RowsOwed, Written DEF IInv, Transaction
<1>5. Moves(r, "commit", found)
  <2>1. RowsOf(r) = IF ~IndexConfigured THEN {}
                    ELSE {[board |-> b, user |-> req[r].user,
                           score |-> txn[r].reported[b], by |-> r] : b \in txn[r].improved}
    BY <1>2, <1>3 DEF RowsOf
  <2>. QED
    BY <2>1 DEF InsertOutbox, Moves, Goto
<1>6. phase'[r] = "commit" /\ txn'[r] = found
  BY <1>5 DEF IInv, TypeOK, Moves
<1>7. ReadBack(r)' = ReadBack(r)
  BY <1>1, <1>4, <1>6 DEF ReadBack, committed
<1>8. Current(r)' /\ HoldsUserRow(r)
  BY <1>1, <1>2, <1>4, <1>6, <1>7, FindsTheSame DEF Current, HoldsUserRow, HoldsEntryRows
<1>. QED
  BY <1>1, <1>4, <1>5, <1>8, MoveInvariant DEF InTransaction

\* What a commit does to the tables: on the boards r improves now, whatever it
\* found then, its score takes the place of a smaller one.
LEMMA CommitEffect ==
  ASSUME IInv, NEW r \in Requests, Commit(r)
  PROVE  /\ phase[r] = "commit"
         /\ phase'[r] \in {"accepted", "unacknowledged"}
         /\ phase' = [phase EXCEPT ![r] = phase'[r]]
         /\ standing' = Raised(standing, req[r].user, req[r].boards, req[r].score)
         /\ dated' = [b \in Boards |->
                        IF b \in ImprovedBoards(r)
                          THEN [dated[b] EXCEPT ![req[r].user] = req[r].at] ELSE dated[b]]
         /\ profile' = [profile EXCEPT ![req[r].user] = NameFor(r)]
         /\ outbox' = outbox \cup RowsOf(r)
         /\ UNCHANGED <<game, clock, req, txn>>
<1>1. phase[r] = "commit" /\ UNCHANGED <<game, clock, req, txn>>
  BY DEF Commit
<1>2. /\ txn[r].name = NameFor(r) /\ txn[r].improved = ImprovedBoards(r)
      /\ txn[r].rows = RowsOf(r)
  BY <1>1 DEF IInv, Current, HoldsUserRow, HoldsEntryRows
<1>3. /\ phase'[r] \in {"accepted", "unacknowledged"}
      /\ phase' = [phase EXCEPT ![r] = phase'[r]]
  BY DEF IInv, TypeOK, Commit, Goto
<1>. QED
  BY <1>1, <1>2, <1>3 DEF Commit, Raised, ImprovedBoards

\* ... member by member.
LEMMA CommitRaises ==
  ASSUME IInv, NEW r \in Requests, Commit(r)
  PROVE  /\ standing' \in [Boards -> [Users -> Standing]]
         /\ \A b \in Boards, u \in Users :
              /\ standing'[b][u] =
                   IF b \in req[r].boards /\ u = req[r].user
                     THEN Larger(standing[b][u], req[r].score) ELSE standing[b][u]
              /\ standing'[b][u] >= standing[b][u]
              /\ standing'[b][u] = IF b \in ImprovedBoards(r) /\ u = req[r].user
                                     THEN req[r].score ELSE standing[b][u]
<1>1. /\ standing \in [Boards -> [Users -> Standing]]
      /\ req[r].user \in Users /\ req[r].boards \in SUBSET Boards /\ req[r].score \in Scores
  BY CommitEffect, Carried DEF IInv, TypeOK
<1>2. standing' = Raised(standing, req[r].user, req[r].boards, req[r].score)
  BY CommitEffect
<1>3. PICK u \in Users, bs \in SUBSET Boards, v \in Scores :
        u = req[r].user /\ bs = req[r].boards /\ v = req[r].score
  BY <1>1
<1>. DEFINE raised == Raised(standing, u, bs, v)
            improved == Improved(standing, u, bs, v)
<1>4. /\ raised \in [Boards -> [Users -> Standing]]
      /\ \A b \in Boards, w \in Users :
           raised[b][w] = IF b \in bs /\ w = u THEN Larger(standing[b][w], v) ELSE standing[b][w]
      /\ \A b \in Boards, w \in Users :
           raised[b][w] = IF b \in improved /\ w = u THEN v ELSE standing[b][w]
      /\ \A b \in Boards, w \in Users : raised[b][w] >= standing[b][w]
  BY <1>1, RaisedStandings
<1>5. ImprovedBoards(r) = improved /\ standing' = raised
  BY <1>2, <1>3 DEF ImprovedBoards
<1>. HIDE DEF raised, improved
<1>. QED
  BY <1>3, <1>4, <1>5

LEMMA CommitInvariant == ASSUME IInv, NEW r \in Requests, Commit(r) PROVE IInv'
<1>1. /\ phase[r] = "commit" /\ phase'[r] \in {"accepted", "unacknowledged"}
      /\ phase' = [phase EXCEPT ![r] = phase'[r]]
      /\ profile' = [profile EXCEPT ![req[r].user] = NameFor(r)]
      /\ UNCHANGED <<game, clock, req, txn>>
  BY CommitEffect
<1>2. \A q \in Requests \ {r} : phase'[q] = phase[q]
  BY <1>1 DEF IInv, TypeOK
<1>3. TypeOK'
  <2>1. phase' \in [Requests -> {"idle", "check"} \cup InTransaction \cup Outcomes]
    <3>1. phase'[r] \in Outcomes
      BY <1>1 DEF Outcomes
    <3>. QED
      BY <1>1, <3>1 DEF IInv, TypeOK
  <2>2. \A q \in Requests : phase'[q] # "idle" => req'[q] \in Submission
    BY <1>1, <1>2 DEF IInv, TypeOK
  <2>3. standing' \in [Boards -> [Users -> Standing]]
    BY CommitRaises
  <2>4. dated' \in [Boards -> [Users -> 0..clock]]
    <3>1. req[r].at \in 0..clock
      BY <1>1 DEF IInv, StampedInThePast
    <3>2. dated \in [Boards -> [Users -> 0..clock]]
      BY DEF IInv, TypeOK
    <3>3. \A b \in Boards : [dated[b] EXCEPT ![req[r].user] = req[r].at] \in [Users -> 0..clock]
      BY <3>1, <3>2
    <3>4. dated' = [b \in Boards |-> IF b \in ImprovedBoards(r)
                                       THEN [dated[b] EXCEPT ![req[r].user] = req[r].at]
                                       ELSE dated[b]]
      BY CommitEffect
    <3>. QED
      BY <3>2, <3>3, <3>4
  <2>5. profile' \in [Users -> Names \cup {NoName, NoUser}]
    <3>1. NameFor(r) \in Names \cup {NoName}
      BY <1>1, Written DEF IInv, Current, HoldsUserRow
    <3>. QED
      BY <1>1, <3>1 DEF IInv, TypeOK
  <2>6. outbox' \subseteq OutboxRow
    <3>1. outbox' = outbox \cup RowsOf(r)
      BY CommitEffect
    <3>2. RowsOf(r) \subseteq OutboxRow
      BY <1>1, RowsOwed DEF IInv
    <3>. QED
      BY <3>1, <3>2 DEF IInv, TypeOK
  <2>. QED
    BY <1>1, <2>1, <2>2, <2>3, <2>4, <2>5, <2>6 DEF IInv, TypeOK
<1>4. StampedInThePast'
  BY <1>1, <1>2 DEF IInv, StampedInThePast
<1>5. ~HoldsUserRow(r)' /\ \A q \in Requests \ {r} : HoldsUserRow(q)' <=> HoldsUserRow(q)
  BY <1>1, <1>2 DEF HoldsUserRow
<1>6. UserRowsExclusive'
  BY <1>1, <1>5 DEF IInv, UserRowsExclusive
<1>7. ASSUME NEW q \in Requests PROVE Current(q)'
  <2>1. CASE ~HoldsUserRow(q)'
    BY <2>1 DEF Current, HoldsUserRow, HoldsEntryRows
  <2>2. CASE HoldsUserRow(q)'
    <3>1. q # r /\ HoldsUserRow(q) /\ HoldsUserRow(r) /\ phase[q] # "idle"
      BY <1>1, <1>5, <2>2 DEF HoldsUserRow
    <3>2. /\ req[q].user \in Users /\ req[r].user \in Users /\ req[q].user # req[r].user
          /\ req[q].boards \subseteq Boards
      BY <1>1, <3>1, Carried DEF IInv, UserRowsExclusive
    <3>3. /\ profile'[req[q].user] = profile[req[q].user]
          /\ \A b \in Boards : standing'[b][req[q].user] = standing[b][req[q].user]
      BY <1>1, <3>2, CommitRaises DEF IInv, TypeOK
    <3>4. NameFor(q)' = NameFor(q)
      BY <1>1, <3>3 DEF NameFor
    <3>5. ImprovedBoards(q)' = ImprovedBoards(q)
      BY <1>1, <3>2, <3>3 DEF ImprovedBoards, Improved
    <3>6. ReadBack(q)' = ReadBack(q)
      BY <1>1, <3>2, <3>3 DEF ReadBack
    <3>7. RowsOf(q)' = RowsOf(q)
      BY <1>1, <3>5 DEF RowsOf
    <3>8. Current(q) /\ phase'[q] = phase[q] /\ txn'[q] = txn[q]
      BY <1>1, <1>2, <3>1 DEF IInv
    <3>. QED
      BY <3>4, <3>5, <3>6, <3>7, <3>8 DEF Current, HoldsUserRow, HoldsEntryRows
  <2>. QED
    BY <2>1, <2>2
<1>. QED
  BY <1>3, <1>4, <1>6, <1>7 DEF IInv

LEMMA NextInvariant == IInv /\ [Next]_vars => IInv'
<1>. SUFFICES ASSUME IInv, [Next]_vars PROVE IInv'
  OBVIOUS
<1>1. CASE UNCHANGED vars
  <2>1. TypeOK' /\ StampedInThePast' /\ UserRowsExclusive'
    BY <1>1 DEF vars, IInv, TypeOK, StampedInThePast, UserRowsExclusive, HoldsUserRow
  <2>2. \A r \in Requests : Current(r)'
    BY <1>1, StaysCurrent DEF vars, committed, IInv
  <2>. QED
    BY <2>1, <2>2 DEF IInv
<1>2. CASE Register \/ Retire
  BY <1>2, RegistryInvariant
<1>3. CASE \E r \in Requests, u \in Users, bs \in Fanouts, v \in Scores,
              n \in Names \cup {NoName} : Arrive(r, u, bs, v, n)
  <2>1. PICK r \in Requests, u \in Users, bs \in Fanouts, v \in Scores,
             n \in Names \cup {NoName} : Arrive(r, u, bs, v, n)
    BY <1>3
  <2>. QED
    BY <2>1, ArriveInvariant
<1>4. CASE \E r \in Requests : Progress(r)
  <2>1. PICK r \in Requests : Progress(r)
    BY <1>4
  <2>2. CASE CheckGame(r)
    BY <2>2, CheckGameInvariant
  <2>3. CASE UpsertUser(r)
    BY <2>3, UpsertUserInvariant
  <2>4. CASE UpsertEntries(r)
    BY <2>4, UpsertEntriesInvariant
  <2>5. CASE SelectStandings(r)
    BY <2>5, SelectStandingsInvariant
  <2>6. CASE InsertOutbox(r)
    BY <2>6, InsertOutboxInvariant
  <2>7. CASE Commit(r)
    BY <2>7, CommitInvariant
  <2>. QED
    BY <2>1, <2>2, <2>3, <2>4, <2>5, <2>6, <2>7 DEF Progress
<1>5. CASE \E r \in Requests : Fail(r)
  BY <1>5, FailInvariant
<1>. QED
  BY <1>1, <1>2, <1>3, <1>4, <1>5 DEF Next

\* What transactions have found stays true until they commit, always.
THEOREM Invariant == Spec => []IInv
<1>. QED
  BY InitInvariant, NextInvariant, PTL DEF Spec

\* Every variable has its type, always.
THEOREM TypeCorrect == Spec => []TypeOK
<1>1. IInv => TypeOK
  BY DEF IInv
<1>. QED
  BY <1>1, Invariant, PTL

-----------------------------------------------------------------------------
(* What the tables tell.                                                   *)

\* Only a commit writes a table or commits a request, and what a committed request
\* submitted stays known.
LEMMA OnlyCommitsWrite ==
  ASSUME IInv, [Next]_vars, ~\E r \in Requests : Commit(r)
  PROVE  /\ UNCHANGED <<profile, standing, dated, outbox>>
         /\ \A q \in Requests : Committed(q)' <=> Committed(q)
         /\ \A q \in Requests : Committed(q) => req'[q] = req[q]
<1>1. CASE UNCHANGED <<profile, standing, dated, outbox, phase, req>>
  BY <1>1 DEF Committed
<1>2. ASSUME NEW r \in Requests, NEW p \in {"check"} \cup InTransaction \cup {"refused", "failed"},
             Goto(r, p), phase[r] \in {"idle", "check"} \cup InTransaction,
             UNCHANGED <<profile, standing, dated, outbox>>,
             \A q \in Requests \ {r} : req'[q] = req[q]
      PROVE  /\ UNCHANGED <<profile, standing, dated, outbox>>
             /\ \A q \in Requests : Committed(q)' <=> Committed(q)
             /\ \A q \in Requests : Committed(q) => req'[q] = req[q]
  <2>1. phase'[r] = p /\ \A q \in Requests \ {r} : phase'[q] = phase[q]
    BY <1>2 DEF IInv, TypeOK, Goto
  <2>2. ~Committed(r) /\ ~Committed(r)'
    BY <1>2, <2>1 DEF Committed, InTransaction
  <2>. QED
    BY <1>2, <2>1, <2>2 DEF Committed
<1>3. CASE Register \/ Retire \/ UNCHANGED vars
  BY <1>1, <1>3 DEF Register, Retire, vars
<1>4. ASSUME NEW r \in Requests, NEW u \in Users, NEW bs \in Fanouts, NEW v \in Scores,
             NEW n \in Names \cup {NoName}, Arrive(r, u, bs, v, n)
      PROVE  /\ Goto(r, "check") /\ phase[r] = "idle"
             /\ UNCHANGED <<profile, standing, dated, outbox>>
             /\ \A q \in Requests \ {r} : req'[q] = req[q]
  BY <1>4 DEF Arrive, committed, IInv, TypeOK
<1>5. ASSUME NEW r \in Requests, Progress(r) \/ Fail(r)
      PROVE  /\ \E p \in {"check"} \cup InTransaction \cup {"refused", "failed"} : Goto(r, p)
             /\ phase[r] \in {"check"} \cup InTransaction
             /\ UNCHANGED <<profile, standing, dated, outbox>> /\ UNCHANGED req
  BY <1>5 DEF Progress, CheckGame, UpsertUser, UpsertEntries, SelectStandings, InsertOutbox,
              Fail, committed, InTransaction
<1>. QED
  BY <1>2, <1>3, <1>4, <1>5 DEF Next

\* A commit commits its request and no other.
LEMMA CommitCommits ==
  ASSUME IInv, NEW r \in Requests, Commit(r)
  PROVE  /\ ~Committed(r) /\ Committed(r)' /\ req' = req
         /\ \A q \in Requests \ {r} : Committed(q)' <=> Committed(q)
<1>1. /\ phase[r] = "commit" /\ phase'[r] \in {"accepted", "unacknowledged"}
      /\ phase' = [phase EXCEPT ![r] = phase'[r]] /\ req' = req
  BY CommitEffect
<1>2. \A q \in Requests \ {r} : phase'[q] = phase[q]
  BY <1>1 DEF IInv, TypeOK
<1>. QED
  BY <1>1, <1>2 DEF Committed

\* What r's boards hold after its commit: its score, or a better one.
LEMMA CommitReaches ==
  ASSUME IInv, NEW r \in Requests, Commit(r)
  PROVE  \A b \in req[r].boards : standing'[b][req[r].user] >= req[r].score
<1>1. phase[r] # "idle"
  BY CommitEffect
<1>2. req[r].user \in Users /\ req[r].boards \subseteq Boards /\ req[r].score \in Int
  BY <1>1, Carried DEF IInv
<1>3. \A b \in req[r].boards :
        /\ standing[b][req[r].user] \in Int
        /\ standing'[b][req[r].user] = Larger(standing[b][req[r].user], req[r].score)
  BY <1>2, CommitRaises, TableOfInts DEF IInv
<1>. QED
  BY <1>2, <1>3 DEF Larger

\* "Never lost": not even one whose caller was told 500.
THEOREM Durability == Spec => []CommittedIsDurable
<1>1. Init => CommittedIsDurable
  BY DEF Init, CommittedIsDurable, Committed
<1>2. IInv /\ CommittedIsDurable /\ [Next]_vars => CommittedIsDurable'
  <2>. SUFFICES ASSUME IInv, CommittedIsDurable, [Next]_vars PROVE CommittedIsDurable'
    OBVIOUS
  <2>1. ASSUME NEW r \in Requests, Commit(r) PROVE CommittedIsDurable'
    <3>1. req' = req /\ \A q \in Requests \ {r} : Committed(q)' <=> Committed(q)
      BY <2>1, CommitCommits
    <3>2. ASSUME NEW q \in Requests, Committed(q)', NEW b \in req[q].boards, q # r
          PROVE  standing'[b][req[q].user] >= req[q].score
      <4>1. Committed(q) /\ phase[q] # "idle"
        BY <3>1, <3>2 DEF Committed
      <4>2. b \in Boards /\ req[q].user \in Users /\ req[q].score \in Int
        BY <3>2, <4>1, Carried DEF IInv
      <4>3. standing[b][req[q].user] >= req[q].score
        BY <3>2, <4>1 DEF CommittedIsDurable
      <4>4. /\ standing'[b][req[q].user] >= standing[b][req[q].user]
            /\ standing'[b][req[q].user] \in Standing
        BY <2>1, <4>2, CommitRaises
      <4>5. standing[b][req[q].user] \in Int /\ standing'[b][req[q].user] \in Int
        BY <4>2, <4>4, TableOfInts, StandingIsInt DEF IInv
      <4>. QED
        BY <4>2, <4>3, <4>4, <4>5
    <3>3. \A b \in req[r].boards : standing'[b][req[r].user] >= req[r].score
      BY <2>1, CommitReaches
    <3>. QED
      BY <3>1, <3>2, <3>3 DEF CommittedIsDurable
  <2>2. CASE ~\E r \in Requests : Commit(r)
    BY <2>2, OnlyCommitsWrite DEF CommittedIsDurable
  <2>. QED
    BY <2>1, <2>2
<1>. QED
  BY <1>1, <1>2, Invariant, PTL DEF Spec

\* What the response says of a board is what the board holds at the commit.
THEOREM ReportsAreCurrent == Spec => ReportsCurrentStanding
<1>. DEFINE Reports == \A r \in Requests :
              ~Committed(r) /\ Committed(r)' =>
                  \A b \in req[r].boards : txn[r].reported[b] = standing'[b][req[r].user]
<1>1. IInv /\ [Next]_vars => [Reports]_vars
  <2>. SUFFICES ASSUME IInv, [Next]_vars PROVE Reports
    OBVIOUS
  <2>1. ASSUME NEW r \in Requests, Commit(r) PROVE Reports
    <3>1. \A q \in Requests : ~Committed(q) /\ Committed(q)' => q = r
      BY <2>1, CommitCommits
    <3>2. phase[r] = "commit"
      BY <2>1, CommitEffect
    <3>3. /\ txn[r].reported = ReadBack(r) /\ txn[r].improved = ImprovedBoards(r)
      BY <3>2 DEF IInv, Current, HoldsEntryRows
    <3>4. req[r].user \in Users /\ req[r].boards \subseteq Boards
      BY <3>2, Carried DEF IInv
    <3>5. \A b \in req[r].boards :
            standing'[b][req[r].user] = IF b \in ImprovedBoards(r)
                                          THEN req[r].score ELSE standing[b][req[r].user]
      BY <2>1, <3>4, CommitRaises
    <3>6. \A b \in req[r].boards : txn[r].reported[b] = standing'[b][req[r].user]
      BY <3>3, <3>5 DEF ReadBack
    <3>. QED
      BY <3>1, <3>6
  <2>2. CASE ~\E r \in Requests : Commit(r)
    BY <2>2, OnlyCommitsWrite
  <2>. QED
    BY <2>1, <2>2
<1>. QED
  BY <1>1, Invariant, PTL DEF Spec, ReportsCurrentStanding

\* A name that was set is never erased by a submission that carries none.
THEOREM NamesStay == Spec => NameNeverErased
<1>1. IInv /\ [Next]_vars =>
        [\A u \in Users : profile[u] \in Names => profile'[u] \in Names]_vars
  <2>. SUFFICES ASSUME IInv, [Next]_vars, NEW u \in Users, profile[u] \in Names
                PROVE  profile'[u] \in Names
    OBVIOUS
  <2>1. ASSUME NEW r \in Requests, Commit(r) PROVE profile'[u] \in Names
    <3>1. /\ phase[r] # "idle" /\ profile' = [profile EXCEPT ![req[r].user] = NameFor(r)]
      BY <2>1, CommitEffect
    <3>2. req[r].user = u => NameFor(r) \in Names
      BY <3>1, Carried, NamesAssumption DEF IInv, NameFor
    <3>. QED
      BY <3>1, <3>2 DEF IInv, TypeOK
  <2>2. CASE ~\E r \in Requests : Commit(r)
    BY <2>2, OnlyCommitsWrite
  <2>. QED
    BY <2>1, <2>2
<1>. QED
  BY <1>1, Invariant, PTL DEF Spec, NameNeverErased

-----------------------------------------------------------------------------
(* What the tables tell of each other.                                     *)

\* A user has a row exactly when they hold a standing.
THEOREM NoStrayUsers == Spec => []NoUserWithoutScore
<1>1. Init => NoUserWithoutScore
  BY DEF Init, NoUserWithoutScore, Nobody
<1>2. IInv /\ NoUserWithoutScore /\ [Next]_vars => NoUserWithoutScore'
  <2>. SUFFICES ASSUME IInv, NoUserWithoutScore, [Next]_vars PROVE NoUserWithoutScore'
    OBVIOUS
  <2>1. ASSUME NEW r \in Requests, Commit(r), NEW u \in Users
        PROVE  profile'[u] # NoUser <=> \E b \in Boards : standing'[b][u] # NoStanding
    <3>1. /\ phase[r] # "idle" /\ phase[r] = "commit"
          /\ profile' = [profile EXCEPT ![req[r].user] = NameFor(r)]
      BY <2>1, CommitEffect
    <3>2. /\ req[r].user \in Users /\ req[r].boards \in Fanouts /\ req[r].boards \subseteq Boards
          /\ req[r].score \in Scores
      BY <3>1, Carried DEF IInv
    <3>3. CASE u # req[r].user
      <4>1. profile'[u] = profile[u] /\ \A b \in Boards : standing'[b][u] = standing[b][u]
        BY <2>1, <3>1, <3>3, CommitRaises DEF IInv, TypeOK
      <4>. QED
        BY <4>1 DEF NoUserWithoutScore
    <3>4. CASE u = req[r].user
      <4>1. profile'[u] = NameFor(r)
        BY <3>1, <3>4 DEF IInv, TypeOK
      <4>2. NameFor(r) # NoUser
        <5>1. req[r].name \in Names \cup {NoName}
          BY <3>1, Carried DEF IInv
        <5>. QED
          BY <5>1, NamesAssumption DEF NameFor, NoName, NoUser
      <4>3. PICK b \in Boards : b \in req[r].boards
        BY <3>2, FanoutsNotEmpty
      <4>4. standing'[b][u] >= req[r].score
        BY <2>1, <3>4, <4>3, CommitReaches
      <4>5. standing'[b][u] # NoStanding
        <5>1. req[r].score \in Nat
          BY <3>2, ScoresAssumption
        <5>. QED
          BY <4>4, <5>1 DEF NoStanding
      <4>. QED
        BY <4>1, <4>2, <4>5
    <3>. QED
      BY <3>3, <3>4
  <2>2. CASE ~\E r \in Requests : Commit(r)
    BY <2>2, OnlyCommitsWrite DEF NoUserWithoutScore
  <2>. QED
    BY <2>1, <2>2 DEF NoUserWithoutScore
<1>. QED
  BY <1>1, <1>2, Invariant, PTL DEF Spec

\* Score and date of a standing come from one committed submission.
THEOREM DatesBelong == Spec => []DatedByItsScore
<1>. DEFINE Source(b, u, r) ==
              /\ Committed(r)
              /\ b \in req[r].boards
              /\ req[r].user = u
              /\ req[r].score = standing[b][u]
              /\ req[r].at = dated[b][u]
<1>1. Init => DatedByItsScore
  BY DEF Init, DatedByItsScore, Nobody
<1>2. IInv /\ DatedByItsScore /\ [Next]_vars => DatedByItsScore'
  <2>. SUFFICES ASSUME IInv, DatedByItsScore, [Next]_vars,
                       NEW b \in Boards, NEW u \in Users, standing'[b][u] # NoStanding
                PROVE  \E q \in Requests : Source(b, u, q)'
    BY DEF DatedByItsScore
  <2>1. ASSUME NEW r \in Requests, Commit(r) PROVE \E q \in Requests : Source(b, u, q)'
    <3>1. /\ phase[r] # "idle" /\ req' = req
          /\ dated' = [c \in Boards |->
                         IF c \in ImprovedBoards(r)
                           THEN [dated[c] EXCEPT ![req[r].user] = req[r].at] ELSE dated[c]]
          /\ dated[b] \in [Users -> 0..clock]
      BY <2>1, CommitEffect DEF IInv, TypeOK
    <3>2. standing'[b][u] = IF b \in ImprovedBoards(r) /\ u = req[r].user
                              THEN req[r].score ELSE standing[b][u]
      BY <2>1, CommitRaises
    <3>3. CASE b \in ImprovedBoards(r) /\ u = req[r].user
      <4>1. dated'[b][u] = req[r].at /\ standing'[b][u] = req[r].score
        BY <3>1, <3>2, <3>3
      <4>2. Committed(r)' /\ b \in req[r].boards
        BY <2>1, <3>1, <3>3, CommitCommits, NotImproved DEF IInv
      <4>. QED
        BY <3>1, <3>3, <4>1, <4>2
    <3>4. CASE ~(b \in ImprovedBoards(r) /\ u = req[r].user)
      <4>1. standing'[b][u] = standing[b][u] /\ dated'[b][u] = dated[b][u]
        BY <3>1, <3>2, <3>4
      <4>2. PICK q \in Requests : Source(b, u, q)
        BY <4>1 DEF DatedByItsScore
      <4>3. Committed(q)'
        BY <2>1, <4>2, CommitCommits
      <4>. QED
        BY <3>1, <4>1, <4>2, <4>3
    <3>. QED
      BY <3>3, <3>4
  <2>2. CASE ~\E r \in Requests : Commit(r)
    <3>1. standing' = standing /\ dated' = dated
      BY <2>2, OnlyCommitsWrite
    <3>2. PICK q \in Requests : Source(b, u, q)
      BY <3>1 DEF DatedByItsScore
    <3>3. Committed(q)' /\ req'[q] = req[q]
      BY <2>2, <3>2, OnlyCommitsWrite
    <3>. QED
      BY <3>1, <3>2, <3>3
  <2>. QED
    BY <2>1, <2>2
<1>. QED
  BY <1>1, <1>2, Invariant, PTL DEF Spec

-----------------------------------------------------------------------------
(* The outbox.                                                             *)

\* What the outbox says of a member.
Said(b, u) == {q.score : q \in {p \in outbox : p.board = b /\ p.user = u}}

\* A commit says exactly what it changes.
LEMMA CommitSays ==
  ASSUME IInv, IndexConfigured, NEW r \in Requests, Commit(r), NEW b \in Boards, NEW u \in Users
  PROVE  Said(b, u)' = IF b \in ImprovedBoards(r) /\ u = req[r].user
                         THEN Said(b, u) \cup {req[r].score} ELSE Said(b, u)
<1>1. phase[r] # "idle" /\ outbox' = outbox \cup RowsOf(r)
  BY CommitEffect
<1>2. CASE b \in ImprovedBoards(r) /\ u = req[r].user
  <2>1. PICK row \in RowsOf(r) : row.board = b /\ row.user = u /\ row.score = req[r].score
    BY <1>1, <1>2, RowsOwed DEF IInv
  <2>2. \A p \in RowsOf(r) : p.score = req[r].score
    BY <1>1, RowsOwed DEF IInv
  <2>. QED
    BY <1>1, <1>2, <2>1, <2>2 DEF Said
<1>3. CASE ~(b \in ImprovedBoards(r) /\ u = req[r].user)
  <2>1. \A p \in RowsOf(r) : ~(p.board = b /\ p.user = u)
    BY <1>1, <1>3, RowsOwed DEF IInv
  <2>. QED
    BY <1>1, <1>3, <2>1 DEF Said
<1>. QED
  BY <1>2, <1>3

\* The best row of a member is its standing.
THEOREM OutboxTells == Spec => []OutboxTellsStandings
<1>. DEFINE Tells(b, u) == /\ standing[b][u] # NoStanding => standing[b][u] \in Said(b, u)
                           /\ \A v \in Said(b, u) : v <= standing[b][u]
<1>1. OutboxTellsStandings <=> (IndexConfigured => \A b \in Boards, u \in Users : Tells(b, u))
  BY DEF OutboxTellsStandings, Said
<1>2. Init => OutboxTellsStandings
  BY DEF Init, OutboxTellsStandings, Nobody
<1>3. IInv /\ OutboxTellsStandings /\ [Next]_vars => OutboxTellsStandings'
  <2>. SUFFICES ASSUME IInv, OutboxTellsStandings, [Next]_vars, IndexConfigured,
                       NEW b \in Boards, NEW u \in Users
                PROVE  Tells(b, u)'
    BY DEF OutboxTellsStandings, Said
  <2>1. Tells(b, u)
    BY <1>1
  <2>2. ASSUME NEW r \in Requests, Commit(r) PROVE Tells(b, u)'
    <3>1. phase[r] # "idle"
      BY <2>2, CommitEffect
    <3>2. standing'[b][u] = IF b \in ImprovedBoards(r) /\ u = req[r].user
                              THEN req[r].score ELSE standing[b][u]
      BY <2>2, CommitRaises
    <3>3. Said(b, u)' = IF b \in ImprovedBoards(r) /\ u = req[r].user
                          THEN Said(b, u) \cup {req[r].score} ELSE Said(b, u)
      BY <2>2, CommitSays
    <3>4. CASE b \in ImprovedBoards(r) /\ u = req[r].user
      <4>1. req[r].score > standing[b][u] /\ req[r].score \in Int /\ standing[b][u] \in Int
        BY <3>1, <3>4, Carried, NotImproved, TableOfInts DEF IInv
      <4>2. \A v \in Said(b, u) : v \in Int
        BY StandingIsInt DEF IInv, TypeOK, Said, OutboxRow
      <4>. QED
        BY <2>1, <3>2, <3>3, <3>4, <4>1, <4>2
    <3>5. CASE ~(b \in ImprovedBoards(r) /\ u = req[r].user)
      BY <2>1, <3>2, <3>3, <3>5
    <3>. QED
      BY <3>4, <3>5
  <2>3. CASE ~\E r \in Requests : Commit(r)
    BY <2>1, <2>3, OnlyCommitsWrite DEF Said
  <2>. QED
    BY <2>2, <2>3
<1>. QED
  BY <1>2, <1>3, Invariant, PTL DEF Spec

\* An improvement is claimed once.
THEOREM OneRowEach == Spec => []OneRowPerImprovement
<1>1. Init => OneRowPerImprovement
  BY DEF Init, OneRowPerImprovement
<1>2. IInv /\ OutboxTellsStandings /\ OneRowPerImprovement /\ [Next]_vars => OneRowPerImprovement'
  <2>. SUFFICES ASSUME IInv, OutboxTellsStandings, OneRowPerImprovement, [Next]_vars
                PROVE  OneRowPerImprovement'
    OBVIOUS
  <2>1. ASSUME NEW r \in Requests, Commit(r) PROVE OneRowPerImprovement'
    <3>1. phase[r] # "idle" /\ outbox' = outbox \cup RowsOf(r)
      BY <2>1, CommitEffect
    <3>2. \A p, q \in RowsOf(r) : p.board = q.board => p = q
      BY DEF RowsOf
    <3>3. ASSUME NEW p \in RowsOf(r), NEW q \in outbox
          PROVE  ~(p.board = q.board /\ p.user = q.user /\ p.score = q.score)
      <4>1. /\ IndexConfigured /\ p.board \in ImprovedBoards(r)
            /\ p.user = req[r].user /\ p.score = req[r].score
            /\ p.board \in Boards /\ p.user \in Users
        BY <3>1, RowsOwed DEF IInv, OutboxRow
      <4>2. req[r].score > standing[p.board][p.user] /\ req[r].score \in Int
            /\ standing[p.board][p.user] \in Int
        BY <3>1, <4>1, Carried, NotImproved, TableOfInts DEF IInv
      <4>3. q.board = p.board /\ q.user = p.user => q.score <= standing[p.board][p.user]
        BY <4>1 DEF OutboxTellsStandings
      <4>4. q.score \in Int
        BY StandingIsInt DEF IInv, TypeOK, OutboxRow
      <4>. QED
        BY <4>1, <4>2, <4>3, <4>4
    <3>. QED
      BY <3>1, <3>2, <3>3 DEF OneRowPerImprovement
  <2>2. CASE ~\E r \in Requests : Commit(r)
    BY <2>2, OnlyCommitsWrite DEF OneRowPerImprovement
  <2>. QED
    BY <2>1, <2>2
<1>. QED
  BY <1>1, <1>2, Invariant, OutboxTells, PTL DEF Spec

-----------------------------------------------------------------------------
(* The refinement.                                                         *)

\* The statements of a submission, its locks and its failures implement one step in
\* which all boards of its fan-out take the larger score.
THEOREM ImplementsBestScore == Spec => BestScoreSpec
<1>1. Init => Durable!BestInit
  BY DEF Init, Durable!BestInit, Nobody, Durable!Nobody, NoStanding, Durable!NoStanding
<1>2. IInv /\ [Next]_vars => [Durable!BestNext]_standing
  <2>. SUFFICES ASSUME IInv, [Next]_vars PROVE [Durable!BestNext]_standing
    OBVIOUS
  <2>1. ASSUME NEW r \in Requests, Commit(r) PROVE Durable!BestNext
    <3>. DEFINE recorded == [b \in Boards |->
                   [w \in Users |-> IF b \in req[r].boards /\ w = req[r].user
                                      THEN Larger(standing[b][w], req[r].score)
                                      ELSE standing[b][w]]]
    <3>1. req[r].user \in Users /\ req[r].boards \in Fanouts /\ req[r].score \in Scores
      BY <2>1, CommitEffect, Carried DEF IInv
    <3>2. /\ standing' \in [Boards -> [Users -> Standing]]
          /\ \A b \in Boards, w \in Users : standing'[b][w] = recorded[b][w]
      BY <2>1, CommitRaises
    <3>3. \A b \in Boards : standing'[b] = recorded[b]
      BY <3>2
    <3>4. standing' = recorded
      BY <3>2, <3>3
    <3>5. Durable!Record(req[r].user, req[r].boards, req[r].score)
      BY <3>4 DEF Durable!Record, Durable!Larger, Larger
    <3>. QED
      BY <3>1, <3>5 DEF Durable!BestNext
  <2>2. CASE ~\E r \in Requests : Commit(r)
    BY <2>2, OnlyCommitsWrite
  <2>. QED
    BY <2>1, <2>2
<1>. QED
  BY <1>1, <1>2, Invariant, PTL DEF Spec, BestScoreSpec, Durable!BestSpec

-----------------------------------------------------------------------------

\* The game is retired and request r has not passed its check.
TurnedAway(r) == game = "retired" /\ phase[r] \in {"idle", "check", "refused", "failed"}

LEMMA TurnedAwayForGood ==
  ASSUME NEW r \in Requests
  PROVE  TypeOK /\ TurnedAway(r) /\ [Next]_vars => TurnedAway(r)'
<1>. SUFFICES ASSUME TypeOK, TurnedAway(r), [Next]_vars PROVE TurnedAway(r)'
  OBVIOUS
<1>1. game' = "retired"
  BY DEF TurnedAway, Next, Register, Registered, Retire, Arrive, Progress, CheckGame, UpsertUser,
         UpsertEntries, SelectStandings, InsertOutbox, Commit, Fail, committed, vars
<1>2. ASSUME NEW q \in Requests, NEW p, Goto(q, p), q # r \/ p \in {"check", "refused", "failed"}
      PROVE  TurnedAway(r)'
  BY <1>1, <1>2 DEF TurnedAway, Goto, TypeOK
<1>3. ASSUME NEW q \in Requests, NEW u \in Users, NEW bs \in Fanouts, NEW v \in Scores,
             NEW n \in Names \cup {NoName}, Arrive(q, u, bs, v, n)
      PROVE  TurnedAway(r)'
  BY <1>2, <1>3 DEF Arrive
<1>4. ASSUME NEW q \in Requests, Fail(q) PROVE TurnedAway(r)'
  BY <1>2, <1>4 DEF Fail
<1>5. ASSUME NEW q \in Requests, Progress(q) PROVE TurnedAway(r)'
  <2>1. CASE q = r
    <3>1. CheckGame(r)
      BY <1>5, <2>1 DEF TurnedAway, Progress, UpsertUser, UpsertEntries, SelectStandings,
                        InsertOutbox, Commit
    <3>2. Goto(r, "refused")
      BY <3>1 DEF CheckGame, TurnedAway
    <3>. QED
      BY <1>2, <3>2
  <2>2. CASE q # r
    BY <1>2, <1>5, <2>2
       DEF Progress, CheckGame, UpsertUser, UpsertEntries, SelectStandings, InsertOutbox, Commit
  <2>. QED
    BY <2>1, <2>2
<1>6. CASE UNCHANGED phase
  BY <1>1, <1>6 DEF TurnedAway
<1>. QED
  BY <1>3, <1>4, <1>5, <1>6 DEF Next, Register, Retire, vars

\* A game that was retired before a submission arrived never takes it, even when the
\* game is registered again meanwhile.
THEOREM RetirementIsFinal == Spec => RetirementHolds
<1>. SUFFICES ASSUME NEW r \in Requests
              PROVE  Spec => [](game = "retired" /\ phase[r] = "idle" => []~Committed(r))
  BY DEF RetirementHolds
<1>1. game = "retired" /\ phase[r] = "idle" => TurnedAway(r)
  BY DEF TurnedAway
<1>2. TurnedAway(r) => ~Committed(r)
  BY DEF TurnedAway, Committed
<1>. QED
  BY <1>1, <1>2, TurnedAwayForGood, TypeCorrect, PTL DEF Spec
=============================================================================
