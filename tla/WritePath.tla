------------------------------ MODULE WritePath ------------------------------
(***************************************************************************)
(* The durable half of a submission (Spec.md D1, D4, D5), one SQL          *)
(* statement per action: scoring.submit_score up to its commit, and        *)
(* entries.submit_score inside it.                                         *)
(*                                                                         *)
(* Concurrent requests interleave between statements, each in a            *)
(* transaction of its own under READ COMMITTED: a statement reads what is  *)
(* committed when it runs, and a row another transaction has written is    *)
(* locked until that transaction ends.  The games and users of the code    *)
(* are one game and the set Users here; boards of different games share    *)
(* nothing but the users row.                                              *)
(***************************************************************************)
EXTENDS Standings

CONSTANTS
    Requests,          \* request slots: each handles one submission
    Names,             \* display names a request may carry
    IndexConfigured    \* whether REDIS_URL is set (redis_client is not None)

ASSUME IndexConfiguredAssumption == IndexConfigured \in BOOLEAN

\* all_buckets_for gives every submission a board in each period.
ASSUME FanoutsNotEmpty == {} \notin Fanouts

NoUser == "no user row"
NoName == "null"
ASSUME NamesAssumption == Names \cap {NoUser, NoName} = {}

VARIABLES
    game,       \* games: not registered, active, or retired
    profile,    \* users: profile[u] is the display name, NoName or NoUser
    standing,   \* leaderboard_entries.score: standing[b][u], or NoStanding
    dated,      \* leaderboard_entries.achieved_at
    outbox,     \* redis_outbox: the rows written so far, each by one request
    clock,      \* the server's clock, advancing with every arrival
    phase,      \* phase[r]: the statement request r runs next, or its outcome
    req,        \* req[r]: what r submits, once it has arrived
    txn         \* txn[r]: what r's transaction has written and read so far

committed == <<game, profile, standing, dated, outbox>>
vars == <<game, profile, standing, dated, outbox, clock, phase, req, txn>>

Submission == [user : Users, boards : Fanouts, score : Scores,
               name : Names \cup {NoName}, at : Nat]

\* An outbox row; "by" stands for its id.
OutboxRow == [board : Boards, user : Users, score : Scores, by : Requests]

NoSubmission == [user |-> NoUser, boards |-> {}, score |-> NoStanding,
                 name |-> NoName, at |-> 0]
EmptyTxn == [name |-> NoName, improved |-> {}, reported |-> << >>, rows |-> {}]

\* What a transaction has written: "name", the boards it "improved" and its outbox
\* "rows"; and what it has read back.
Transaction == [name : Names \cup {NoName}, improved : SUBSET Boards,
                reported : {<< >>} \cup UNION {[bs -> Standing] : bs \in Fanouts},
                rows : SUBSET OutboxRow]

InTransaction == {"user", "entries", "readback", "enqueue", "commit"}
Outcomes == {"accepted", "unacknowledged", "refused", "failed"}

TypeOK ==
    /\ game \in {"absent", "active", "retired"}
    /\ profile \in [Users -> Names \cup {NoName, NoUser}]
    /\ standing \in [Boards -> [Users -> Standing]]
    /\ dated \in [Boards -> [Users -> 0..clock]]
    /\ outbox \subseteq OutboxRow
    /\ clock \in Nat
    /\ phase \in [Requests -> {"idle", "check"} \cup InTransaction \cup Outcomes]
    /\ req \in [Requests -> Submission \cup {NoSubmission}]
    /\ \A r \in Requests : phase[r] # "idle" => req[r] \in Submission
    /\ txn \in [Requests -> Transaction]

Init ==
    /\ game = "absent"
    /\ profile = [u \in Users |-> NoUser]
    /\ standing = Nobody
    /\ dated = [b \in Boards |-> [u \in Users |-> 0]]
    /\ outbox = {}
    /\ clock = 0
    /\ phase = [r \in Requests |-> "idle"]
    /\ req = [r \in Requests |-> NoSubmission]
    /\ txn = [r \in Requests |-> EmptyTxn]

Goto(r, p) == phase' = [phase EXCEPT ![r] = p]

-----------------------------------------------------------------------------
(* The game registry.                                                      *)

\* Mutant of Registered: registering a retired game brings it back.
RegisteredReactivating == game' = "active"

\* games.create_game: inserting an existing game only renames it, so that
\* registering a retired game again does not bring it back.
Registered == game' = IF game = "absent" THEN "active" ELSE game

Register ==
    /\ Registered
    /\ UNCHANGED <<profile, standing, dated, outbox, clock, phase, req, txn>>

\* External: an operator clears games.is_active; no route of the service does.
Retire ==
    /\ game = "active"
    /\ game' = "retired"
    /\ UNCHANGED <<profile, standing, dated, outbox, clock, phase, req, txn>>

-----------------------------------------------------------------------------
(* Row locks.                                                              *)

\* Mutant of HoldsUserRow: a failed request leaves its transaction open.
HoldsUserRowLeaking(q) ==
    phase[q] \in {"entries", "readback", "enqueue", "commit", "failed"}

\* The upsert of the users row locks it until the transaction ends, whether or
\* not it changes the name.
HoldsUserRow(q) == phase[q] \in {"entries", "readback", "enqueue", "commit"}

\* ON CONFLICT DO UPDATE locks every entry it meets, improved or not.
HoldsEntryRows(q) == phase[q] \in {"readback", "enqueue", "commit"}

\* Mutant of UserRowFree: the upsert of the user does not wait for its row.
UserRowNeverLocked(r) == TRUE

UserRowFree(r) ==
    \A q \in Requests \ {r} : HoldsUserRow(q) => req[q].user # req[r].user

EntryRowsFree(r) ==
    \A q \in Requests \ {r} :
        HoldsEntryRows(q) => \/ req[q].user # req[r].user
                             \/ req[q].boards \cap req[r].boards = {}

-----------------------------------------------------------------------------
(* One submission, statement by statement.                                 *)

\* The request is stamped with the server's clock before anything else, and its
\* boards follow from the stamp.
Arrive(r, u, bs, v, n) ==
    /\ phase[r] = "idle"
    /\ clock' = clock + 1
    /\ req' = [req EXCEPT ![r] = [user |-> u, boards |-> bs, score |-> v,
                                  name |-> n, at |-> clock']]
    /\ Goto(r, "check")
    /\ UNCHANGED <<committed, txn>>

\* games.require_writable_game reads the game and locks nothing: 404 or 409, or
\* go on.
CheckGame(r) ==
    /\ phase[r] = "check"
    /\ Goto(r, IF game = "active" THEN "user" ELSE "refused")
    /\ UNCHANGED <<committed, clock, req, txn>>

\* Mutant of UpsertUser: the user is created outside the transaction.
UpsertUserAutocommit(r) ==
    /\ phase[r] = "user"
    /\ UserRowFree(r)
    /\ profile' = [profile EXCEPT ![req[r].user] = req[r].name]
    /\ txn' = [txn EXCEPT ![r].name = req[r].name]
    /\ Goto(r, "entries")
    /\ UNCHANGED <<game, standing, dated, outbox, clock, req>>

\* _UPSERT_USER: COALESCE keeps a name the request does not carry.
UpsertUser(r) ==
    LET old == profile[req[r].user] IN
    /\ phase[r] = "user"
    /\ UserRowFree(r)
    /\ txn' = [txn EXCEPT ![r].name =
                    IF req[r].name = NoName /\ old # NoUser THEN old ELSE req[r].name]
    /\ Goto(r, "entries")
    /\ UNCHANGED <<committed, clock, req>>

\* Mutants of ImprovedBoards: ">=" for ">", no WHERE at all, DO NOTHING.
ImprovedOrEqual(r) ==
    {b \in req[r].boards : req[r].score >= standing[b][req[r].user]}

ImprovedAlways(r) == req[r].boards

ImprovedIfAbsent(r) ==
    {b \in req[r].boards : standing[b][req[r].user] = NoStanding}

\* The boards _UPSERT_ENTRIES returns: inserted, or strictly improved.
ImprovedBoards(r) == Improved(standing, req[r].user, req[r].boards, req[r].score)

UpsertEntries(r) ==
    /\ phase[r] = "entries"
    /\ EntryRowsFree(r)
    /\ txn' = [txn EXCEPT ![r].improved = ImprovedBoards(r)]
    /\ Goto(r, "readback")
    /\ UNCHANGED <<committed, clock, req>>

\* Mutant of ReadBack: the standings are read on another connection.
ReadBackOutside(r) ==
    [b \in req[r].boards |-> standing[b][req[r].user]]

\* _SELECT_STANDINGS sees the transaction's own writes over what is committed.
ReadBack(r) ==
    [b \in req[r].boards |->
        IF b \in txn[r].improved THEN req[r].score ELSE standing[b][req[r].user]]

SelectStandings(r) ==
    /\ phase[r] = "readback"
    /\ txn' = [txn EXCEPT ![r].reported = ReadBack(r)]
    /\ Goto(r, "enqueue")
    /\ UNCHANGED <<committed, clock, req>>

\* _INSERT_OUTBOX, once per improved board, with the score read back; nothing is
\* enqueued when no index is configured.
InsertOutbox(r) ==
    /\ phase[r] = "enqueue"
    /\ txn' = [txn EXCEPT ![r].rows =
                    IF ~IndexConfigured THEN {}
                    ELSE {[board |-> b, user |-> req[r].user,
                           score |-> txn[r].reported[b], by |-> r] : b \in txn[r].improved}]
    /\ Goto(r, "commit")
    /\ UNCHANGED <<committed, clock, req>>

\* Mutant of Commit: the outbox rows follow in a second transaction.
CommitBeforeOutbox(r) ==
    /\ phase[r] = "commit"
    /\ profile' = [profile EXCEPT ![req[r].user] = txn[r].name]
    /\ standing' = [b \in Boards |->
                        IF b \in txn[r].improved
                          THEN [standing[b] EXCEPT ![req[r].user] = req[r].score]
                          ELSE standing[b]]
    /\ \/ Goto(r, "accepted") /\ outbox' = outbox \cup txn[r].rows
       \/ Goto(r, "unacknowledged") /\ UNCHANGED outbox
    /\ UNCHANGED <<game, dated, clock, req, txn>>

\* Mutant of Commit: every board of the fan-out is dated, improved or not.
CommitDatingAll(r) ==
    LET u == req[r].user
        Put(table, value, boards) ==
            [b \in Boards |-> IF b \in boards THEN [table[b] EXCEPT ![u] = value] ELSE table[b]]
    IN
    /\ phase[r] = "commit"
    /\ profile' = [profile EXCEPT ![u] = txn[r].name]
    /\ standing' = Put(standing, req[r].score, txn[r].improved)
    /\ dated' = Put(dated, req[r].at, req[r].boards)
    /\ outbox' = outbox \cup txn[r].rows
    /\ Goto(r, "accepted") \/ Goto(r, "unacknowledged")
    /\ UNCHANGED <<game, clock, req, txn>>

\* Everything the transaction wrote becomes visible at once.  The caller may
\* lose the reply: it then answers 500 although the score is stored.
Commit(r) ==
    LET u == req[r].user
        Put(table, value) ==
            [b \in Boards |-> IF b \in txn[r].improved
                                THEN [table[b] EXCEPT ![u] = value] ELSE table[b]]
    IN
    /\ phase[r] = "commit"
    /\ profile' = [profile EXCEPT ![u] = txn[r].name]
    /\ standing' = Put(standing, req[r].score)
    /\ dated' = Put(dated, req[r].at)
    /\ outbox' = outbox \cup txn[r].rows
    /\ Goto(r, "accepted") \/ Goto(r, "unacknowledged")
    /\ UNCHANGED <<game, clock, req, txn>>

\* A statement or the commit fails, or the process stops: the transaction rolls
\* back and its locks are released.
Fail(r) ==
    /\ phase[r] \in InTransaction \cup {"check"}
    /\ Goto(r, "failed")
    /\ UNCHANGED <<committed, clock, req, txn>>

Progress(r) ==
    \/ CheckGame(r)
    \/ UpsertUser(r)
    \/ UpsertEntries(r)
    \/ SelectStandings(r)
    \/ InsertOutbox(r)
    \/ Commit(r)

Next ==
    \/ Register
    \/ Retire
    \/ \E r \in Requests, u \in Users, bs \in Fanouts, v \in Scores, n \in Names \cup {NoName} :
            Arrive(r, u, bs, v, n)
    \/ \E r \in Requests : Progress(r)
    \/ \E r \in Requests : Fail(r)

Spec == Init /\ [][Next]_vars

\* Every statement a request issues is eventually executed or fails: Postgres
\* grants a row lock that is free.  Neither failures nor arrivals are required.
FairSpec == Spec /\ \A r \in Requests : WF_vars(Progress(r))

-----------------------------------------------------------------------------
(* Properties.                                                             *)

Committed(r) == phase[r] \in {"accepted", "unacknowledged"}

\* However requests interleave, the tables hold the best score of the committed
\* submissions, and each commit reaches all of its boards at once ("concurrent
\* submissions converge on the maximum", entries' module comment).
Durable == INSTANCE BestScore WITH best <- standing
BestScoreSpec == Durable!BestSpec

\* A committed submission is never lost, even one whose caller was told 500: its
\* boards hold its score or a better one for as long as the service runs.
CommittedIsDurable ==
    \A r \in Requests :
        Committed(r) =>
            \A b \in req[r].boards : standing[b][req[r].user] >= req[r].score

\* What the response says of each board is what the board holds when the
\* transaction commits, though it was read two statements earlier.
ReportsCurrentStanding ==
    [][\A r \in Requests :
          ~Committed(r) /\ Committed(r)' =>
              \A b \in req[r].boards : txn[r].reported[b] = standing'[b][req[r].user]]_vars

\* Of submissions racing with the same score, one improves the board and one
\* outbox row says so: an improvement is never claimed twice (the strict
\* comparison of _UPSERT_ENTRIES).
OneRowPerImprovement ==
    \A p, q \in outbox :
        p.board = q.board /\ p.user = q.user /\ p.score = q.score => p = q

\* The outbox records every standing: the best row of a user on a board is the
\* committed standing, so replaying the outbox in any order rebuilds the index.
OutboxTellsStandings ==
    IndexConfigured =>
        \A b \in Boards, u \in Users :
            LET said == {q.score : q \in {p \in outbox : p.board = b /\ p.user = u}} IN
            /\ standing[b][u] # NoStanding => standing[b][u] \in said
            /\ \A v \in said : v <= standing[b][u]

\* A user exists exactly when they hold a standing: a refused or failed request
\* "never leaves a user row behind" (scoring's module comment).
NoUserWithoutScore ==
    \A u \in Users :
        profile[u] # NoUser <=> \E b \in Boards : standing[b][u] # NoStanding

\* A submission without a display name never erases one that was set, although
\* another request may be setting it at the same moment (_UPSERT_USER).
NameNeverErased ==
    [][\A u \in Users : profile[u] \in Names => profile'[u] \in Names]_vars

\* A game that was retired before a submission arrived never takes it, even when
\* the game is registered again meanwhile.
RetirementHolds ==
    \A r \in Requests :
        [](game = "retired" /\ phase[r] = "idle" => []~Committed(r))

\* No request waits for ever: every submission that arrived gets an outcome,
\* whatever row locks the others hold and whichever of them fail.
EveryRequestAnswered ==
    \A r \in Requests : phase[r] = "check" ~> phase[r] \in Outcomes

\* Score and date of a standing come from one submission: whoever set the score
\* also dated it, on every board of its own fan-out and on no other, although each
\* submission was stamped before it had to wait for the others.
DatedByItsScore ==
    \A b \in Boards, u \in Users :
        standing[b][u] # NoStanding =>
            \E r \in Requests :
                /\ Committed(r)
                /\ b \in req[r].boards
                /\ req[r].user = u
                /\ req[r].score = standing[b][u]
                /\ req[r].at = dated[b][u]
=============================================================================
