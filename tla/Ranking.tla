------------------------------- MODULE Ranking -------------------------------
(***************************************************************************)
(* One ranking contract, two stores (Spec.md D2, D3): RedisRanking answers *)
(* a page or a user's surroundings with one Lua script, PostgresRanking    *)
(* with up to four statements, each with a snapshot of its own because the *)
(* transaction is READ COMMITTED.                                          *)
(*                                                                         *)
(* A user is a number: the place of the identifier in the byte-wise order  *)
(* that COLLATE "C" and Redis' memcmp share.  Both stores hold the same    *)
(* board here, which submissions raise while requests are being answered;  *)
(* ColdReads is about a Redis that holds less.                             *)
(***************************************************************************)
EXTENDS Integers, FiniteSets, SequencesExt

CONSTANTS
    Users,      \* user identifiers, as numbers
    Scores,
    Readers,    \* requests being answered
    Limits,     \* page lengths; 1 or more (leaderboards.get_leaderboard)
    Offsets,
    Windows     \* the reach of around on either side; 0 or more

ASSUME UsersAssumption == Users \subseteq Nat
ASSUME RankingScoresAssumption == Scores \subseteq Nat
ASSUME QueriesAssumption ==
    /\ Limits \subseteq Nat \ {0} /\ Limits # {}
    /\ Offsets \subseteq Nat /\ Offsets # {}
    /\ Windows \subseteq Nat

VARIABLES
    board,   \* board[u]: the score of u, or NoStanding
    ask,     \* ask[q]: the query request q is answering
    step,    \* step[q]: the statement q runs next, or how it ended
    seen,    \* seen[q]: what its statements have returned so far
    fresh    \* fresh[q]: no submission has landed since q's first statement

vars == <<board, ask, step, seen, fresh>>

NoStanding == -1

Members(b) == {u \in Users : b[u] # NoStanding}

Least(x, y) == IF x < y THEN x ELSE y

Query == [kind : {"top"}, limit : Limits, offset : Offsets]
            \cup [kind : {"around"}, user : Users, window : Windows]

Entry == [rank : Nat, user : Users, score : Scores]

\* A reply, complete or under way.  "rank" is 0 for top; the user of an around
\* query is the entry that has that rank.
Reply == [score : Scores \cup {NoStanding}, rank : Nat, entries : Seq(Entry), total : Nat]

NoReply == [score |-> NoStanding, rank |-> 0, entries |-> << >>, total |-> 0]

Ended == {"answered", "unranked", "broken"}

TypeOK ==
    /\ board \in [Users -> Scores \cup {NoStanding}]
    /\ ask \in [Readers -> Query]
    /\ step \in [Readers -> {"script", "score", "rank", "rows", "total"} \cup Ended]
    /\ seen \in [Readers -> Reply]
    /\ fresh \in [Readers -> BOOLEAN]

Init ==
    /\ board = [u \in Users |-> NoStanding]
    /\ ask = [q \in Readers |-> CHOOSE query \in Query : query.kind = "top"]
    /\ step = [q \in Readers |-> "answered"]
    /\ seen = [q \in Readers |-> NoReply]
    /\ fresh = [q \in Readers |-> FALSE]

\* A submission inserts or improves one entry.  No entry is ever removed.
Submit(u, v) ==
    /\ v > board[u]
    /\ board' = [board EXCEPT ![u] = v]
    /\ fresh' = [q \in Readers |-> FALSE]
    /\ UNCHANGED <<ask, step, seen>>

\* Numbered from the 0-based position of the first row.
Numbered(b, start, rows) ==
    [i \in DOMAIN rows |-> [rank |-> start + i, user |-> rows[i], score |-> b[rows[i]]]]

\* The members as a list: each before those it comes before.
InOrder(b, Before(_, _)) ==
    CHOOSE list \in [1..Cardinality(Members(b)) -> Members(b)] :
        \A i, j \in DOMAIN list : i < j => Before(list[i], list[j])

HasRank(entries, rank) == \E i \in DOMAIN entries : entries[i].rank = rank

Answer(q, reply, end) ==
    /\ seen' = [seen EXCEPT ![q] = reply]
    /\ step' = [step EXCEPT ![q] = end]
    /\ UNCHANGED <<board, ask, fresh>>

-----------------------------------------------------------------------------
(* redis_ranking: a sorted set and two scripts.                            *)

\* External: a sorted set is ordered by score, then member, ascending.
SortedSet(b) ==
    InOrder(b, LAMBDA u, v : \/ b[u] < b[v]
                             \/ b[u] = b[v] /\ u < v)

\* External: ZREVRANGE key start stop, both 0-based and inclusive.
ZRevRange(b, start, stop) ==
    SubSeq(Reverse(SortedSet(b)), start + 1, Least(stop + 1, Cardinality(Members(b))))

\* External: ZREVRANK key member, for a member that exists.
ZRevRank(b, u) == CHOOSE n \in 0..Cardinality(Members(b)) - 1 : ZRevRange(b, n, n) = <<u>>

\* _TOP_LUA and RedisRanking.top.
RedisTop(b, limit, offset) ==
    [score |-> NoStanding, rank |-> 0, total |-> Cardinality(Members(b)),
     entries |-> Numbered(b, offset, ZRevRange(b, offset, offset + limit - 1))]

\* Mutant of RedisAround: the rows are numbered from the unclamped start.
RedisAroundUnclamped(b, u, window) ==
    LET rank == ZRevRank(b, u)
        start == IF rank - window < 0 THEN 0 ELSE rank - window
    IN [score |-> b[u], rank |-> rank + 1, total |-> Cardinality(Members(b)),
        entries |-> Numbered(b, rank - window, ZRevRange(b, start, rank + window))]

\* _AROUND_LUA and RedisRanking.around.
RedisAround(b, u, window) ==
    LET rank == ZRevRank(b, u)
        start == IF rank - window < 0 THEN 0 ELSE rank - window
    IN [score |-> b[u], rank |-> rank + 1, total |-> Cardinality(Members(b)),
        entries |-> Numbered(b, start, ZRevRange(b, start, rank + window))]

\* A script runs as one step.
Script(q) ==
    /\ step[q] = "script"
    /\ IF ask[q].kind = "top"
         THEN Answer(q, RedisTop(board, ask[q].limit, ask[q].offset), "answered")
         ELSE IF ask[q].user \notin Members(board)
                THEN Answer(q, NoReply, "unranked")
                ELSE LET reply == RedisAround(board, ask[q].user, ask[q].window) IN
                     Answer(q, reply, IF HasRank(reply.entries, reply.rank)
                                        THEN "answered" ELSE "broken")

-----------------------------------------------------------------------------
(* postgres_ranking: a statement at a time.                                *)

\* Mutant of Ahead: ties are broken the other way round.
AheadAscending(b, u, v) ==
    \/ b[u] > b[v]
    \/ b[u] = b[v] /\ u < v

\* _ORDER_BY: score DESC, user_id DESC.
Ahead(b, u, v) ==
    \/ b[u] > b[v]
    \/ b[u] = b[v] /\ u > v

\* SELECT ... ORDER BY ... OFFSET offset LIMIT limit.
Selected(b, offset, limit) ==
    SubSeq(InOrder(b, LAMBDA u, v : Ahead(b, u, v)),
           offset + 1, Least(offset + limit, Cardinality(Members(b))))

\* COUNT(*) ... AND (score, user_id) > (:score, :user_id).
Better(b, score, user) ==
    Cardinality({u \in Members(b) : b[u] > score \/ (b[u] = score /\ u > user)})

SelectScore(q) ==
    LET score == board[ask[q].user] IN
    /\ step[q] = "score"
    /\ Answer(q, [NoReply EXCEPT !.score = score],
              IF score = NoStanding THEN "unranked" ELSE "rank")

CountBetter(q) ==
    /\ step[q] = "rank"
    /\ Answer(q, [seen[q] EXCEPT !.rank = Better(board, seen[q].score, ask[q].user) + 1],
              "rows")

\* The page asked for, or the clamped window around the rank just counted.
Bounds(q) ==
    IF ask[q].kind = "top"
      THEN [offset |-> ask[q].offset, limit |-> ask[q].limit]
      ELSE LET at == seen[q].rank - 1
               start == IF at - ask[q].window < 0 THEN 0 ELSE at - ask[q].window
           IN [offset |-> start, limit |-> at + ask[q].window - start + 1]

SelectRows(q) ==
    LET from == Bounds(q) IN
    /\ step[q] = "rows"
    /\ Answer(q, [seen[q] EXCEPT !.entries =
                    Numbered(board, from.offset, Selected(board, from.offset, from.limit))],
              "total")

\* Mutant of CountAll: the total is the number of rows on the page.
CountAllOfPage(q) ==
    /\ step[q] = "total"
    /\ Answer(q, [seen[q] EXCEPT !.total = Len(seen[q].entries)],
              IF ask[q].kind = "around" /\ ~HasRank(seen[q].entries, seen[q].rank)
                THEN "broken" ELSE "answered")

\* The COUNT, and the reply: around ends with next(entry ... if entry.rank == rank),
\* which raises when no row has that rank.
CountAll(q) ==
    /\ step[q] = "total"
    /\ Answer(q, [seen[q] EXCEPT !.total = Cardinality(Members(board))],
              IF ask[q].kind = "around" /\ ~HasRank(seen[q].entries, seen[q].rank)
                THEN "broken" ELSE "answered")

-----------------------------------------------------------------------------

\* A request arrives and is given to one of the stores.
Request(q) ==
    /\ step[q] \in Ended
    /\ \E query \in Query :
        /\ ask' = [ask EXCEPT ![q] = query]
        /\ \/ step' = [step EXCEPT ![q] = "script"]
           \/ step' = [step EXCEPT ![q] = IF query.kind = "top" THEN "rows" ELSE "score"]
    /\ seen' = [seen EXCEPT ![q] = NoReply]
    /\ fresh' = [fresh EXCEPT ![q] = TRUE]
    /\ UNCHANGED board

Statement(q) == SelectScore(q) \/ CountBetter(q) \/ SelectRows(q) \/ CountAll(q)

Next ==
    \/ \E u \in Users, v \in Scores : Submit(u, v)
    \/ \E q \in Readers : Request(q)
    \/ \E q \in Readers : Script(q)
    \/ \E q \in Readers : Statement(q)

Spec == Init /\ [][Next]_vars

-----------------------------------------------------------------------------
(* Properties.                                                             *)

\* Where a user stands, said without an order of rows: one more than the users
\* with a higher score, or the same score and a greater identifier (Spec.md D3).
Position(b, u) ==
    1 + Cardinality({v \in Members(b) : b[v] > b[u] \/ (b[v] = b[u] /\ v > u)})

\* The entries a query asks for.
Due(b, query) ==
    {[rank |-> Position(b, u), user |-> u, score |-> b[u]] :
        u \in {w \in Members(b) :
                 IF query.kind = "top"
                   THEN /\ query.offset < Position(b, w)
                        /\ Position(b, w) <= query.offset + query.limit
                   ELSE /\ Position(b, w) >= Position(b, query.user) - query.window
                        /\ Position(b, w) <= Position(b, query.user) + query.window}}

\* With no submission in between, both stores give the same answer, the one the
\* contract describes, and a user's own row is in it: what the differential tests
\* sample.
StoresAgree ==
    \A q \in Readers :
        fresh[q] =>
            /\ step[q] # "broken"
            /\ step[q] = "unranked" => board[ask[q].user] = NoStanding
            /\ step[q] = "answered" =>
                /\ ToSet(seen[q].entries) = Due(board, ask[q])
                /\ \A i, j \in DOMAIN seen[q].entries :
                      i < j => seen[q].entries[i].rank < seen[q].entries[j].rank
                /\ seen[q].total = Cardinality(Members(board))
                /\ ask[q].kind = "around" => seen[q].rank = Position(board, ask[q].user)

\* Whatever submissions land between the statements, no row of a reply has a rank
\* beyond the total beside it, from either store and at any offset: the total is
\* counted last, and a board never shrinks.
RanksWithinTotal ==
    \A q \in Readers :
        step[q] = "answered" =>
            \A i \in DOMAIN seen[q].entries : seen[q].entries[i].rank <= seen[q].total

\* "The rank, the window and the total come from one consistent snapshot": the
\* entry at the reported rank is the user who was asked about (the description of
\* GET .../users/{user_id}, app/api/v1/leaderboards.py).
AroundIsAboutTheUser ==
    \A q \in Readers :
        step[q] = "answered" /\ ask[q].kind = "around" =>
            \E i \in DOMAIN seen[q].entries :
                /\ seen[q].entries[i].rank = seen[q].rank
                /\ seen[q].entries[i].user = ask[q].user
=============================================================================
