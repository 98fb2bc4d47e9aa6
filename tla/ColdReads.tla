------------------------------ MODULE ColdReads ------------------------------
(***************************************************************************)
(* Reading a board whose key Redis may lose (Spec.md D2): the choice of a  *)
(* store in leaderboard._resolve_repository, the read itself, and the      *)
(* rebuild of rebuild.rebuild_index that a cold key triggers in the        *)
(* background or an administrator asks for.                                *)
(*                                                                         *)
(* One board is modelled; boards share nothing here but the Redis server.  *)
(* The write side is reduced to what IndexSync shows of it: a standing     *)
(* that the index may lack is in a pending outbox row, and delivering a    *)
(* row raises one member.  A page is the whole board: limit and offset cut *)
(* it, the same way from both stores, and the total that goes with it is   *)
(* in Ranking.                                                             *)
(***************************************************************************)
EXTENDS Integers, FiniteSets

CONSTANTS
    Users, Scores,
    Submissions,  \* the pairs of user and score that are submitted
    Readers,      \* read requests, each handled once at a time
    Instances,    \* service processes, each with its own _rebuilding guard
    Home,         \* Home[q]: the instance that handles reader q
    Admins,       \* rebuilds asked for through POST /v1/admin/rebuild
    MaxLosses,    \* bound on how often Redis loses the key
    MaxErrors     \* bound on failed calls

ASSUME HomeAssumption == Home \in [Readers -> Instances]
ASSUME RebuildersAssumption == Instances \cap Admins = {}
ASSUME BoundsAssumption == MaxLosses \in Nat /\ MaxErrors \in Nat
ASSUME SubmissionsAssumption == Submissions \subseteq [user : Users, score : Scores]
ASSUME ScoresAreNatural == Scores \subseteq Nat
ASSUME UsersAreFinite == IsFiniteSet(Users)

VARIABLES
    standing,   \* Postgres: standing[u], or NoStanding
    pending,    \* Postgres: undelivered outbox rows
    index,      \* Redis: index[u]; the key exists when someone is in it
    losses,     \* how often Redis has lost the key
    errors,     \* failed calls: to Redis, or to Postgres under a rebuild
    reader,     \* reader[q]: where a request is, and what it has seen
    guard,      \* the instances whose _rebuilding set holds the board's key
    rebuild     \* rebuild[i]: a rebuild's progress

vars == <<standing, pending, index, losses, errors, reader, guard, rebuild>>
stores == <<standing, pending, index, losses>>

Rebuilders == Instances \cup Admins

NoStanding == -1
Standing == Scores \cup {NoStanding}
Nobody == [u \in Users |-> NoStanding]
Row == [user : Users, score : Scores]

Members(board) == {u \in Users : board[u] # NoStanding}
Size(board) == Cardinality(Members(board))
Rows(board) == {[user |-> u, score |-> board[u]] : u \in Members(board)}

\* The standings nothing is pending for: any index should show them.
Settled == [u \in Users |-> IF \E r \in pending : r.user = u THEN NoStanding ELSE standing[u]]

Phases == {"idle", "confirm", "read", "answered", "failed"}

\* For the properties only: "settled", the board's settled part when the request
\* began, unless the key was ever lost, and "someone", whether anyone was on the
\* board then and the key has not been lost since.
Request == [phase : Phases, source : {"redis", "postgres"}, page : [Users -> Standing],
            settled : [Users -> Standing], someone : BOOLEAN]

IdleRequest == [phase |-> "idle", source |-> "postgres", page |-> Nobody,
                settled |-> Nobody, someone |-> FALSE]

\* "snapshot", for the properties only: what the streaming cursor sees, until the
\* key is lost.
Rebuild == [phase : {"idle", "queued", "writing"}, todo : SUBSET Row,
            snapshot : [Users -> Standing]]

IdleRebuild == [phase |-> "idle", todo |-> {}, snapshot |-> Nobody]

TypeOK ==
    /\ standing \in [Users -> Standing]
    /\ pending \subseteq Row
    /\ index \in [Users -> Standing]
    /\ losses \in 0..MaxLosses
    /\ errors \in 0..MaxErrors
    /\ reader \in [Readers -> Request]
    /\ guard \subseteq Instances
    /\ rebuild \in [Rebuilders -> Rebuild]

Init ==
    /\ standing = Nobody
    /\ pending = {}
    /\ index = Nobody
    /\ losses = 0
    /\ errors = 0
    /\ reader = [q \in Readers |-> IdleRequest]
    /\ guard = {}
    /\ rebuild = [i \in Rebuilders |-> IdleRebuild]

\* ZADD key GT score member.
Zadd(r) == index' = [index EXCEPT ![r.user] = IF r.score > @ THEN r.score ELSE @]

CallFails == errors < MaxErrors /\ errors' = errors + 1

-----------------------------------------------------------------------------
(* The write side, and Redis losing the key.                               *)

\* A submission commits its standing and its outbox row.
Submit(u, v) ==
    /\ v > standing[u]
    /\ standing' = [standing EXCEPT ![u] = v]
    /\ pending' = pending \cup {[user |-> u, score |-> v]}
    /\ UNCHANGED <<index, losses, errors, reader, guard, rebuild>>

\* The fast path or a sweeper applies a row and marks it delivered.  These are two steps
\* of the code, a command and a commit, and are apart in IndexSync; here nothing comes
\* between them.
Deliver ==
    \E r \in pending :
        /\ Zadd(r)
        /\ pending' = pending \ {r}
        /\ UNCHANGED <<standing, losses, errors, reader, guard, rebuild>>

\* External: eviction, FLUSHALL, a restart without persistence, or the key's time
\* to live running out.
LoseKey ==
    /\ losses < MaxLosses
    /\ index # Nobody
    /\ losses' = losses + 1
    /\ index' = Nobody
    /\ reader' = [q \in Readers |-> [reader[q] EXCEPT !.settled = Nobody,
                                                         !.someone = FALSE]]
    /\ rebuild' = [i \in Rebuilders |-> [rebuild[i] EXCEPT !.snapshot = Nobody]]
    /\ UNCHANGED <<standing, pending, errors, guard>>

-----------------------------------------------------------------------------
(* leaderboard.get_top.                                                    *)

Advance(q, changes) == reader' = [reader EXCEPT ![q] = changes]

\* RedisRanking.size: the ZCARD of _resolve_repository.
AskSize(q) ==
    LET begun == [IdleRequest EXCEPT !.settled = IF losses = 0 THEN Settled ELSE Nobody,
                                       !.someone = standing # Nobody] IN
    /\ reader[q].phase \in {"idle", "answered", "failed"}
    /\ \/ /\ CallFails      \* served from Postgres, not considered cold
          /\ Advance(q, [begun EXCEPT !.phase = "read"])
       \/ /\ UNCHANGED errors
          /\ Advance(q, IF Size(index) > 0
                          THEN [begun EXCEPT !.phase = "read", !.source = "redis"]
                          ELSE [begun EXCEPT !.phase = "confirm"])
    /\ UNCHANGED <<stores, guard, rebuild>>

\* leaderboard._schedule_self_heal: one background rebuild per key and instance.
ScheduleSelfHeal(i) ==
    IF i \in guard
      THEN UNCHANGED <<guard, rebuild>>
      ELSE /\ guard' = guard \cup {i}
           /\ rebuild' = [rebuild EXCEPT ![i] = [IdleRebuild EXCEPT !.phase = "queued"]]

\* Mutant of Confirm: the index's zero is believed.
ConfirmNothing(q) ==
    /\ reader[q].phase = "confirm"
    /\ Advance(q, [reader[q] EXCEPT !.phase = "read", !.source = "redis"])
    /\ UNCHANGED <<stores, errors, guard, rebuild>>

\* The index said zero: PostgresRanking.size confirms it, or the key is cold and a
\* rebuild is scheduled while Postgres serves the request.
Confirm(q) ==
    /\ reader[q].phase = "confirm"
    /\ IF Size(standing) = 0
         THEN /\ Advance(q, [reader[q] EXCEPT !.phase = "read", !.source = "redis"])
              /\ UNCHANGED <<guard, rebuild>>
         ELSE /\ Advance(q, [reader[q] EXCEPT !.phase = "read", !.source = "postgres"])
              /\ ScheduleSelfHeal(Home[q])
    /\ UNCHANGED <<stores, errors>>

PageFrom(source) == IF source = "redis" THEN index ELSE standing

\* RedisRanking.top in one script, or PostgresRanking.top.  A Redis error here is
\* raised to the caller, which has no second choice left: the request ends as a
\* 500 (Requests models what the client sees).
ReadPage(q) ==
    /\ reader[q].phase = "read"
    /\ \/ /\ Advance(q, [reader[q] EXCEPT !.page = PageFrom(reader[q].source),
                                          !.phase = "answered", !.source = "postgres"])
          /\ UNCHANGED errors
       \/ /\ reader[q].source = "redis"
          /\ CallFails
          /\ Advance(q, [reader[q] EXCEPT !.phase = "failed"])
    /\ UNCHANGED <<stores, guard, rebuild>>

-----------------------------------------------------------------------------
(* rebuild.rebuild_index, for this board.                                  *)

\* POST /v1/admin/rebuild: no guard, any number at a time.
AskRebuild(a) ==
    /\ rebuild[a].phase = "idle"
    /\ rebuild' = [rebuild EXCEPT ![a] = [IdleRebuild EXCEPT !.phase = "queued"]]
    /\ UNCHANGED <<stores, errors, reader, guard>>

\* The server-side cursor opens: its snapshot is what the whole pass writes.
OpenCursor(i) ==
    /\ rebuild[i].phase = "queued"
    /\ rebuild' = [rebuild EXCEPT ![i] = [phase |-> "writing", todo |-> Rows(standing),
                                          snapshot |-> standing]]
    /\ UNCHANGED <<stores, errors, reader, guard>>

\* Mutants of WriteRow: rows already indexed are skipped (NX), GT is dropped.
WriteRowIfAbsent(i) ==
    \E r \in rebuild[i].todo :
        /\ index' = [index EXCEPT ![r.user] = IF @ = NoStanding THEN r.score ELSE @]
        /\ rebuild' = [rebuild EXCEPT ![i].todo = @ \ {r}]
        /\ UNCHANGED <<standing, pending, losses, errors, reader, guard>>

WriteRowWithoutGT(i) ==
    \E r \in rebuild[i].todo :
        /\ index' = [index EXCEPT ![r.user] = r.score]
        /\ rebuild' = [rebuild EXCEPT ![i].todo = @ \ {r}]
        /\ UNCHANGED <<standing, pending, losses, errors, reader, guard>>

\* One ZADD of a batch, into the live key.
WriteRow(i) ==
    \E r \in rebuild[i].todo :
        /\ Zadd(r)
        /\ rebuild' = [rebuild EXCEPT ![i].todo = @ \ {r}]
        /\ UNCHANGED <<standing, pending, losses, errors, reader, guard>>

\* Mutant of Finish: the pass ends by renaming a shadow key over the live one.
FinishByRename(i) ==
    /\ rebuild[i].phase = "writing"
    /\ rebuild[i].todo = {}
    /\ index' = rebuild[i].snapshot
    /\ rebuild' = [rebuild EXCEPT ![i] = IdleRebuild]
    /\ guard' = guard \ {i}
    /\ UNCHANGED <<standing, pending, losses, errors, reader>>

\* The pass is over: the finally clause releases the guard.
Finish(i) ==
    /\ rebuild[i].phase = "writing"
    /\ rebuild[i].todo = {}
    /\ rebuild' = [rebuild EXCEPT ![i] = IdleRebuild]
    /\ guard' = guard \ {i}
    /\ UNCHANGED <<stores, errors, reader>>

\* Mutant of Abort: no finally clause.
AbortLeavingGuard(i) ==
    /\ rebuild[i].phase # "idle"
    /\ CallFails
    /\ rebuild' = [rebuild EXCEPT ![i] = IdleRebuild]
    /\ UNCHANGED <<stores, reader, guard>>

\* The cursor or a batch fails: the board is reported as failed and not retried; what was
\* written stays.  Commands of the batch that are still in flight are dropped here; Redis
\* may yet run them, with GT, as it does what an earlier delivery left behind (IndexSync's
\* orphans), which can only raise a member to a score that was accepted.
Abort(i) ==
    /\ rebuild[i].phase # "idle"
    /\ CallFails
    /\ rebuild' = [rebuild EXCEPT ![i] = IdleRebuild]
    /\ guard' = guard \ {i}
    /\ UNCHANGED <<stores, reader>>

-----------------------------------------------------------------------------

Serve(q) == AskSize(q) \/ Confirm(q) \/ ReadPage(q)

Work(i) == OpenCursor(i) \/ WriteRow(i) \/ Finish(i)

Next ==
    \/ \E r \in Submissions : Submit(r.user, r.score)
    \/ Deliver
    \/ LoseKey
    \/ \E q \in Readers : Serve(q)
    \/ \E a \in Admins : AskRebuild(a)
    \/ \E i \in Rebuilders : Work(i)
    \/ \E i \in Rebuilders : Abort(i)

Spec == Init /\ [][Next]_vars

\* Requests keep coming and are served, background rebuilds run, and the outbox is
\* drained (IndexSync!Converges).
FairSpec ==
    /\ Spec
    /\ WF_vars(Deliver)
    /\ \A q \in Readers : WF_vars(Serve(q))
    /\ \A i \in Rebuilders : WF_vars(Work(i))

-----------------------------------------------------------------------------
(* Properties.                                                             *)

Answered(q) == reader[q].phase = "answered"

\* An empty page is the truth, unless the key was lost while the request ran ("a
\* zero from the index is never trusted on its own", leaderboard's module comment).
EmptyOnlyIfLost ==
    \A q \in Readers :
        Answered(q) /\ reader[q].page = Nobody => ~reader[q].someone

\* A rebuild covers its snapshot: whoever was on the board when its cursor opened
\* is in the index at that score or better, or is still to be written, unless the
\* key was lost again meanwhile.
RebuildCovers ==
    \A i \in Rebuilders :
        rebuild[i].phase = "writing" =>
            \A u \in Members(rebuild[i].snapshot) :
                \/ index[u] >= rebuild[i].snapshot[u]
                \/ [user |-> u, score |-> rebuild[i].snapshot[u]] \in rebuild[i].todo

\* A rebuild running beside submissions never takes a member back ("a submission
\* landing mid-rebuild keeps its value", rebuild's module comment).
IndexNeverRegresses ==
    [][losses' = losses => \A u \in Users : index'[u] >= index[u]]_vars

\* Whoever has a standing, with nothing pending for it, is on every page at that
\* score or better, from either store and through a rebuild, as long as Redis
\* loses nothing; IndexRecovers is about what follows a loss.
SettledIsServed ==
    \A q \in Readers :
        Answered(q) => \A u \in Users : reader[q].page[u] >= reader[q].settled[u]

\* A self-heal ends and releases its guard, so that the next cold read can start
\* another one.
GuardReleased == \A i \in Instances : i \in guard ~> i \notin guard

\* "An expired key rebuilds from Postgres on the next read" (rank_index.BOARD_TTL):
\* with reads going on and no more losses or errors, the index recovers.
IndexRecovers == <>[](index = standing)
=============================================================================
