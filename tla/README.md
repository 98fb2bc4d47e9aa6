# LeaderboardService: a TLA+ specification

A FastAPI service keeps arcade leaderboards. Postgres is the system of record;
Redis holds one sorted set per board as a derived index that answers rank
queries. Several stateless instances run side by side. This directory
specifies the parts of the service where order, concurrency and failure
matter, checks them with TLC on small instances, and proves the central ones
with TLAPS for every instance.

Paths below are relative to the repository; definitions are named as in the
modules, and `PROJECT.json` maps each of them to its source lines.

## 1. Inventory

| Component | Source | State it keeps | Operations |
|---|---|---|---|
| Durable write path | `app/services/scoring.py`, `app/repositories/entries.py`, `games.py` | `games`, `users`, `leaderboard_entries`, `redis_outbox` | one transaction per submission: check game, upsert user, upsert entries, read back, enqueue; register a game |
| Index synchronisation | `scoring._sync_index`, `app/repositories/outbox.py`, `rank_index.py`, `app/services/outbox_sweeper.py` | undelivered and delivered outbox rows; sorted sets and their times to live | fast path, claim, apply, settle, prune |
| Read path and self-heal | `app/services/leaderboard.py` | `_rebuilding`, the guard of each instance | choose a store, read a page or a user's surroundings, hydrate, schedule a rebuild |
| Index rebuild | `app/services/rebuild.py`, `app/api/v1/admin.py` | a streaming cursor and its position | copy every board of a game or of all games into the index |
| Ranking repositories | `app/repositories/ranking.py`, `redis_ranking.py`, `postgres_ranking.py` | none | `size`, `top`, `around`, twice |
| Period buckets | `app/domain/periods.py` | none | moment to buckets, validation, "is it in the future" |
| Sweeper loop | `outbox_sweeper.run_sweeper` | back-off, counters | pace, prune every 120 passes, survive failures |
| Health | `app/api/health.py` | none | two bounded probes, a verdict, the backlog |
| Pools and clients | `app/core/db.py` | connection pool | hand out connections |
| Request pipeline | `app/core/middleware.py`, `errors.py`, `app/api/` | none beyond a request | limits, request ids, admin key, exceptions to envelopes |
| Schemas, configuration, lifespan, migrations | `app/schemas/`, `app/core/config.py`, `app/main.py`, `migrations/` | settings | validation, start, stop |

How they interact: a request calls the write path, which commits and hands its
improved standings to the fast path; sweepers and the fast path share the
outbox table and the sorted sets; the read path asks Redis, then Postgres, and
starts rebuilds as background tasks of its own process; rebuilds and
synchronisation write the same live keys.

What is hard about them:

- submissions of one user interleave statement by statement, and commit in an
  order of their own; replies of commits are lost; requests fail anywhere;
- pipelines of several clients interleave command by command in Redis, are
  applied in part, and may be applied after their client has timed out;
- a sweeper holds row locks across a Redis call while the fast path of the
  same rows may want to settle them;
- Redis forgets keys (eviction, flush, expiry) between any two calls;
- a read is several statements or several calls, each with a view of its own;
- the tasks of a process wait for each other at the connection pool, at the
  user's row and at the rows of a sweep, while stores and process come and go;
- a request may be refused at eight places and fail at sixteen calls, in an
  order that is decided by a framework as much as by the code;
- a board's window begins and ends while requests for it are under way.

What makes each correct: a board is the greatest accepted score per user, all
boards of a submission change together, users and outbox agree with entries
(write path); every window has one board (periods); nothing accepted is forgotten by the index, nothing is shown
before it is accepted, nothing goes back, and the index converges
(synchronisation); a page never shows what Postgres has not accepted, is
has everything that is settled, and is not empty by accident (reads); a rebuild
covers its snapshot and takes nothing back (rebuild); both stores give the same
answer (ranking); every task ends and every outbox row is delivered and removed
(sweeper loop, pool, lifespan); a client and a load balancer are told the truth
(request pipeline, health). The hazards, each at its line and with the
properties that would catch it, are in `PROJECT.json` under `hazards`.

## 2. Modules

| Module | What it is |
|---|---|
| `Standings` | boards, users, scores, and the rule "strictly greater improves" |
| `BestScore` | abstract: what the write path promises. One variable, one action |
| `ServedBoard` | abstract: what both stores promise together. The index lags, never leads, never regresses |
| `WritePath` | a submission, one SQL statement per action, with row locks; implements `BestScore` |
| `IndexSync` | outbox, fast path, sweepers and Redis, one command per action; implements `ServedBoard` |
| `ColdReads` | reading and rebuilding one board whose key Redis may lose |
| `Ranking` | `top` and `around` of both repositories, beside submissions |
| `Periods` | which board a day's scores go to and which boards can be asked for, while days go by |
| `ServiceInstance` | the tasks of one process, its pool, outages, shutdown and restart |
| `Requests` | one request from the outermost middleware to its response, with every call that can fail |
| `StandingsProofs` | lemmas about `Standings` |
| `WritePathProofs` | theorems about `WritePath` |
| `IndexSyncProofs` | theorems about `IndexSync` |
| `ColdReadsProofs` | theorems about `ColdReads` |
| `RankingProofs` | theorems about `Ranking` |
| `PeriodsProofs` | theorems about `Periods` |
| `ServiceInstanceProofs` | theorems about `ServiceInstance` |
| `RequestsProofs` | theorems about `Requests` |
| `MCWritePath`, `MCIndexSync`, `MCColdReads`, `MCRanking`, `MCPeriods`, `MCServiceInstance`, `MCRequests` | instances for TLC |

How they fit together: `WritePath` and `IndexSync` implement the two abstract
modules, and what they establish is what the others start from. `IndexSync` and
`ColdReads` take from `WritePath` that a submission commits standings and outbox
rows in one step; `ColdReads` takes from `IndexSync` that a missing standing has
a pending row; `ServiceInstance` shows that the loop and the pool let a sweeper
do what `IndexSync!Fairness` assumes of it; `Requests` takes from all of them
where a call may fail and shows what becomes of that; `Periods` is where the
boards of a submission, a constant elsewhere, come from.

The definitions called "Mutant of ..." stand before the definition they vary:
each is a plausible bug, listed in `PROJECT.json`, that makes one property
fail. They are used by nothing else.

### WritePath

`phase[r]` is the statement request `r` runs next; `txn[r]` is what its
transaction has written so far and nobody else sees. `Commit` makes it visible
in one step, which is what a READ COMMITTED transaction does. A row lock is not
a variable: who holds one follows from the phases (`HoldsUserRow`,
`HoldsEntryRows`). `UpsertUser` waits for the users row, `UpsertEntries` for
the entry rows. `Fail` is an error of any statement, or the process stopping;
`Commit` may also succeed without its caller learning of it. `clock` counts
arrivals, since `submit_score` stamps a request before anything else. `Retire`
is external: no route of the service clears `is_active`. No fan-out is empty,
since `all_buckets_for` gives every submission a board in each period.

### IndexSync

`WritePath` shows that the durable part is one step, so it is one step here
(`Submit`), together with sending the fast path's pipeline. `wire[c]` is what
Redis has yet to run of client `c`'s pipeline. `Run` runs one command;
`GiveUp` is every way a call can end without success, and leaves what is on
the wire to `RunOrphan` (Redis runs it later, perhaps much later) or
`LoseOrphan`. `Claim`, `Deliver` and a `GiveUp` of a sweeper are the one
transaction of `sweep_once`; the rows it has locked are its `job`. `Settle` is
the second transaction of the fast path and waits for rows a sweeper has
locked. A row is identified by what it says, which `WritePath` justifies
(`OneRowPerImprovement`). `expiring` is the set of keys with a time to live;
only windowed boards get one and only from updates that name their period.
Redis loses no key in this module: there is no eviction, flush or expiry, and an
EXPIRE only puts its key into `expiring`. `NoStandingForgotten`,
`IndexNeverRegresses`, `DeliveredMeansShown`, `ServedBoardSpec` and `Converges`,
and the theorems about them, hold for as long as that is so. What becomes of a
lost key is in `ColdReads`.

### ColdReads

One board, because boards share nothing on this path but the Redis server. The
write side is what `IndexSync` shows of it: pending rows, and a delivery that
raises one member: ZADD and settling are one step, as nothing here tells them
apart (`IndexSync` has them separate). `LoseKey` empties the key. A request goes through `AskSize`
(the ZCARD), `Confirm` (the COUNT) and `ReadPage`. A page is the whole board;
the total that goes with it is in `Ranking`. `guard` holds the instances whose
`_rebuilding` set has the key. A rebuild opens a cursor, whose snapshot is what
it writes, member by member with GT into the live key (its EXPIREs are left out,
since the key may be lost at any time anyway); `Finish` and `Abort` release the
guard. Commands of an aborted rebuild that are still in flight are dropped, though
Redis may run them later: with GT they can only raise a member to a score that was
accepted, as `IndexSync` shows of the orphans it keeps. `settled`, `someone` and
`snapshot` only record history for the properties. `get_user_context` makes the same choice of store as `get_top`.

### Ranking

A user is the number of the identifier in byte-wise order. The scripts of
Redis are one step; the statements of Postgres are one step each, with
`Submit` in between. Redis' order is "ascending by score, then member, read
backwards"; Postgres' is `score DESC, user_id DESC`: that they agree is part of
what is checked. `InOrder` is what either makes of its order, a list. `Due` and
`Position` are the contract, said without sequences.

### Periods

A day is its ordinal, a bucket is the sequence of the numbers in its string, so
that "2026-W53" is `<<2026, 53>>`; the widths of the fields are fixed, which is
why comparing strings, as `is_future_bucket` does, is comparing these sequences
(`After`). Python's calendar is external and written from its definition:
`IsWeek` says by the weekday of January 1 which years have a 53rd week, while
`IsoCalendar` goes by the Thursday of a week; that both agree is part of what
`ServedExactly` checks. `Years` are there only for `YearOf` to search;
`YearsAssumption` says that they cover the days. A request looks at the clock when it takes the current
bucket (`AskCurrent`) and again when it checks it (`Check`), with `Midnight`
possibly in between. `wrote` is the day of the last submission, from which
`KeyAlive` counts a key's time to live.

### ServiceInstance

`at[t]` is where task `t` is: the submissions of one user, the sweeper loop, and
a rebuild. `Waiting` and `Holding` say which places wait for a connection of the
pool and which hold one; so the pool's state follows from `at`, as the user's
row lock does (`Lock`). `Settle` waits for rows in `claimed`, those of the
sweep that is under way. `PassDone` is the loop's bookkeeping after a sweep:
back-off, count of passes, prune. `MeetsOutage` and `PoolTimeout` are the
failures of Postgres and of the pool, and `Fails` is what a task does about
them. `Crash` and `Close` (the end of `lifespan`) lose what the process
remembers; `Start` needs no store. `AskRebuild` is an administrator or a cold read
that schedules a self-heal, which may happen while the instance drains; `Close`
does not wait for it. A row becomes `old` when its retention has
passed (`Age`), and a slot for a submission is free again when its row is
pruned. One user and one board are enough for contention: another user's row
would only be waited for less. `Blocked` is what a task can wait for; that the
waits close no circle is said as an invariant (`NoCircularWait`), next to the
liveness property that rests on it.

### Requests

A request is the combination of what can be wrong with it. `Checks` lists what
may refuse it, in order: body size, route, JSON, key, schema. `phase` is the
call the handler makes next; a call succeeds (`AskGame` to `ProbeOutbox`) or
fails (`Fail`), and `Survive` says which failures a handler has an answer to.
What the stores hold is chosen when they are asked. `Layers` is the order of
middlewares and exception handlers, from which it follows which responses get
a request id (`Traced`). `Retire` may happen at any moment. `GET /health` is a
route like the others: `ProbePostgres`, `ProbeRedis`, `Verdict`, `ProbeOutbox`.

## 3. Runs

Passing runs:

| Run | Bounds | What it shows |
|---|---|---|
| `indexsync_safety` | 3 boards, two fan-outs that share one (either side of midnight), 1 user, scores 1-2, 1 submitter, 2 sweepers, 1 fault | while Redis loses no key: types, never ahead, never forgotten, claims exclusive, delivered means shown, never back; keys expire if no call fails; refinement of `ServedBoard`; convergence |
| `writepath_safety` | 3 boards, two fan-outs, 1 user, 3 requests, scores 1-2, with and without a name | refinement of `BestScore`; durability; outbox, users and entries agree; what is reported is what is committed; scores and dates belong together |
| `writepath_live` | 2 users, 2 requests | every request is answered; a retired game stays retired |
| `coldreads_safety` | 2 users of whom one improves, scores 1-2, 1 reader whose self-heal runs beside an administrator's rebuild, 1 loss, 1 error | empty only after a loss, settled standings served, a rebuild covers its snapshot and takes nothing back, its guard is released |
| `ranking_safety` | 3 users, 3 scores, limits 1-2, offsets 0, 1, 3, windows 0-2 | both stores agree with the contract; ranks stay within totals |
| `periods` | every day around 2024-02-29, around the first week of 2025, which begins in 2024, and around the 53rd week of 2026, which ends in 2027; queries with real and impossible days and weeks, of each shape with each period | one board per window, in the order of time; the last window's keys are there; exactly the boards that can hold rows are served |
| `service_instance` | 2 submissions at a time, a sweeper and a rebuild over a pool of 2, a prune every 2 passes, back-off up to 2, 1 fault and any number of pool timeouts | the waits for pool, user row and swept rows close no circle; every task comes to its end; every row is delivered and pruned; the sweeper finds back to its pace |
| `requests` | every combination of 10 routes and of faults of the request, both stores fallible at every call, with and without Redis | a status tells what was stored; no store is called without the key; 500 and unhealthy have a cause; responses are traced |

One user is enough where users do not interact: the members of a sorted set,
and the rows of different users, are independent in `IndexSync` and
`WritePath` except for claims and locks, which two boards already contend for;
two scores give an improvement and an overtaking, three requests give one that
is overtaken twice or ties. `ColdReads` needs two users for a key that is
partly filled, and one of them to improve under a rebuild; `Ranking` needs three, so that a user has neighbours on both
sides, and three scores for a tie and an overtaking at once.
`MaxFaults`, `MaxLosses` and `MaxErrors` bound failures; they are in the guards
of the failing actions only, so a run with `n` failures contains all runs with
fewer. `Periods` covers a leap day and both ways in which an ISO year differs from the
calendar's, with two weeks or more on either side, so that each day is seen from
its own, the next and the one after the next window. In
`ServiceInstance` a pool of 2 is full with two of four tasks, so that each kind
can keep the others out; two is the smallest number of passes and of back-off
at which reaching and missing them differ; larger values only add states in
between. `Requests` is not bounded at all, but for one request at a time, which
share nothing. `CHECK_DEADLOCK FALSE` stands in the configurations of `IndexSync` and
`WritePath`, where everything comes to rest once every score is recorded.

Runs that show the program doing something else than its documentation says:

| Run | What happens | What is said |
|---|---|---|
| `indexsync_ttl` | the fast path fails, a sweeper creates a daily key, which never expires | `Spec.md:514` |
| `coldreads_recovers` | a delivery precedes the first read after a loss: the partial key is trusted for ever | `rank_index.py:31`, `README.md:272` |
| `ranking_around` | a submission between COUNT and window: another user is reported as the user | `api/v1/leaderboards.py:162` |
| `requests_outage` | a call to Postgres fails in a handler: a 500 `INTERNAL_ERROR` without `Retry-After` | `docs/errors.md:121`, `Spec.md:302` |

Further disagreements follow from the models without a run of their own:

- the users row is locked from its upsert to the commit, four round trips later
  (`WritePath!HoldsUserRow`), where `Spec.md:57` and `README.md:235` say that no
  lock is held across a round trip; `EveryRequestAnswered` shows that the waiting
  ends;
- of two equal scores, the one that arrived later may commit first and date the
  standing: the upsert compares scores, not arrivals (`entries.py:55` says the
  earlier achievement keeps its place). No property of a run says so, since it does
  not hold; `DatedByItsScore` is what does, that the date is that of some committed
  submission of that score;
- Redis failing after the ZCARD makes a read a 500, since only the ZCARD is
  guarded (`Requests!Survive`); `docs/errors.md:124` says that Redis being down
  on its own is not an error. `BlameFitsCause` does not forbid that; it shows that
  the page is the only call at which Redis alone can fail a request;
- a key lost between the ZCARD and the page is served as an empty page with a
  200 (`leaderboard.py:9` calls that the worst failure of the service);
  `EmptyOnlyIfLost` shows that this window is the only one;
- the rows and the total of `PostgresRanking.top` have a snapshot each
  (`postgres_ranking.py:81` says they share one); `RanksWithinTotal` is what
  does hold;
- a user who was last and improves between the first two statements of
  `PostgresRanking.around` is counted at a rank that has no row; `next()` raises
  and the request is a 500 (`postgres_ranking.py:121`; `step = "broken"` in
  `Ranking`), where `ranking.py:100` knows a rank or None only;
- the response to an unhandled exception is made outside `request_context` and
  has no `X-Request-ID` header (`Requests!Layers`); `middleware.py:67` says
  that every response carries it;
- the JSON of a body is parsed before the key is looked at, so that a malformed
  body without a key is a 400 (`Requests!Checks`), where `docs/errors.md` says of
  the key that it is checked before any validation; no store is called either way;
- a key header that is not ASCII makes `compare_digest` raise: a 500 instead of a
  401;
- while the pool is used up, the probe of `GET /health` cannot connect and the
  instance calls itself unhealthy, "Postgres is unreachable"
  (`ServiceInstance!PoolFull`, `Requests!ProbePostgres`);
- `periods.py:160` gives 2026-W53 as a week that is rejected; 2026 has 53 weeks,
  as line 106 says, and the code accepts it (`Periods!IsWeek`).

## 4. Fairness

- `IndexSync!Fairness`: each sweeper keeps claiming, its commands keep being
  run, and it keeps delivering, because `run_sweeper` loops for as long as the
  process lives and swallows every failure but cancellation. Nothing is assumed
  of submitters, who may stop anywhere, of orphans, or of failures.
- `WritePath!FairSpec`: a request's next statement runs when it can, since
  Postgres grants free row locks. Arrivals and failures are not required.
- `ColdReads!FairSpec`: requests are served, rebuild tasks run, the outbox is
  drained (which `IndexSync!Converges` is about). Losses, errors and
  submissions are not required.
- `ServiceInstance!Fairness`: strong fairness for the work of each task, because
  a connection or the user's row becomes free again and again rather than
  staying free, and both SQLAlchemy's pool and Postgres serve those who wait in
  turn: nobody is overtaken for ever. Stores come back, a process that is down or
  draining gets on, and days pass. Requests, faults and timeouts are not
  required, so that no progress rests on a timeout. `PaceRecovers` is about what
  follows the last fault: outages and the sweeper's timeouts are bounded, as the
  back-off stays raised under those that never end.

Weak fairness suffices everywhere else: an action that is fair stays enabled
until it is taken or until it no longer matters.

## 5. Proofs

All safety properties of the passing runs but `ServedExactly`, invariants, action
properties and both refinements, are proved for every value of the constants.
Each inductive invariant below was model-checked first, on the instance of its
run.

`WritePathProofs` proves, for every set of boards, fan-outs, users, scores, names
and requests, with and without an index:

- `TypeCorrect`; `Durability`, `NoStrayUsers`, `DatesBelong`, `OutboxTells`,
  `OneRowEach`: the invariants of `writepath_safety`;
- `ReportsAreCurrent`, `NamesStay`: its action properties;
- `ImplementsBestScore`: its refinement;
- `RetirementIsFinal`, the safety property of `writepath_live`.

It assumes what `Standings` and `WritePath` name: scores are natural numbers, fan-outs
are sets of boards, none of them empty, and the two marks for a missing name are no
names. An empty fan-out would write a user without a standing; `all_buckets_for`
gives none. The difficulty is time: a transaction computes at its commit what it has
found statements earlier, while others commit. `IInv` (theorem `Invariant`) says why
that is right. The row of a user is locked from the upsert to the commit, so no two
transactions of one user are past it (`UserRowsExclusive`); hence the name, the
improved boards, the scores read back and the outbox rows in `txn[r]` are still what
the tables would give (`Current`). With that each commit is one step of the tables,
which takes the larger of two scores on each board, and the other theorems are
inductions of their own over commits. `OneRowEach` rests on `OutboxTells`: a row that
is about to be written is above the member's standing, and no row already there is.

`IndexSyncProofs` proves, for every set of boards, users, scores, fan-outs,
submitters and sweepers, every batch size and every number of faults:

- `TypeCorrect`, `NeverAhead`, `NeverForgotten`, `ClaimsAreExclusive`: the
  invariants of `indexsync_safety`;
- `KeysGetALifetime`: the invariant about times to live;
- `NeverRegresses`, `DeliveryIsShown`: its action properties;
- `ImplementsServedBoard`: the refinement that it checks.

They are theorems about `IndexSync`, and so about a Redis that loses no key. The
assumptions are those that `Standings` and `IndexSync` name: scores are natural
numbers, fan-outs and windowed boards are boards, submitters are not
sweepers, a batch is not empty.

The argument rests on `IInv` (theorem `Invariant`). `NoStandingForgotten` is
not inductive alone: when a job is settled, its rows leave `pending`, so one
must know that each of them is already shown. `JobTracked` says so: a row of a
job is still on the client's wire or its score is reached in the index, which
holds because only running the command removes it from the wire. `IndexNeverAhead`
is not inductive alone either: a command may be run at any later time, so one must
know that every score on any wire, in any orphaned pipeline and in any pending
row was accepted. `WorkAccepted` says so, and it is preserved because standings
only grow. `IInv` was also model-checked. `ClaimsHold` needs an invariant of its
own: a sweeper's job is pending and disjoint from the others' because
`Unlocked` excludes what is claimed and `Settle` waits. `KeysGetALifetime` needs to
know what is still to come: as long as nothing failed, an undelivered row has a fast
path under way, whose EXPIRE is still on the wire or has been run, and so a key that a
sweeper was first to create will get its time to live (`ExpiresInTime`).

`ColdReadsProofs` proves all the safety properties of `coldreads_safety`, and `TypeOK`, which no
run repeats, for
every finite set of users, any scores that are natural numbers, any submissions,
requests, instances and administrators, and any number of losses and errors
(`TypeCorrect`, `NeverRegresses`, `Covers`, `SettledAreServed`, `EmptyIsTrue`).
It assumes what `ColdReads` names: besides those, that each request belongs to an
instance and that instances are not administrators. Users must be finite because
`ZCARD` and `COUNT` are cardinalities.

`RebuildCovers` is inductive given the types: a row leaves the rebuild's list only
by a `ZADD GT`, after which the index is at its score or above, and only a loss,
which empties the snapshot, lowers the index. The two properties of pages follow
from `ReadsInv`. `SettledIsServed` relates a page to the time its request began,
so the induction must follow the request: `Forwarded` says that without a loss
the index lacks only what is pending, hence what is settled when the request
begins is in both stores; `Backed` says that it stays there until the page is read,
whichever store was chosen, because neither store lowers a standing. For
`EmptyOnlyIfLost`, `Backed` also holds that a request about to read the index
has found it inhabited (its size was positive), or has found Postgres empty.
`ReadsInv` was also model-checked.

`RankingProofs` proves the invariants of `ranking_safety` (`TypeCorrect`,
`OneContract`, `TotalBounds`), for every set of users and scores, finite or not, any
readers, limits, offsets and windows; there is at least one limit and one offset, since
a page is asked for with both. The argument is counting. The position of a user is one more
than the number of users ahead, so the positions are 1 to the size of the board, each
taken once (`Positions`), and a list in the order of either store has the user with
position i as its i-th entry (`SortedByPosition`, `RedisOrder`, `PostgresOrder`). A
page is the same part of the same list (`Page`), around a rank as well as from an
offset. Boards are finite because they are in the beginning and a submission adds one
member: that is part of the invariant rather than an assumption. `Reading` says of
each read under way that it is within the board and, if no submission came in between,
what the contract asks for so far. `InOrder` is defined by CHOOSE instead of by TLC's
sort, which the provers do not know.

`PeriodsProofs` proves the invariants of `periods` (`WindowsAreWhole`, `LastWindowLives`)
for any days. It is a proof about the calendar: years, and the months of a year, follow
one another without a gap (`YearsFollow`, `NextYear`, `Months`), so a later day has a
later date (`DatesInOrder`); and since a week is numbered within the year of its
Thursday and Thursdays are seven days apart, two days have one weekly bucket just when
they have one Monday (`WeeksInOrder`). It assumes that `Years` cover the days and their
Thursdays.

`ServiceInstanceProofs` proves the invariants of `service_instance` for any number of
submissions, any size of the pool, any back-off and prune interval, and any number of
faults: `TypeCorrect` and `NoDeadlock`; and beyond those that the pool is never exceeded
(`PoolIsNotExceeded`) and that the rows of a sweep are its own (`SweepsOwnTheirRows`).
`NoCircularWait` is not inductive: a settling submission would wait for ever for a lock
that nobody is left to release. `IInv` adds that rows are locked only while the sweeper
is at its last call, and that they are undelivered. Then whoever is waited for, the
owner of the user's row or the sweeper, waits for nobody. Connections are counted over a
finite set of holders, which is part of the invariant: submissions may be any set.

`RequestsProofs` proves the properties of `requests`, whichever stores may fail
(`StatusIsTrue`, `KeyComesFirst`, `BlameIsJust`, `ResponsesAreTraced`), and `TypeOK`
(`TypeCorrect`), which no run repeats. TLC covers the whole of this model, which has
finitely many states; the proof adds the reason. Its invariant follows a request along
its route: it makes the calls of its route only (`OnItsWay`), with the key that the
route asks for (`KeyShown`), and its write is committed from its commit on and not
before (`WrittenAtCommit`); every answer is then justified by the call at which it is
given (`Justified`). `BlameFitsCause` speaks of the answering step, because the call at
which a 500 is given is part of its cause; `NextPreserves` shows it of every step
from the invariant.

Only model-checked:

- every liveness property (`Converges`, `EveryRequestAnswered`, `GuardReleased`,
  `EveryTaskEnds`, `RowsComeAndGo`, `PaceRecovers`): the prover does not handle fairness;
- `ServedExactly`: it says which buckets are the bucket of some day, over the years
  of the instance, and so depends on which years and questions the instance has;
- the runs that show a disagreement, which are counterexamples.

## 6. Not modelled

- Games as a dimension: boards of different games share only the users row,
  whose lock `WritePath` has.
- The loop of a rebuild over the boards of a game: boards fail one by one and
  share nothing, so `ColdReads` and `ServiceInstance` have one; the counts of the
  report are left out.
- `attempts` of an outbox row: it is incremented and read by nothing (its
  comment in `entities.py:214` says it drives back-off).
- What hydration attaches: it reads Postgres after the page and changes neither
  ranks nor scores. That it can fail is in `Requests`.
- Rates: a prune removes at most 10,000 rows every 120 passes, and a process that
  restarts more often than every 120 passes never prunes. `RowsComeAndGo` holds
  for a backlog below the limit and a process that is eventually left alone;
  `outbox.py:36` says that the table does not grow without bound.
- Redis losing keys while pipelines are under way: `IndexSync` has the pipelines and
  no loss, `ColdReads` the loss and one command at a time.
- The rounding of percentiles, the formats of names and identifiers, and the
  53-bit limit of scores, which the schema enforces on input. Buckets are taken
  as numbers: the regular expressions end in `$` and use `\d`, and so let a
  trailing newline and digits of other scripts pass.
- `supports_gt`, which only logs; the wording of errors, request ids, access logs;
  the validation of settings; logging; the migration, except that the tables begin
empty.

## 7. Plan

In this order:

1. `ServedExactly` for any years: which dates and which week numbers a calendar has,
   in particular that the years with a 53rd week by their first weekday (`IsWeek`)
   are those with a 53rd Thursday (`IsoCalendar`).
2. `RebuildGame`: the loop over boards, one failing, and the request that waits
   for its report.
