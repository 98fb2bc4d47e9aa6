--------------------------- MODULE ServiceInstance ---------------------------
(***************************************************************************)
(* The tasks of one service process and what they share: the connection    *)
(* pool, the user's row lock, the rows a sweep has locked, and a Postgres  *)
(* and a Redis that go away and come back, under a process that is shut    *)
(* down, or dies, and is started again.                                    *)
(*                                                                         *)
(* The tasks are submissions of one user (scoring.submit_score), the loop  *)
(* of the outbox sweeper (outbox_sweeper.run_sweeper) and a rebuild of one *)
(* board, asked for or scheduled by a read.  What they write to the boards *)
(* is in WritePath, IndexSync and ColdReads; here a submission leaves one  *)
(* outbox row.  Reads and health probes take one connection at a time for  *)
(* one statement and are left out.                                         *)
(***************************************************************************)
EXTENDS Integers, FiniteSets

CONSTANTS
    Submitters,     \* request slots, each with one outbox row at a time
    PoolSize,       \* db_pool_size + db_max_overflow
    PruneEvery,     \* PRUNE_EVERY_N_PASSES
    MaxBackoff,     \* MAX_BACKOFF_MULTIPLIER
    MaxFaults       \* bound on outages, shutdowns, crashes and the sweeper's pool timeouts

ASSUME PoolAssumption == PoolSize \in Nat \ {0}
ASSUME SweeperAssumption == PruneEvery \in Nat \ {0} /\ MaxBackoff \in Nat \ {0}
ASSUME FaultsAssumption == MaxFaults \in Nat
ASSUME TasksAssumption == Submitters \cap {"sweeper", "rebuild"} = {}

VARIABLES
    life,       \* the process
    up,         \* the stores that can be reached
    faults,
    at,         \* at[t]: where task t is
    outbox,     \* Postgres: outbox[s], the row of submission s
    claimed,    \* Postgres: the rows the sweeper's transaction has locked
    backoff,    \* run_sweeper's
    passes      \* stats.passes modulo PruneEvery

vars == <<life, up, faults, at, outbox, claimed, backoff, passes>>
sweep == <<claimed, backoff, passes>>
world == <<life, up, faults>>

Tasks == Submitters \cup {"sweeper", "rebuild"}

\* A task waits for a connection of the pool.
Waiting == {"connect", "settle connect", "sweep connect", "prune connect",
            "list connect", "stream connect"}

\* Mutant of Holding: _sync_index is called inside the transaction of the write.
HoldingWhileSettling == {"lock", "commit", "index", "settle connect", "settle", "claim", "apply",
                         "prune", "list", "stream"}

\* It holds one.
Holding == {"lock", "commit", "settle", "claim", "apply", "prune", "list", "stream"}

Granted(phase) ==
    CASE phase = "connect" -> "lock"
      [] phase = "settle connect" -> "settle"
      [] phase = "sweep connect" -> "claim"
      [] phase = "prune connect" -> "prune"
      [] phase = "list connect" -> "list"
      [] phase = "stream connect" -> "stream"

TypeOK ==
    /\ life \in {"serving", "draining", "down"}
    /\ up \subseteq {"postgres", "redis"}
    /\ faults \in 0..MaxFaults
    /\ at \in [Tasks -> {"rest", "index"} \cup Waiting \cup Holding]
    /\ outbox \in [Submitters -> {"none", "pending", "delivered", "old"}]
    /\ claimed \subseteq Submitters
    /\ backoff \in 1..MaxBackoff
    /\ passes \in 0..PruneEvery - 1

Init ==
    /\ life = "serving"
    /\ up = {"postgres", "redis"}
    /\ faults = 0
    /\ at = [t \in Tasks |-> "rest"]
    /\ outbox = [s \in Submitters |-> "none"]
    /\ claimed = {}
    /\ backoff = 1
    /\ passes = 0

Go(t, phase) == at' = [at EXCEPT ![t] = phase]

Fault == faults < MaxFaults /\ faults' = faults + 1

Reachable(store) == store \in up

-----------------------------------------------------------------------------
(* The pool (db.create_engine).                                            *)

Holders == {t \in Tasks : at[t] \in Holding}

PoolFull == Cardinality(Holders) >= PoolSize

\* External: a free connection goes to any task that waits, or it is opened.
Acquire(t) ==
    /\ at[t] \in Waiting
    /\ ~PoolFull
    /\ Reachable("postgres")
    /\ Go(t, Granted(at[t]))
    /\ UNCHANGED <<world, outbox, sweep>>

\* Mutant of Doubled: no ceiling.
DoubledForEver(n) == n * 2

Doubled(n) == IF n * 2 < MaxBackoff THEN n * 2 ELSE MaxBackoff

\* What a task does about an exception from Postgres or the pool, its connection given
\* back and its transaction rolled back: a submission answers 500, or, when it was
\* settling, 200; a rebuild gives up or goes to its next board; the sweeper goes
\* back to sleep, for longer.
Fails(t) ==
    /\ Go(t, "rest")
    /\ IF t = "sweeper"
         THEN claimed' = {} /\ backoff' = Doubled(backoff)
         ELSE UNCHANGED <<claimed, backoff>>
    /\ UNCHANGED <<outbox, passes>>

\* Postgres is away: a statement fails, and so does the attempt to open a connection.
MeetsOutage(t) ==
    /\ ~Reachable("postgres")
    /\ at[t] \in Holding \/ (at[t] \in Waiting /\ ~PoolFull)
    /\ Fails(t)
    /\ UNCHANGED world

\* The pool's timeout, which may come at any time; the sweeper's are bounded.
PoolTimeout(t) ==
    /\ at[t] \in Waiting
    /\ PoolFull
    /\ IF t = "sweeper" THEN Fault ELSE UNCHANGED faults
    /\ Fails(t)
    /\ UNCHANGED <<life, up>>

-----------------------------------------------------------------------------
(* scoring.submit_score.                                                   *)

Submit(s) ==
    /\ life = "serving"
    /\ at[s] = "rest"
    /\ outbox[s] = "none"
    /\ Go(s, "connect")
    /\ UNCHANGED <<world, outbox, sweep>>

\* The upsert of the user's row waits for the transaction that holds it.
Lock(s) ==
    /\ at[s] = "lock"
    /\ Reachable("postgres")
    /\ \A r \in Submitters : at[r] # "commit"
    /\ Go(s, "commit")
    /\ UNCHANGED <<world, outbox, sweep>>

Commit(s) ==
    /\ at[s] = "commit"
    /\ Reachable("postgres")
    /\ outbox' = [outbox EXCEPT ![s] = "pending"]
    /\ Go(s, "index")
    /\ UNCHANGED <<world, sweep>>

\* The fast path, without a connection: rank_index.apply_updates.
Index(s) ==
    /\ at[s] = "index"
    /\ Go(s, IF Reachable("redis") THEN "settle connect" ELSE "rest")
    /\ UNCHANGED <<world, outbox, sweep>>

\* mark_delivered, in a transaction of its own; it waits for a row a sweep has locked.
Settle(s) ==
    /\ at[s] = "settle"
    /\ Reachable("postgres")
    /\ s \notin claimed
    /\ outbox' = [outbox EXCEPT ![s] = IF @ = "pending" THEN "delivered" ELSE @]
    /\ Go(s, "rest")
    /\ UNCHANGED <<world, sweep>>

-----------------------------------------------------------------------------
(* outbox_sweeper.run_sweeper.                                             *)

\* The sleep of interval_s * backoff is over.
Wake ==
    /\ life # "down"
    /\ at["sweeper"] = "rest"
    /\ Go("sweeper", "sweep connect")
    /\ UNCHANGED <<world, outbox, sweep>>

\* Mutant of PassDone: only a pass that delivered rows counts.
PassDoneIfDelivered(rows, failed) ==
    LET n == IF rows # {} /\ ~failed THEN (passes + 1) % PruneEvery ELSE passes IN
    /\ passes' = n
    /\ backoff' = IF failed THEN Doubled(backoff) ELSE 1
    /\ Go("sweeper", IF n = 0 /\ rows # {} THEN "prune connect" ELSE "rest")

\* Mutant of PassDone: a pass that succeeds leaves the back-off as it is.
PassDoneKeepingBackoff(rows, failed) ==
    LET n == (passes + 1) % PruneEvery IN
    /\ passes' = n
    /\ backoff' = IF failed THEN Doubled(backoff) ELSE backoff
    /\ Go("sweeper", IF n = 0 THEN "prune connect" ELSE "rest")

\* sweep_once returned: count the pass, set the back-off, prune now and then.
PassDone(rows, failed) ==
    LET n == (passes + 1) % PruneEvery IN
    /\ passes' = n
    /\ backoff' = IF failed THEN Doubled(backoff) ELSE 1
    /\ Go("sweeper", IF n = 0 THEN "prune connect" ELSE "rest")

\* claim_pending: every row no settling submission holds, which none does for longer
\* than a step.
Claim ==
    LET rows == {s \in Submitters : outbox[s] = "pending"} IN
    /\ at["sweeper"] = "claim"
    /\ Reachable("postgres")
    /\ IF rows = {}
         THEN PassDone(rows, FALSE) /\ UNCHANGED claimed
         ELSE /\ claimed' = rows
              /\ Go("sweeper", "apply")
              /\ UNCHANGED <<passes, backoff>>
    /\ UNCHANGED <<world, outbox>>

\* Redis takes the batch, or fails and the attempt is recorded; the commit releases the
\* rows either way.
Apply ==
    /\ at["sweeper"] = "apply"
    /\ Reachable("postgres")
    /\ outbox' = [s \in Submitters |-> IF s \in claimed /\ Reachable("redis")
                                         THEN "delivered" ELSE outbox[s]]
    /\ claimed' = {}
    /\ PassDone(claimed, ~Reachable("redis"))
    /\ UNCHANGED <<world>>

\* prune_delivered, far from its limit of rows.
Prune ==
    /\ at["sweeper"] = "prune"
    /\ Reachable("postgres")
    /\ outbox' = [s \in Submitters |-> IF outbox[s] = "old" THEN "none" ELSE outbox[s]]
    /\ Go("sweeper", "rest")
    /\ UNCHANGED <<world, sweep>>

\* DELIVERED_RETENTION_HOURS pass.
Age ==
    /\ \E s \in Submitters : outbox[s] = "delivered"
    /\ outbox' = [s \in Submitters |-> IF outbox[s] = "delivered" THEN "old" ELSE outbox[s]]
    /\ UNCHANGED <<world, at, sweep>>

-----------------------------------------------------------------------------
(* rebuild.rebuild_index, of one board.                                    *)

\* An administrator asks for it, or a read that found the index cold schedules it, which
\* may be one that was let in before the instance began to drain.
AskRebuild ==
    /\ life # "down"
    /\ at["rebuild"] = "rest"
    /\ Go("rebuild", "list connect")
    /\ UNCHANGED <<world, outbox, sweep>>

\* list_boards; its connection goes back before the one of the cursor is asked for.
ListBoards ==
    /\ at["rebuild"] = "list"
    /\ Reachable("postgres")
    /\ Go("rebuild", "stream connect")
    /\ UNCHANGED <<world, outbox, sweep>>

\* The cursor is read to its end, with its connection held across the calls to Redis, or
\* one of them fails the board.
Stream ==
    /\ at["rebuild"] = "stream"
    /\ Reachable("postgres")
    /\ Go("rebuild", "rest")
    /\ UNCHANGED <<world, outbox, sweep>>

-----------------------------------------------------------------------------
(* The process and the stores.                                             *)

Outage(store) ==
    /\ Fault
    /\ Reachable(store)
    /\ up' = up \ {store}
    /\ UNCHANGED <<life, at, outbox, sweep>>

Recover(store) ==
    /\ ~Reachable(store)
    /\ up' = up \cup {store}
    /\ UNCHANGED <<life, faults, at, outbox, sweep>>

\* The process ends: its transactions are rolled back, its counters are lost.
End ==
    /\ life' = "down"
    /\ at' = [t \in Tasks |-> "rest"]
    /\ claimed' = {}
    /\ backoff' = 1
    /\ passes' = 0
    /\ UNCHANGED <<up, outbox>>

Crash == life # "down" /\ Fault /\ End

\* External: the server takes no more requests and lets those it has finish.
Drain ==
    /\ life = "serving"
    /\ Fault
    /\ life' = "draining"
    /\ UNCHANGED <<up, at, outbox, sweep>>

\* The end of main.lifespan: the sweeper is cancelled wherever it is, and awaited; then
\* the clients are closed.  A self-heal is not waited for.
Close ==
    /\ life = "draining"
    /\ \A s \in Submitters : at[s] = "rest"
    /\ End
    /\ UNCHANGED faults

\* The beginning of main.lifespan: no store needs to be reachable.
Start ==
    /\ life = "down"
    /\ life' = "serving"
    /\ UNCHANGED <<up, faults, at, outbox, sweep>>

-----------------------------------------------------------------------------

Work(s) == Lock(s) \/ Commit(s) \/ Index(s) \/ Settle(s)
Sweep == Wake \/ Claim \/ Apply \/ Prune
Rebuild == ListBoards \/ Stream
Connected(t) == Acquire(t) \/ MeetsOutage(t)

Next ==
    \/ \E s \in Submitters : Submit(s) \/ Work(s)
    \/ Sweep
    \/ Age
    \/ AskRebuild
    \/ Rebuild
    \/ \E t \in Tasks : Connected(t) \/ PoolTimeout(t)
    \/ \E store \in {"postgres", "redis"} : Outage(store) \/ Recover(store)
    \/ Crash
    \/ Drain
    \/ Close
    \/ Start

Spec == Init /\ [][Next]_vars

\* Tasks go on, stores come back, a stopped process is started again and days pass.
\* A task is not overtaken for ever, at the pool or at the row lock: both
\* serve those who wait in turn.  Nothing is assumed of new requests, and no
\* timeout is needed for progress.
Fairness ==
    /\ \A s \in Submitters : SF_vars(Work(s) \/ Connected(s))
    /\ SF_vars(Sweep \/ Connected("sweeper"))
    /\ SF_vars(Rebuild \/ Connected("rebuild"))
    /\ WF_vars(\E store \in {"postgres", "redis"} : Recover(store))
    /\ WF_vars(Close \/ Start)
    /\ WF_vars(Age)

FairSpec == Spec /\ Fairness

-----------------------------------------------------------------------------
(* Properties.                                                             *)

\* What keeps task t where it is, while both stores are there.
Blocked(t) ==
    \/ at[t] \in Waiting /\ PoolFull
    \/ at[t] = "lock" /\ \E r \in Submitters : at[r] = "commit"
    \/ at[t] = "settle" /\ t \in claimed

\* Whenever connections are out, one of those who hold them can go on: the waits for the
\* pool, for the user's row and for the rows of a sweep never close a circle, because
\* nobody asks for a connection with one in hand and no row lock survives its
\* transaction, whether that commits, fails, times out, is cancelled or dies.
NoCircularWait == Holders # {} => \E t \in Holders : ~Blocked(t)

\* No task waits for ever, for a connection, for the user's row or for the rows of a
\* sweep, although all of them share one pool and none of the timeouts is relied
\* on: each comes back to rest.
EveryTaskEnds == \A t \in Tasks : []<>(at[t] = "rest")

\* An outbox row, once committed, is delivered and, its retention over, removed, through
\* outages, failed passes and restarts: the loop survives every exception, and
\* its back-off and its count of passes never stop it from working or pruning.
RowsComeAndGo == \A s \in Submitters : outbox[s] = "pending" ~> outbox[s] = "none"

\* Once the faults are over, the sweeper finds back to its normal pace and keeps it,
\* whether its passes failed for Redis, for Postgres or for the pool: one pass that
\* works resets the back-off, also one that finds nothing to deliver.
PaceRecovers == <>[](backoff = 1)
=============================================================================
