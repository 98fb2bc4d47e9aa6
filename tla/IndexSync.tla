------------------------------ MODULE IndexSync ------------------------------
(***************************************************************************)
(* Keeping the Redis rank index in step with Postgres (Spec.md D4).        *)
(*                                                                         *)
(* A submission commits its standings and one outbox row per improved      *)
(* board in one transaction (WritePath shows that this is one step), then  *)
(* tries to apply the updates to Redis itself and to mark its rows         *)
(* delivered: the fast path of scoring._sync_index.  Any number of         *)
(* sweepers drain what the fast path left behind: outbox_sweeper           *)
(* .sweep_once claims a batch with FOR UPDATE SKIP LOCKED, applies it and  *)
(* settles it in the same transaction.                                     *)
(*                                                                         *)
(* Both write through rank_index.apply_updates, a pipeline that is not a   *)
(* MULTI/EXEC: Redis runs its commands one at a time between those of      *)
(* other clients.  A client that times out or dies leaves the commands it  *)
(* has sent behind it, and Redis may still run any part of them, at any    *)
(* later time: these are the "orphans".                                    *)
(*                                                                         *)
(* Redis loses no key in this module: nothing is evicted, flushed or       *)
(* expired, and EXPIRE only records that the key has a time to live        *)
(* (expiring).  What is said of the index below, that it forgets nothing,  *)
(* never goes back, converges and implements ServedBoard, holds for as     *)
(* long as that is so; ColdReads is about a key that is lost.              *)
(*                                                                         *)
(* An outbox row is identified by what it says.  Two rows never say the    *)
(* same, because a row is written only for a strict improvement            *)
(* (WritePath!OneRowPerImprovement).                                       *)
(***************************************************************************)
EXTENDS Standings, FiniteSets

CONSTANTS
    Windowed,     \* the boards whose key must expire: daily and weekly ones
    Submitters,   \* request slots: each handles one submission after another
    Sweepers,     \* one per service instance
    BatchSize,    \* rows one sweep claims at most (outbox_sweeper.BATCH_SIZE)
    MaxFaults     \* bound on calls that end without success

ASSUME WindowedAssumption == Windowed \subseteq Boards
ASSUME ClientsAssumption == Submitters \cap Sweepers = {}
ASSUME BatchSizeAssumption == BatchSize \in Nat \ {0}
ASSUME MaxFaultsAssumption == MaxFaults \in Nat

VARIABLES
    standing,    \* Postgres: standing[b][u], leaderboard_entries.score
    pending,     \* Postgres: outbox rows with delivered_at IS NULL
    delivered,   \* Postgres: outbox rows with delivered_at set, not yet pruned
    index,       \* Redis: index[b][u], the score of member u of key b
    expiring,    \* Redis: the keys that have a time to live
    job,         \* job[c]: the rows client c is working on, {} when it is idle
    wire,        \* wire[c]: commands of c's pipeline Redis has not run yet
    orphans,     \* pipelines whose client is gone and that Redis may still run
    faults       \* calls that ended without success so far

durable == <<standing, pending, delivered>>
redis == <<index, expiring>>
vars == <<standing, pending, delivered, index, expiring, job, wire, orphans, faults>>

Clients == Submitters \cup Sweepers

Row == [board : Boards, user : Users, score : Scores]
Command == [op : {"ZADD", "EXPIRE"}, row : Row]

TypeOK ==
    /\ standing \in [Boards -> [Users -> Standing]]
    /\ index \in [Boards -> [Users -> Standing]]
    /\ pending \subseteq Row
    /\ delivered \subseteq Row
    /\ expiring \subseteq Boards
    /\ job \in [Clients -> SUBSET Row]
    /\ wire \in [Clients -> SUBSET Command]
    /\ orphans \subseteq SUBSET Command
    /\ faults \in 0..MaxFaults

Init ==
    /\ standing = Nobody
    /\ pending = {}
    /\ delivered = {}
    /\ index = Nobody
    /\ expiring = {}
    /\ job = [c \in Clients |-> {}]
    /\ wire = [c \in Clients |-> {}]
    /\ orphans = {}
    /\ faults = 0

-----------------------------------------------------------------------------
(* The pipeline of rank_index.apply_updates.                               *)

Zadds(rows) == {[op |-> "ZADD", row |-> r] : r \in rows}

\* Mutant of WithPeriod: the fast path sets no time to live either.
WithPeriodForgotten(rows) == Zadds(rows)

\* The fast path names each update's period, so a windowed board's ZADD is
\* followed by an EXPIRE.  (all_time has no entry in BOARD_TTL.)
WithPeriod(rows) ==
    Zadds(rows) \cup {[op |-> "EXPIRE", row |-> r] :
                         r \in {q \in rows : q.board \in Windowed}}

\* The sweeper's updates carry no period: IndexUpdate.ttl is None for them.
WithoutPeriod(rows) == Zadds(rows)

KeyExists(b) == \E u \in Users : index[b][u] # NoStanding

\* Redis runs an EXPIRE after the ZADD queued before it in its pipeline.  The
\* order of the updates among themselves is left open: it is the fan-out's
\* order on the fast path, enqueued_at for a sweeper.
Runnable(cmd, pipe) ==
    cmd.op = "EXPIRE" => [op |-> "ZADD", row |-> cmd.row] \notin pipe

\* Mutants of Execute: ZADD INCR for ZADD GT, and ZADD without GT.
ExecuteIncrementing(cmd) ==
    /\ cmd.op = "ZADD"
    /\ index' = [index EXCEPT ![cmd.row.board][cmd.row.user] = @ + cmd.row.score]
    /\ UNCHANGED expiring

ExecuteWithoutGT(cmd) ==
    /\ cmd.op = "ZADD"
    /\ index' = [index EXCEPT ![cmd.row.board][cmd.row.user] = cmd.row.score]
    /\ UNCHANGED expiring

\* ZADD key GT score member, or EXPIRE key (which does nothing to a key that
\* does not exist).
Execute(cmd) ==
    \/ /\ cmd.op = "ZADD"
       /\ index' = [index EXCEPT ![cmd.row.board][cmd.row.user] =
                                    Larger(@, cmd.row.score)]
       /\ UNCHANGED expiring
    \/ /\ cmd.op = "EXPIRE"
       /\ expiring' = IF KeyExists(cmd.row.board)
                        THEN expiring \cup {cmd.row.board} ELSE expiring
       /\ UNCHANGED index

\* Redis runs one command of a client that is still waiting for the reply.
Run(c) ==
    \E cmd \in wire[c] :
        /\ Runnable(cmd, wire[c])
        /\ Execute(cmd)
        /\ wire' = [wire EXCEPT ![c] = @ \ {cmd}]
        /\ UNCHANGED <<durable, job, orphans, faults>>

\* Redis runs a command whose client has given up, however late.
RunOrphan ==
    \E pipe \in orphans : \E cmd \in pipe :
        /\ Runnable(cmd, pipe)
        /\ Execute(cmd)
        /\ orphans' = ((orphans \ {pipe}) \cup {pipe \ {cmd}}) \ {{}}
        /\ UNCHANGED <<durable, job, wire, faults>>

\* A dead client's connection closes before Redis has read the rest.
LoseOrphan ==
    \E pipe \in orphans :
        /\ orphans' = orphans \ {pipe}
        /\ UNCHANGED <<durable, redis, job, wire, faults>>

-----------------------------------------------------------------------------
(* The outbox table.                                                       *)

\* outbox.mark_delivered: a row that was pruned meanwhile is not matched.
MarkDelivered(rows) ==
    /\ pending' = pending \ rows
    /\ delivered' = delivered \cup (pending \cap rows)

\* Mutant of Unlocked: FOR UPDATE SKIP LOCKED is dropped.
UnlockedOrNot == pending

\* Rows no transaction holds: what FOR UPDATE SKIP LOCKED can return.
Unlocked == pending \ UNION {job[w] : w \in Sweepers}

\* outbox.prune_delivered, run by a sweeper now and then: some delivered rows
\* are older than the retention, and a DELETE takes at most its limit of them.
Prune ==
    \E old \in SUBSET delivered :
        /\ old # {}
        /\ delivered' = delivered \ old
        /\ UNCHANGED <<standing, pending, redis, job, wire, orphans, faults>>

-----------------------------------------------------------------------------
(* scoring.submit_score.                                                   *)

\* Mutants of Submit: the index is written although the commit failed, and a
\* better score withdraws the rows of the scores it supersedes.
SubmitUncommitted(s, u, bs, v) ==
    LET rows == {[board |-> b, user |-> u, score |-> v] :
                    b \in Improved(standing, u, bs, v)} IN
    /\ job[s] = {}
    /\ rows # {}
    /\ job' = [job EXCEPT ![s] = rows]
    /\ wire' = [wire EXCEPT ![s] = WithPeriod(rows)]
    /\ UNCHANGED <<durable, redis, orphans, faults>>

SubmitSuperseding(s, u, bs, v) ==
    LET rows == {[board |-> b, user |-> u, score |-> v] :
                    b \in Improved(standing, u, bs, v)} IN
    /\ job[s] = {}
    /\ rows # {}
    /\ standing' = Raised(standing, u, bs, v)
    /\ pending' = {r \in pending : r.user # u} \cup rows
    /\ job' = [job EXCEPT ![s] = rows]
    /\ wire' = [wire EXCEPT ![s] = WithPeriod(rows)]
    /\ UNCHANGED <<delivered, redis, orphans, faults>>

\* The durable write commits, and the commands of the fast path are sent.  A
\* submission that improves nothing changes nothing, here or later.
Submit(s, u, bs, v) ==
    LET rows == {[board |-> b, user |-> u, score |-> v] :
                    b \in Improved(standing, u, bs, v)} IN
    /\ job[s] = {}
    /\ rows # {}
    /\ standing' = Raised(standing, u, bs, v)
    /\ pending' = pending \cup rows
    /\ job' = [job EXCEPT ![s] = rows]
    /\ wire' = [wire EXCEPT ![s] = WithPeriod(rows)]
    /\ UNCHANGED <<delivered, redis, orphans, faults>>

\* Every command was answered: mark the rows delivered, in a transaction of its
\* own.  Its UPDATE waits for rows a sweeper has locked.
Settle(s) ==
    /\ job[s] # {}
    /\ wire[s] = {}
    /\ \A w \in Sweepers : job[w] \cap job[s] = {}
    /\ MarkDelivered(job[s])
    /\ job' = [job EXCEPT ![s] = {}]
    /\ UNCHANGED <<standing, redis, wire, orphans, faults>>

-----------------------------------------------------------------------------
(* outbox_sweeper.sweep_once: claim, apply and settle, in one transaction. *)

\* The oldest unlocked rows, at most a batch.  Age is not kept, so which rows
\* are oldest is left open; how many are taken is not.
Claim(w) ==
    /\ job[w] = {}
    /\ \E rows \in SUBSET Unlocked :
        /\ rows # {}
        /\ \/ rows = Unlocked /\ Cardinality(rows) <= BatchSize
           \/ Cardinality(rows) = BatchSize
        /\ job' = [job EXCEPT ![w] = rows]
        /\ wire' = [wire EXCEPT ![w] = WithoutPeriod(rows)]
    /\ UNCHANGED <<durable, redis, orphans, faults>>

\* Every command was answered: the rows are marked delivered and the commit
\* releases them.
Deliver(w) ==
    /\ job[w] # {}
    /\ wire[w] = {}
    /\ MarkDelivered(job[w])
    /\ job' = [job EXCEPT ![w] = {}]
    /\ UNCHANGED <<standing, redis, wire, orphans, faults>>

-----------------------------------------------------------------------------
\* Mutant of GiveUp: rows are marked delivered although the call failed.
GiveUpDelivering(c) ==
    /\ job[c] # {}
    /\ faults < MaxFaults
    /\ faults' = faults + 1
    /\ MarkDelivered(job[c])
    /\ job' = [job EXCEPT ![c] = {}]
    /\ wire' = [wire EXCEPT ![c] = {}]
    /\ orphans' = (orphans \cup {wire[c]}) \ {{}}
    /\ UNCHANGED <<standing, redis>>

\* A client ends its work without success: Redis refused, timed out or lost the
\* reply (RankIndexUnavailableError), Postgres failed while the rows were being
\* settled, or the process was stopped.  On the fast path the rows simply stay
\* undelivered.  In a sweeper the transaction records the failure or rolls
\* back; either way the rows are released undelivered.  (The attempts counter
\* record_failure increments is read by nothing and is left out.)
GiveUp(c) ==
    /\ job[c] # {}
    /\ faults < MaxFaults
    /\ faults' = faults + 1
    /\ job' = [job EXCEPT ![c] = {}]
    /\ wire' = [wire EXCEPT ![c] = {}]
    /\ orphans' = (orphans \cup {wire[c]}) \ {{}}
    /\ UNCHANGED <<durable, redis>>

Next ==
    \/ \E s \in Submitters, u \in Users, bs \in Fanouts, v \in Scores : Submit(s, u, bs, v)
    \/ \E s \in Submitters : Settle(s)
    \/ \E w \in Sweepers : Claim(w)
    \/ \E w \in Sweepers : Deliver(w)
    \/ \E c \in Clients : Run(c)
    \/ \E c \in Clients : GiveUp(c)
    \/ RunOrphan
    \/ LoseOrphan
    \/ Prune

Spec == Init /\ [][Next]_vars

\* The sweeper task runs for as long as its process does, and Redis answers a
\* call that does not fail.  Nothing is assumed of the submitters: a request
\* may stop anywhere after its commit.
Fairness ==
    \A w \in Sweepers : /\ WF_vars(Claim(w))
                        /\ WF_vars(Run(w))
                        /\ WF_vars(Deliver(w))

FairSpec == Spec /\ Fairness

-----------------------------------------------------------------------------
(* Properties.                                                             *)

\* The index never shows a score above the user's standing in Postgres: it is
\* derived state, at worst stale (rank_index's module comment).  A late command
\* of a dead client, a replay by a sweeper and a fast path overtaken by a better
\* submission all write scores that Postgres has already accepted.
IndexNeverAhead == \A b \in Boards, u \in Users : index[b][u] <= standing[b][u]

\* No standing is forgotten: the index shows it, or an undelivered outbox row
\* still says it, whatever fails in between ("nothing can lose this score",
\* scoring.submit_score), as long as Redis keeps its keys.
NoStandingForgotten ==
    \A b \in Boards, u \in Users :
        \/ index[b][u] = standing[b][u]
        \/ [board |-> b, user |-> u, score |-> standing[b][u]] \in pending

\* A row is marked delivered only for work that landed: a row leaves the pending
\* set when the index already shows its score or a better one, and never before
\* (the comment in scoring._sync_index).
DeliveredMeansShown ==
    [][\A r \in pending :
          r \notin pending' => index'[r.board][r.user] >= r.score]_vars

\* Whatever the order in which commands of fast paths, sweepers and dead clients
\* arrive, no member of the index ever goes back to a lower score, unless its key is lost.
IndexNeverRegresses ==
    [][\A b \in Boards, u \in Users : index'[b][u] >= index[b][u]]_vars

\* A row a sweeper has claimed is its own until its transaction ends: no other
\* sweeper works on it, and no fast path settles it underneath ("each sweeper
\* locks the rows it claims", outbox._CLAIM_PENDING).
ClaimsHold ==
    \A w \in Sweepers :
        /\ job[w] \subseteq pending
        /\ \A x \in Sweepers \ {w} : job[w] \cap job[x] = {}

\* Nothing is under way between Postgres and Redis.
Quiet ==
    /\ pending = {}
    /\ orphans = {}
    /\ \A c \in Clients : job[c] = {}

\* Without a failed call, every windowed key that exists has a time to live once
\* the pipelines have drained, even when a sweeper was first to create it.
KeysExpireUnlessFaulted ==
    Quiet /\ faults = 0 => \A b \in Windowed : KeyExists(b) => b \in expiring

\* "Redis memory is bounded: daily keys get an 8-day TTL" (Spec.md 8), and a
\* sweeper's update needs none because "the key's lifetime was already set by
\* the original write" (tests/unit/test_rank_index_policy.py).
KeysExpire == Quiet => \A b \in Windowed : KeyExists(b) => b \in expiring

\* The index converges to Postgres and the backlog drains, as long as sweepers
\* run, calls do not fail for ever and Redis keeps its keys.
Converges == <>[](index = standing /\ pending = {})

\* What the two stores promise together (ServedBoard): every step of submitters,
\* sweepers and Redis is an accepted submission, or one member of the index
\* catching up with a score its user has reached, or neither.  Losing a key is no such
\* step, and no step of this module.
Served == INSTANCE ServedBoard WITH best <- standing, shown <- index
ServedBoardSpec == Served!ServedSpec
-----------------------------------------------------------------------------
(* The inductive invariant behind the safety properties.                   *)

Accepted(r) == r.score <= standing[r.board][r.user]

\* Every score on its way to the index has been accepted by Postgres.
WorkAccepted ==
    /\ \A r \in pending : Accepted(r)
    /\ \A c \in Clients : \A m \in wire[c] : Accepted(m.row)
    /\ \A pipe \in orphans : \A m \in pipe : Accepted(m.row)

\* A row a client is working on is still to be sent to Redis, or is shown.
JobTracked ==
    \A c \in Clients : \A r \in job[c] :
        \/ [op |-> "ZADD", row |-> r] \in wire[c]
        \/ index[r.board][r.user] >= r.score

IInv ==
    /\ TypeOK
    /\ IndexNeverAhead
    /\ WorkAccepted
    /\ JobTracked
    /\ NoStandingForgotten
=============================================================================
