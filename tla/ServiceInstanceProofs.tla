----------------------- MODULE ServiceInstanceProofs -----------------------
(***************************************************************************)
(* What ServiceInstance guarantees for any number of submissions, any size *)
(* of pool and of back-off, and any number of faults: the pool is never    *)
(* exceeded, a sweep's rows are its own, and no circle of waits closes.    *)
(***************************************************************************)
EXTENDS ServiceInstance, FiniteSetTheorems, TLAPS

Phases == {"rest", "index"} \cup Waiting \cup Holding

-----------------------------------------------------------------------------
(* The inductive invariant.                                                *)

\* Rows are locked only by a sweep that is about to apply them, and are undelivered.
SweepLocks == claimed # {} => at["sweeper"] = "apply"

SweptPending == \A s \in claimed : outbox[s] = "pending"

\* Connections given out are counted, and are no more than there are.
WithinPool == IsFiniteSet(Holders) /\ Cardinality(Holders) <= PoolSize

IInv == TypeOK /\ SweepLocks /\ SweptPending /\ WithinPool

-----------------------------------------------------------------------------
(* The pool.                                                               *)

LEMMA NobodyHolds ==
  ASSUME at \in [Tasks -> Phases], \A t \in Tasks : at[t] = "rest"
  PROVE  WithinPool
<1>1. Holders = {}
  BY DEF Holders, Holding
<1> QED
  BY <1>1, FS_EmptySet, PoolAssumption DEF WithinPool

\* A step that gives no connection out keeps the pool within its bounds.
LEMMA NoneGivenOut ==
  ASSUME WithinPool,
         \A t \in Tasks : at'[t] \in Holding => at[t] \in Holding
  PROVE  WithinPool'
<1>1. Holders' \subseteq Holders
  BY DEF Holders
<1>2. /\ IsFiniteSet(Holders')
      /\ Cardinality(Holders') <= Cardinality(Holders)
  BY <1>1, FS_Subset DEF WithinPool
<1>3. /\ Cardinality(Holders') \in Int
      /\ Cardinality(Holders) \in Int
  BY <1>2, FS_CardinalityType DEF WithinPool
<1> QED
  BY <1>2, <1>3, PoolAssumption DEF WithinPool

\* A task that moves on with what it has: one that ends with a connection had one.
LEMMA Moved ==
  ASSUME TypeOK, WithinPool, NEW t \in Tasks, NEW phase \in Phases, Go(t, phase),
         phase \in Holding => at[t] \in Holding
  PROVE  WithinPool' /\ at' \in [Tasks -> Phases]
<1>1. at \in [Tasks -> Phases]
  BY DEF TypeOK, Phases
<1>2. at' = [at EXCEPT ![t] = phase]
  BY DEF Go
<1>3. \A u \in Tasks : at'[u] \in Holding => at[u] \in Holding
  BY <1>1, <1>2
<1> QED
  BY <1>1, <1>2, <1>3, NoneGivenOut

\* The one step that gives a connection out finds one free.
LEMMA GivenOut ==
  ASSUME TypeOK, WithinPool, NEW t \in Tasks, Acquire(t)
  PROVE  WithinPool' /\ at' \in [Tasks -> Phases]
<1>1. at \in [Tasks -> Phases]
  BY DEF TypeOK, Phases
<1>2. /\ at[t] \in Waiting
      /\ ~PoolFull
      /\ at' = [at EXCEPT ![t] = Granted(at[t])]
  BY DEF Acquire, Go
<1>3. Granted(at[t]) \in Holding
  BY <1>2 DEF Granted, Waiting, Holding
<1>4. t \notin Holders
  BY <1>2 DEF Holders, Waiting, Holding
<1>5. Holders' = Holders \cup {t}
  BY <1>1, <1>2, <1>3 DEF Holders
<1>6. /\ IsFiniteSet(Holders')
      /\ Cardinality(Holders') = Cardinality(Holders) + 1
  BY <1>4, <1>5, FS_AddElement DEF WithinPool
<1>7. Cardinality(Holders) \in Nat
  BY FS_CardinalityType DEF WithinPool
<1>8. Cardinality(Holders') <= PoolSize
  BY <1>2, <1>6, <1>7, PoolAssumption DEF PoolFull
<1>9. Granted(at[t]) \in Phases
  BY <1>3 DEF Phases
<1> QED
  BY <1>1, <1>2, <1>6, <1>8, <1>9 DEF WithinPool

-----------------------------------------------------------------------------
(* The sweeper's counters.                                                 *)

LEMMA BackoffBounded ==
  ASSUME NEW n \in 1..MaxBackoff
  PROVE  Doubled(n) \in 1..MaxBackoff
BY SweeperAssumption DEF Doubled

LEMMA PassesBounded ==
  ASSUME NEW n \in 0..PruneEvery - 1
  PROVE  (n + 1) % PruneEvery \in 0..PruneEvery - 1
BY SweeperAssumption

\* The end of a pass: its counters in their ranges, its connection given back.
LEMMA PassEnds ==
  ASSUME TypeOK, WithinPool, NEW rows, NEW failed \in BOOLEAN, PassDone(rows, failed)
  PROVE  /\ backoff' \in 1..MaxBackoff
         /\ passes' \in 0..PruneEvery - 1
         /\ at' \in [Tasks -> Phases]
         /\ WithinPool'
<1>1. backoff \in 1..MaxBackoff /\ passes \in 0..PruneEvery - 1
  BY DEF TypeOK
<1>2. backoff' \in 1..MaxBackoff
  <2>1. backoff' = Doubled(backoff) \/ backoff' = 1
    BY DEF PassDone
  <2>2. 1 \in 1..MaxBackoff
    BY SweeperAssumption
  <2>3. Doubled(backoff) \in 1..MaxBackoff
    BY <1>1, BackoffBounded
  <2> QED
    BY <2>1, <2>2, <2>3
<1>3. passes' \in 0..PruneEvery - 1
  BY <1>1, PassesBounded DEF PassDone
<1>4. PICK phase \in {"prune connect", "rest"} : Go("sweeper", phase)
  BY DEF PassDone
<1>5. phase \in Phases /\ phase \notin Holding
  BY DEF Phases, Waiting, Holding
<1>6. "sweeper" \in Tasks
  BY DEF Tasks
<1>7. at' \in [Tasks -> Phases] /\ WithinPool'
  BY <1>4, <1>5, <1>6, Moved
<1> QED
  BY <1>2, <1>3, <1>7

-----------------------------------------------------------------------------
(* Every step preserves the invariant.                                     *)

\* A task other than the sweeper moves, and the rows of a sweep stay as they are.
LEMMA OthersMove ==
  ASSUME IInv, NEW t \in Tasks, t # "sweeper", NEW phase \in Phases, Go(t, phase),
         phase \in Holding => at[t] \in Holding,
         UNCHANGED <<world, sweep>>,
         outbox' \in [Submitters -> {"none", "pending", "delivered", "old"}],
         \A s \in claimed : outbox'[s] = outbox[s]
  PROVE  IInv'
<1>1. WithinPool' /\ at' \in [Tasks -> Phases]
  BY Moved DEF IInv
<1>2. TypeOK'
  BY <1>1 DEF IInv, TypeOK, Phases, world, sweep
<1>3. at'["sweeper"] = at["sweeper"]
  BY DEF Go, Tasks, IInv, TypeOK
<1>4. SweepLocks'
  BY <1>3 DEF IInv, SweepLocks, sweep
<1>5. SweptPending'
  BY DEF IInv, SweptPending, sweep
<1> QED
  BY <1>1, <1>2, <1>4, <1>5 DEF IInv

\* The sweeper moves outside its transaction.
LEMMA SweeperMoves ==
  ASSUME IInv, NEW phase \in Phases, Go("sweeper", phase),
         phase \in Holding => at["sweeper"] \in Holding,
         at["sweeper"] # "apply",
         UNCHANGED <<world, sweep>>,
         outbox' \in [Submitters -> {"none", "pending", "delivered", "old"}]
  PROVE  IInv'
<1>1. "sweeper" \in Tasks
  BY DEF Tasks
<1>2. WithinPool' /\ at' \in [Tasks -> Phases]
  BY <1>1, Moved DEF IInv
<1>3. TypeOK'
  BY <1>2 DEF IInv, TypeOK, Phases, world, sweep
<1>4. claimed = {} /\ claimed' = {}
  BY DEF IInv, SweepLocks, sweep
<1> QED
  BY <1>2, <1>3, <1>4 DEF IInv, SweepLocks, SweptPending

LEMMA AcquirePreserves ==
  ASSUME IInv, NEW t \in Tasks, Acquire(t)
  PROVE  IInv'
<1>1. WithinPool' /\ at' \in [Tasks -> Phases]
  BY GivenOut DEF IInv
<1>2. UNCHANGED <<world, outbox, sweep>>
  BY DEF Acquire
<1>3. TypeOK'
  BY <1>1, <1>2 DEF IInv, TypeOK, Phases, world, sweep
<1>4. SweepLocks'
  <2>1. SUFFICES ASSUME claimed # {}
                 PROVE  at'["sweeper"] = "apply"
    BY <1>2 DEF SweepLocks, sweep
  <2>2. at["sweeper"] = "apply"
    BY <2>1 DEF IInv, SweepLocks
  <2>3. t # "sweeper"
    BY <2>2 DEF Acquire, Waiting
  <2> QED
    BY <2>2, <2>3 DEF Acquire, Go, IInv, TypeOK, Tasks
<1>5. SweptPending'
  BY <1>2 DEF IInv, SweptPending, sweep
<1> QED
  BY <1>1, <1>3, <1>4, <1>5 DEF IInv

\* An exception: the sweeper's locks go with its transaction.
LEMMA FailsPreserves ==
  ASSUME IInv, NEW t \in Tasks, Fails(t),
         UNCHANGED <<life, up>>, faults' \in 0..MaxFaults
  PROVE  IInv'
<1>1. "rest" \in Phases /\ "rest" \notin Holding
  BY DEF Phases, Holding
<1>2. Go(t, "rest")
  BY DEF Fails
<1>3. WithinPool' /\ at' \in [Tasks -> Phases]
  BY <1>1, <1>2, Moved DEF IInv
<1>4. UNCHANGED <<outbox, passes>>
  BY DEF Fails
<1>5. CASE t = "sweeper"
  <2>1. claimed' = {} /\ backoff' = Doubled(backoff)
    BY <1>5 DEF Fails
  <2>2. backoff' \in 1..MaxBackoff
    BY <2>1, BackoffBounded DEF IInv, TypeOK
  <2>3. TypeOK'
    BY <1>3, <1>4, <2>1, <2>2 DEF IInv, TypeOK, Phases
  <2> QED
    BY <1>3, <2>1, <2>3 DEF IInv, SweepLocks, SweptPending
<1>6. CASE t # "sweeper"
  <2>1. UNCHANGED <<claimed, backoff>>
    BY <1>6 DEF Fails
  <2>2. TypeOK'
    BY <1>3, <1>4, <2>1 DEF IInv, TypeOK, Phases
  <2>3. at'["sweeper"] = at["sweeper"]
    BY <1>2, <1>6 DEF Go, IInv, TypeOK, Tasks
  <2>4. SweepLocks'
    BY <2>1, <2>3 DEF IInv, SweepLocks
  <2>5. SweptPending'
    BY <1>4, <2>1 DEF IInv, SweptPending
  <2> QED
    BY <1>3, <2>2, <2>4, <2>5 DEF IInv
<1> QED
  BY <1>5, <1>6

\* A submission's own steps.  Only Commit and Settle write its row: Commit writes one
\* that is not locked, Settle waits until it is not.
LEMMA WorkPreserves ==
  ASSUME IInv, NEW s \in Submitters, Submit(s) \/ Work(s)
  PROVE  IInv'
<1> s \in Tasks /\ s # "sweeper"
  BY TasksAssumption DEF Tasks
<1>1. outbox \in [Submitters -> {"none", "pending", "delivered", "old"}]
  BY DEF IInv, TypeOK
<1>2. \A r \in claimed : r \in Submitters /\ outbox[r] = "pending"
  BY DEF IInv, TypeOK, SweptPending
<1>3. CASE Submit(s)
  <2>1. /\ Go(s, "connect")
        /\ UNCHANGED <<world, outbox, sweep>>
        /\ "connect" \in Phases \ Holding
    BY <1>3 DEF Submit, Phases, Waiting, Holding
  <2> QED
    BY <1>1, <2>1, OthersMove
<1>4. CASE Lock(s)
  <2>1. /\ Go(s, "commit")
        /\ UNCHANGED <<world, outbox, sweep>>
        /\ "commit" \in Phases
        /\ at[s] \in Holding
    BY <1>4 DEF Lock, Phases, Holding
  <2> QED
    BY <1>1, <2>1, OthersMove
<1>5. CASE Commit(s)
  <2>1. /\ Go(s, "index")
        /\ UNCHANGED <<world, sweep>>
        /\ "index" \in Phases \ Holding
        /\ outbox' = [outbox EXCEPT ![s] = "pending"]
    BY <1>5 DEF Commit, Phases, Holding
  <2>2. \A r \in claimed : outbox'[r] = outbox[r]
    BY <1>1, <1>2, <2>1
  <2>3. outbox' \in [Submitters -> {"none", "pending", "delivered", "old"}]
    BY <1>1, <2>1
  <2> QED
    BY <2>1, <2>2, <2>3, OthersMove
<1>6. CASE Index(s)
  <2>1. PICK phase \in {"settle connect", "rest"} : Go(s, phase)
    BY <1>6 DEF Index
  <2>2. phase \in Phases /\ phase \notin Holding
    BY DEF Phases, Waiting, Holding
  <2>3. UNCHANGED <<world, outbox, sweep>>
    BY <1>6 DEF Index
  <2> QED
    BY <1>1, <2>1, <2>2, <2>3, OthersMove
<1>7. CASE Settle(s)
  <2>1. /\ Go(s, "rest")
        /\ UNCHANGED <<world, sweep>>
        /\ "rest" \in Phases \ Holding
        /\ s \notin claimed
        /\ outbox' = [outbox EXCEPT ![s] = IF @ = "pending" THEN "delivered" ELSE @]
    BY <1>7 DEF Settle, Phases, Holding
  <2>2. \A r \in claimed : outbox'[r] = outbox[r]
    BY <1>1, <1>2, <2>1
  <2>3. outbox' \in [Submitters -> {"none", "pending", "delivered", "old"}]
    BY <1>1, <2>1
  <2> QED
    BY <2>1, <2>2, <2>3, OthersMove
<1> QED
  BY <1>3, <1>4, <1>5, <1>6, <1>7 DEF Work

\* The sweeper's own steps.
LEMMA SweepPreserves ==
  ASSUME IInv, Sweep
  PROVE  IInv'
<1>1. outbox \in [Submitters -> {"none", "pending", "delivered", "old"}]
  BY DEF IInv, TypeOK
<1>2. "sweeper" \in Tasks
  BY DEF Tasks
<1>3. CASE Wake
  <2>1. /\ Go("sweeper", "sweep connect")
        /\ at["sweeper"] = "rest"
        /\ UNCHANGED <<world, outbox, sweep>>
        /\ "sweep connect" \in Phases \ Holding
    BY <1>3 DEF Wake, Phases, Waiting, Holding
  <2> QED
    BY <1>1, <2>1, SweeperMoves
<1>4. CASE Claim
  <2> DEFINE rows == {s \in Submitters : outbox[s] = "pending"}
  <2>1. at["sweeper"] = "claim" /\ UNCHANGED <<world, outbox>>
    BY <1>4 DEF Claim
  <2>2. claimed = {}
    BY <2>1 DEF IInv, SweepLocks
  <2>3. CASE rows = {}
    <3>1. PassDone(rows, FALSE) /\ claimed' = claimed
      BY <1>4, <2>3 DEF Claim
    <3>2. /\ backoff' \in 1..MaxBackoff
          /\ passes' \in 0..PruneEvery - 1
          /\ at' \in [Tasks -> Phases]
          /\ WithinPool'
      <4> HIDE DEF rows
      <4> QED
        BY <3>1, PassEnds DEF IInv
    <3>3. TypeOK'
      BY <2>1, <3>1, <3>2 DEF IInv, TypeOK, Phases, world
    <3> QED
      BY <2>2, <3>1, <3>2, <3>3 DEF IInv, SweepLocks, SweptPending
  <2>4. CASE rows # {}
    <3>1. /\ claimed' = rows
          /\ Go("sweeper", "apply")
          /\ UNCHANGED <<passes, backoff>>
      BY <1>4, <2>4 DEF Claim
    <3>2. "apply" \in Phases /\ at["sweeper"] \in Holding
      BY <2>1 DEF Phases, Holding
    <3>3. WithinPool' /\ at' \in [Tasks -> Phases]
      BY <1>2, <3>1, <3>2, Moved DEF IInv
    <3>4. TypeOK'
      BY <2>1, <3>1, <3>3 DEF IInv, TypeOK, Phases, world
    <3>5. at'["sweeper"] = "apply"
      BY <1>2, <3>1 DEF Go, IInv, TypeOK
    <3>6. SweptPending'
      BY <2>1, <3>1 DEF SweptPending
    <3> QED
      BY <3>3, <3>4, <3>5, <3>6 DEF IInv, SweepLocks
  <2> QED
    BY <2>3, <2>4
<1>5. CASE Apply
  <2>1. /\ claimed' = {}
        /\ UNCHANGED world
        /\ PassDone(claimed, ~Reachable("redis"))
        /\ outbox' = [s \in Submitters |-> IF s \in claimed /\ Reachable("redis")
                                             THEN "delivered" ELSE outbox[s]]
    BY <1>5 DEF Apply
  <2>2. (~Reachable("redis")) \in BOOLEAN
    BY DEF Reachable
  <2>3. /\ backoff' \in 1..MaxBackoff
        /\ passes' \in 0..PruneEvery - 1
        /\ at' \in [Tasks -> Phases]
        /\ WithinPool'
    BY <2>1, <2>2, PassEnds DEF IInv
  <2>4. outbox' \in [Submitters -> {"none", "pending", "delivered", "old"}]
    BY <1>1, <2>1
  <2>5. TypeOK'
    BY <2>1, <2>3, <2>4 DEF IInv, TypeOK, Phases, world
  <2> QED
    BY <2>1, <2>3, <2>5 DEF IInv, SweepLocks, SweptPending
<1>6. CASE Prune
  <2>1. /\ at["sweeper"] = "prune"
        /\ Go("sweeper", "rest")
        /\ UNCHANGED <<world, sweep>>
        /\ outbox' = [s \in Submitters |-> IF outbox[s] = "old" THEN "none" ELSE outbox[s]]
        /\ "rest" \in Phases \ Holding
    BY <1>6 DEF Prune, Phases, Holding
  <2>2. outbox' \in [Submitters -> {"none", "pending", "delivered", "old"}]
    BY <1>1, <2>1
  <2> QED
    BY <2>1, <2>2, SweeperMoves
<1> QED
  BY <1>3, <1>4, <1>5, <1>6 DEF Sweep

\* A rebuild's steps.
LEMMA RebuildPreserves ==
  ASSUME IInv, AskRebuild \/ Rebuild
  PROVE  IInv'
<1>1. outbox \in [Submitters -> {"none", "pending", "delivered", "old"}]
  BY DEF IInv, TypeOK
<1>2. "rebuild" \in Tasks /\ "rebuild" # "sweeper"
  BY DEF Tasks
<1>3. PICK phase \in {"list connect", "stream connect", "rest"} : Go("rebuild", phase)
  BY DEF AskRebuild, Rebuild, ListBoards, Stream
<1>4. UNCHANGED <<world, outbox, sweep>>
  BY DEF AskRebuild, Rebuild, ListBoards, Stream
<1>5. phase \in Phases /\ phase \notin Holding
  BY DEF Phases, Waiting, Holding
<1> QED
  BY <1>1, <1>2, <1>3, <1>4, <1>5, OthersMove

\* Rows that age were delivered: none of them is locked.
LEMMA AgePreserves ==
  ASSUME IInv, Age
  PROVE  IInv'
<1>1. /\ UNCHANGED <<world, at, sweep>>
      /\ outbox' = [s \in Submitters |-> IF outbox[s] = "delivered" THEN "old" ELSE outbox[s]]
  BY DEF Age
<1>2. TypeOK'
  BY <1>1 DEF IInv, TypeOK, world, sweep
<1>3. SweptPending'
  BY <1>1 DEF IInv, TypeOK, SweptPending, sweep
<1>4. WithinPool'
  BY <1>1, NoneGivenOut DEF IInv
<1> QED
  BY <1>1, <1>2, <1>3, <1>4 DEF IInv, SweepLocks, sweep

\* Stores and processes come and go; with a process go its tasks and its locks.
LEMMA WorldPreserves ==
  ASSUME IInv,
         \/ \E store \in {"postgres", "redis"} : Outage(store) \/ Recover(store)
         \/ Crash \/ Drain \/ Close \/ Start
  PROVE  IInv'
<1>1. CASE life' = "down" /\ End
  <2>1. /\ at' = [t \in Tasks |-> "rest"]
        /\ claimed' = {}
        /\ backoff' = 1 /\ passes' = 0
        /\ UNCHANGED <<up, outbox>>
    BY <1>1 DEF End
  <2>2. faults' \in 0..MaxFaults
    BY <1>1, FaultsAssumption DEF IInv, TypeOK, Outage, Recover, Crash, Drain, Close, Start, Fault
  <2>3. TypeOK'
    BY <1>1, <2>1, <2>2, SweeperAssumption DEF IInv, TypeOK
  <2>4. \A t \in Tasks : at'[t] \in Holding => at[t] \in Holding
    BY <2>1 DEF Holding
  <2>5. WithinPool'
    BY <2>4, NoneGivenOut DEF IInv
  <2> QED
    BY <2>1, <2>3, <2>5 DEF IInv, SweepLocks, SweptPending
<1>2. CASE UNCHANGED <<at, outbox, sweep>>
  <2>1. faults' \in 0..MaxFaults
    BY FaultsAssumption
    DEF IInv, TypeOK, Outage, Recover, Crash, Drain, Close, Start, Fault
  <2>4. up' \subseteq {"postgres", "redis"}
    BY DEF IInv, TypeOK, Outage, Recover, Crash, Drain, Close, Start, End
  <2>5. life' \in {"serving", "draining", "down"}
    BY DEF IInv, TypeOK, Outage, Recover, Crash, Drain, Close, Start, End
  <2>2. TypeOK'
    BY <1>2, <2>1, <2>4, <2>5 DEF IInv, TypeOK, sweep
  <2>3. WithinPool'
    BY <1>2, NoneGivenOut DEF IInv
  <2> QED
    BY <1>2, <2>2, <2>3 DEF IInv, SweepLocks, SweptPending, sweep
<1> QED
  BY <1>1, <1>2 DEF Outage, Recover, Crash, Drain, Close, Start, End

LEMMA Inits == Init => IInv
<1> SUFFICES ASSUME Init
             PROVE  IInv
  OBVIOUS
<1>1. at \in [Tasks -> Phases] /\ \A t \in Tasks : at[t] = "rest"
  BY DEF Init, Phases
<1>2. TypeOK
  BY <1>1, FaultsAssumption, SweeperAssumption DEF Init, TypeOK, Phases
<1>3. WithinPool
  BY <1>1, NobodyHolds
<1> QED
  BY <1>2, <1>3 DEF IInv, Init, SweepLocks, SweptPending

LEMMA Steps ==
  ASSUME IInv, [Next]_vars
  PROVE  IInv'
<1>1. CASE \E s \in Submitters : Submit(s) \/ Work(s)
  BY <1>1, WorkPreserves
<1>2. CASE Sweep
  BY <1>2, SweepPreserves
<1>3. CASE Age
  BY <1>3, AgePreserves
<1>4. CASE AskRebuild \/ Rebuild
  BY <1>4, RebuildPreserves
<1>5. CASE \E t \in Tasks : Connected(t) \/ PoolTimeout(t)
  <2>1. PICK t \in Tasks : Connected(t) \/ PoolTimeout(t)
    BY <1>5
  <2>2. CASE Acquire(t)
    BY <2>2, AcquirePreserves
  <2>3. CASE MeetsOutage(t)
    <3>1. faults' \in 0..MaxFaults /\ UNCHANGED <<life, up>> /\ Fails(t)
      BY <2>3 DEF MeetsOutage, world, IInv, TypeOK
    <3> QED
      BY <3>1, FailsPreserves
  <2>4. CASE PoolTimeout(t)
    <3>1. faults' \in 0..MaxFaults
      BY <2>4, FaultsAssumption DEF PoolTimeout, Fault, IInv, TypeOK
    <3>2. UNCHANGED <<life, up>> /\ Fails(t)
      BY <2>4 DEF PoolTimeout
    <3> QED
      BY <3>1, <3>2, FailsPreserves
  <2> QED
    BY <2>1, <2>2, <2>3, <2>4 DEF Connected
<1>6. CASE \/ \E store \in {"postgres", "redis"} : Outage(store) \/ Recover(store)
           \/ Crash \/ Drain \/ Close \/ Start
  BY <1>6, WorldPreserves
<1>7. CASE UNCHANGED vars
  <2>1. WithinPool'
    BY <1>7, NoneGivenOut DEF IInv, vars
  <2> QED
    BY <1>7, <2>1 DEF vars, IInv, TypeOK, SweepLocks, SweptPending
<1> QED
  BY <1>1, <1>2, <1>3, <1>4, <1>5, <1>6, <1>7 DEF Next

\* The inductive invariant holds in every state that can be reached.
THEOREM Invariant == Spec => []IInv
<1>1. IInv /\ [Next]_vars => IInv'
  BY Steps
<1> QED
  BY Inits, <1>1, PTL DEF Spec

-----------------------------------------------------------------------------
(* What follows from it.                                                   *)

\* Every variable has its type; in particular the back-off of run_sweeper stays within
\* its ceiling and its count of passes within a round.
THEOREM TypeCorrect == Spec => []TypeOK
<1>1. IInv => TypeOK
  BY DEF IInv
<1> QED
  BY Invariant, <1>1, PTL

\* No more connections are in use than the pool has, whoever asks, fails or times out.
THEOREM PoolIsNotExceeded == Spec => [](Cardinality(Holders) <= PoolSize)
<1>1. IInv => Cardinality(Holders) <= PoolSize
  BY DEF IInv, WithinPool
<1> QED
  BY Invariant, <1>1, PTL

\* What mark_delivered or record_failure of a sweep is told about is what was claimed.
SweptRowsAreOwed ==
    \A s \in claimed : at["sweeper"] = "apply" /\ outbox[s] = "pending"

\* The rows a sweep has locked stay undelivered until its transaction ends, although the
\* fast path of each may have reached the index by then and want to settle it; and no
\* lock survives the transaction.
THEOREM SweepsOwnTheirRows == Spec => []SweptRowsAreOwed
<1>1. IInv => SweptRowsAreOwed
  BY DEF IInv, SweepLocks, SweptPending, SweptRowsAreOwed
<1> QED
  BY Invariant, <1>1, PTL

\* Among those who hold connections somebody can always go on, for a pool of any size
\* and any number of tasks.  A holder waits for the user's row, whose owner waits for
\* nobody, or for the rows of a sweep, which is at its last call and waits for nobody.
THEOREM NoDeadlock == Spec => []NoCircularWait
<1>1. ASSUME IInv
      PROVE  NoCircularWait
  <2>1. SUFFICES ASSUME NEW t \in Holders
                 PROVE  \E u \in Holders : ~Blocked(u)
    BY DEF NoCircularWait
  <2>2. \A u \in Holders : u \in Tasks /\ at[u] \in Holding /\ at[u] \notin Waiting
    BY DEF Holders, Holding, Waiting
  <2>3. CASE at[t] = "lock" /\ \E r \in Submitters : at[r] = "commit"
    <3>1. PICK r \in Submitters : at[r] = "commit"
      BY <2>3
    <3>2. r \in Holders
      BY <3>1 DEF Holders, Holding, Tasks
    <3>3. ~Blocked(r)
      BY <3>1 DEF Blocked, Waiting
    <3> QED
      BY <3>2, <3>3
  <2>4. CASE at[t] = "settle" /\ t \in claimed
    <3>1. at["sweeper"] = "apply"
      BY <1>1, <2>4 DEF IInv, SweepLocks
    <3>2. "sweeper" \in Holders
      BY <3>1 DEF Holders, Holding, Tasks
    <3>3. ~Blocked("sweeper")
      BY <3>1 DEF Blocked, Waiting
    <3> QED
      BY <3>2, <3>3
  <2>5. CASE /\ ~(at[t] = "lock" /\ \E r \in Submitters : at[r] = "commit")
             /\ ~(at[t] = "settle" /\ t \in claimed)
    BY <2>2, <2>5 DEF Blocked
  <2> QED
    BY <2>3, <2>4, <2>5
<1> QED
  BY Invariant, <1>1, PTL
=============================================================================
