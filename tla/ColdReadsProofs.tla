--------------------------- MODULE ColdReadsProofs ---------------------------
(***************************************************************************)
(* What TLAPS proves of ColdReads, for every set of users, submissions,    *)
(* readers, instances and administrators, and every number of losses and   *)
(* errors: the type invariant, that rebuilds cover their snapshot and take *)
(* nothing back, and what a page can be relied on to show.  The last two   *)
(* rest on ReadsInv, which relates every request under way to both stores. *)
(***************************************************************************)
EXTENDS ColdReads, TLAPS, FiniteSetTheorems

\* A score or "no standing" is an integer, and nothing is below "no standing".
LEMMA StandingIsInt ==
  /\ Scores \subseteq Standing
  /\ NoStanding \in Standing
  /\ \A s \in Standing : s \in Int /\ s >= NoStanding
BY ScoresAreNatural DEF Standing, NoStanding

\* The empty board is a board.
LEMMA NobodyIsBoard ==
  /\ Nobody \in [Users -> Standing]
  /\ \A u \in Users : Nobody[u] = NoStanding
BY StandingIsInt DEF Nobody

\* The rows of a board are rows, and each member has one.
LEMMA RowsOfBoard ==
  ASSUME NEW board \in [Users -> Standing]
  PROVE  /\ Rows(board) \subseteq Row
         /\ \A u \in Members(board) : [user |-> u, score |-> board[u]] \in Rows(board)
<1>1. \A u \in Members(board) : u \in Users /\ board[u] \in Scores
  BY DEF Members, Standing
<1>. QED
  BY <1>1 DEF Rows, Row

\* The size of a board tells whether anyone is on it.
LEMMA SizeTellsEmpty ==
  ASSUME NEW board \in [Users -> Standing]
  PROVE  Size(board) = 0 <=> board = Nobody
<1>1. IsFiniteSet(Members(board))
  BY UsersAreFinite, FS_Subset DEF Members
<1>2. Size(board) = 0 <=> Members(board) = {}
  BY <1>1, FS_EmptySet DEF Size
<1>3. Members(board) = {} <=> \A u \in Users : board[u] = NoStanding
  BY DEF Members
<1>4. (\A u \in Users : board[u] = NoStanding) <=> board = Nobody
  BY DEF Nobody
<1>. QED
  BY <1>2, <1>3, <1>4

\* A size above zero is not zero.
LEMMA PositiveSize ==
  ASSUME NEW board \in [Users -> Standing], Size(board) > 0
  PROVE  board # Nobody
<1>1. Size(board) # 0
  OBVIOUS
<1>. QED
  BY <1>1, SizeTellsEmpty

\* ZADD GT takes no member back and leaves its own at the row's score or above.
LEMMA Raises ==
  ASSUME index \in [Users -> Standing], NEW r \in Row, Zadd(r)
  PROVE  /\ index' \in [Users -> Standing]
         /\ \A u \in Users : index'[u] >= index[u]
         /\ index'[r.user] >= r.score
<1>1. r.user \in Users /\ r.score \in Standing
  BY StandingIsInt DEF Row
<1>2. \A u \in Users : index[u] \in Int
  BY StandingIsInt
<1>3. r.score \in Int
  BY <1>1, StandingIsInt
<1>. QED
  BY <1>1, <1>2, <1>3 DEF Zadd

\* A board with a member of which nothing is taken back still has one.
LEMMA StaysInhabited ==
  ASSUME NEW before \in [Users -> Standing], NEW after \in [Users -> Standing],
         \A u \in Users : after[u] >= before[u], before # Nobody
  PROVE  after # Nobody
<1>1. PICK u \in Users : before[u] # NoStanding
  BY DEF Nobody
<1>2. before[u] \in Standing /\ after[u] \in Standing
  OBVIOUS
<1>3. before[u] > NoStanding
  BY <1>1, <1>2, StandingIsInt DEF NoStanding
<1>4. after[u] # NoStanding
  BY <1>2, <1>3, StandingIsInt DEF NoStanding
<1>. QED
  BY <1>4, NobodyIsBoard

-----------------------------------------------------------------------------
(* Types.                                                                  *)

\* The fields of a request that begins are typed.
LEMMA SettledIsBoard == ASSUME TypeOK PROVE Settled \in [Users -> Standing]
BY StandingIsInt DEF Settled, TypeOK

\* Both records that work begins from are typed.
LEMMA IdleTyped == IdleRequest \in Request /\ IdleRebuild \in Rebuild
<1>1. IdleRequest \in Request
  BY NobodyIsBoard DEF IdleRequest, Request, Phases
<1>2. IdleRebuild \in Rebuild
  BY NobodyIsBoard DEF IdleRebuild, Rebuild
<1>. QED
  BY <1>1, <1>2

\* A failed call is counted within its bound.
LEMMA FailsTyped == ASSUME TypeOK, CallFails PROVE errors' \in 0..MaxErrors
BY BoundsAssumption DEF TypeOK, CallFails

\* The type invariant is inductive.
LEMMA TypeInductive == TypeOK /\ [Next]_vars => TypeOK'
<1>. SUFFICES ASSUME TypeOK, [Next]_vars PROVE TypeOK'
  OBVIOUS
<1>1. ASSUME NEW u \in Users, NEW v \in Scores, Submit(u, v) PROVE TypeOK'
  <2>1. v \in Standing
    BY StandingIsInt
  <2>2. [user |-> u, score |-> v] \in Row
    BY DEF Row
  <2>. QED
    BY <1>1, <2>1, <2>2 DEF TypeOK, Submit
<1>2. CASE Deliver
  <2>1. PICK r \in pending : Zadd(r) /\ pending' = pending \ {r}
    BY <1>2 DEF Deliver
  <2>2. index' \in [Users -> Standing]
    BY <2>1, Raises DEF TypeOK
  <2>. QED
    BY <1>2, <2>1, <2>2 DEF TypeOK, Deliver
<1>3. CASE LoseKey
  <2>1. losses' \in 0..MaxLosses
    <3>1. losses \in 0..MaxLosses
      BY DEF TypeOK
    <3>2. losses < MaxLosses /\ losses' = losses + 1
      BY <1>3 DEF LoseKey
    <3>. QED
      BY <3>1, <3>2, BoundsAssumption
  <2>2. reader' \in [Readers -> Request]
    BY <1>3, NobodyIsBoard DEF TypeOK, LoseKey, Request
  <2>3. rebuild' \in [Rebuilders -> Rebuild]
    BY <1>3, NobodyIsBoard DEF TypeOK, LoseKey, Rebuild
  <2>. QED
    BY <1>3, <2>1, <2>2, <2>3, NobodyIsBoard DEF TypeOK, LoseKey
<1>4. ASSUME NEW q \in Readers, AskSize(q) PROVE TypeOK'
  <2>. DEFINE begun == [IdleRequest EXCEPT !.settled = IF losses = 0 THEN Settled ELSE Nobody,
                                             !.someone = standing # Nobody]
  <2>1. begun \in Request
    BY IdleTyped, SettledIsBoard, NobodyIsBoard DEF Request
  <2>2. /\ [begun EXCEPT !.phase = "read"] \in Request
        /\ [begun EXCEPT !.phase = "read", !.source = "redis"] \in Request
        /\ [begun EXCEPT !.phase = "confirm"] \in Request
    BY <2>1 DEF Request, Phases
  <2>. HIDE DEF begun
  <2>3. errors' \in 0..MaxErrors
    BY <1>4, FailsTyped DEF AskSize, TypeOK
  <2>4. \E next \in Request : reader' = [reader EXCEPT ![q] = next]
    BY <1>4, <2>2 DEF AskSize, Advance, begun
  <2>. QED
    BY <1>4, <2>3, <2>4 DEF TypeOK, AskSize, stores
<1>5. ASSUME NEW q \in Readers, Confirm(q) PROVE TypeOK'
  <2>1. reader[q] \in Request
    BY DEF TypeOK
  <2>2. /\ [reader[q] EXCEPT !.phase = "read", !.source = "redis"] \in Request
        /\ [reader[q] EXCEPT !.phase = "read", !.source = "postgres"] \in Request
    BY <2>1 DEF Request, Phases
  <2>3. reader' \in [Readers -> Request]
    BY <1>5, <2>2 DEF TypeOK, Confirm, Advance
  <2>4. Home[q] \in Instances /\ Home[q] \in Rebuilders
    BY HomeAssumption DEF Rebuilders
  <2>5. [IdleRebuild EXCEPT !.phase = "queued"] \in Rebuild
    BY IdleTyped DEF Rebuild
  <2>6. guard' \subseteq Instances /\ rebuild' \in [Rebuilders -> Rebuild]
    BY <1>5, <2>4, <2>5 DEF TypeOK, Confirm, ScheduleSelfHeal
  <2>. QED
    BY <1>5, <2>3, <2>6 DEF TypeOK, Confirm, stores
<1>6. ASSUME NEW q \in Readers, ReadPage(q) PROVE TypeOK'
  <2>1. reader[q] \in Request /\ PageFrom(reader[q].source) \in [Users -> Standing]
    BY DEF TypeOK, PageFrom
  <2>2. /\ [reader[q] EXCEPT !.page = PageFrom(reader[q].source),
                             !.phase = "answered", !.source = "postgres"] \in Request
        /\ [reader[q] EXCEPT !.phase = "failed"] \in Request
    BY <2>1 DEF Request, Phases
  <2>3. errors' \in 0..MaxErrors
    BY <1>6, FailsTyped DEF ReadPage, TypeOK
  <2>4. reader' \in [Readers -> Request]
    BY <1>6, <2>2 DEF TypeOK, ReadPage, Advance
  <2>. QED
    BY <1>6, <2>3, <2>4 DEF TypeOK, ReadPage, stores
<1>7. ASSUME NEW a \in Admins, AskRebuild(a) PROVE TypeOK'
  <2>1. [IdleRebuild EXCEPT !.phase = "queued"] \in Rebuild
    BY IdleTyped DEF Rebuild
  <2>. QED
    BY <1>7, <2>1 DEF TypeOK, AskRebuild, stores
<1>8. ASSUME NEW i \in Rebuilders, OpenCursor(i) PROVE TypeOK'
  <2>1. [phase |-> "writing", todo |-> Rows(standing), snapshot |-> standing] \in Rebuild
    BY RowsOfBoard DEF TypeOK, Rebuild
  <2>. QED
    BY <1>8, <2>1 DEF TypeOK, OpenCursor, stores
<1>9. ASSUME NEW i \in Rebuilders, WriteRow(i) PROVE TypeOK'
  <2>1. rebuild[i] \in Rebuild
    BY DEF TypeOK
  <2>2. PICK r \in rebuild[i].todo :
          Zadd(r) /\ rebuild' = [rebuild EXCEPT ![i].todo = @ \ {r}]
    BY <1>9 DEF WriteRow
  <2>3. r \in Row
    BY <2>1 DEF Rebuild
  <2>4. index' \in [Users -> Standing]
    BY <2>2, <2>3, Raises DEF TypeOK
  <2>5. rebuild' \in [Rebuilders -> Rebuild]
    BY <2>1, <2>2 DEF TypeOK, Rebuild
  <2>. QED
    BY <1>9, <2>4, <2>5 DEF TypeOK, WriteRow
<1>10. ASSUME NEW i \in Rebuilders, Finish(i) PROVE TypeOK'
  BY <1>10, IdleTyped DEF TypeOK, Finish, stores
<1>11. ASSUME NEW i \in Rebuilders, Abort(i) PROVE TypeOK'
  BY <1>11, IdleTyped, FailsTyped DEF TypeOK, Abort, stores
<1>12. CASE UNCHANGED vars
  BY <1>12 DEF TypeOK, vars
<1>13. \A r \in Submissions : r.user \in Users /\ r.score \in Scores
  BY SubmissionsAssumption
<1>. QED
  BY <1>1, <1>2, <1>3, <1>4, <1>5, <1>6, <1>7, <1>8, <1>9, <1>10, <1>11, <1>12, <1>13
     DEF Next, Serve, Work

\* Every variable has its type, always.
THEOREM TypeCorrect == Spec => []TypeOK
<1>1. Init => TypeOK
  BY IdleTyped, NobodyIsBoard, BoundsAssumption DEF Init, TypeOK
<1>. QED
  BY <1>1, TypeInductive, PTL DEF Spec

-----------------------------------------------------------------------------
(* Rebuilds.                                                               *)

\* Losing the key is counted.
LEMMA LossCounted == ASSUME TypeOK, LoseKey PROVE losses' # losses
<1>1. losses \in 0..MaxLosses
  BY DEF TypeOK
<1>2. losses' = losses + 1
  BY DEF LoseKey
<1>. QED
  BY <1>1, <1>2, BoundsAssumption

\* No step but the loss of the key takes a member of the index back.
LEMMA StepNeverRegresses ==
  ASSUME TypeOK, [Next]_vars, losses' = losses
  PROVE  /\ index' \in [Users -> Standing]
         /\ \A u \in Users : index'[u] >= index[u]
<1>1. \A u \in Users : index[u] \in Int
  BY StandingIsInt DEF TypeOK
<1>2. CASE index' = index
  BY <1>1, <1>2 DEF TypeOK
<1>3. CASE \E r \in Row : Zadd(r)
  BY <1>3, Raises DEF TypeOK
<1>4. ASSUME NEW u \in Users, NEW v \in Scores, Submit(u, v) PROVE index' = index
  BY <1>4 DEF Submit
<1>5. CASE Deliver
  BY <1>3, <1>5 DEF Deliver, TypeOK
<1>6. ~LoseKey
  BY LossCounted
<1>7. ASSUME NEW q \in Readers, Serve(q) PROVE index' = index
  BY <1>7 DEF Serve, AskSize, Confirm, ReadPage, stores
<1>8. ASSUME NEW i \in Rebuilders,
             AskRebuild(i) \/ OpenCursor(i) \/ Finish(i) \/ Abort(i)
      PROVE  index' = index
  BY <1>8 DEF AskRebuild, OpenCursor, Finish, Abort, stores
<1>9. ASSUME NEW i \in Rebuilders, WriteRow(i) PROVE \E r \in Row : Zadd(r)
  <2>1. rebuild[i] \in Rebuild
    BY DEF TypeOK
  <2>. QED
    BY <1>9, <2>1 DEF WriteRow, Rebuild
<1>10. CASE UNCHANGED vars
  BY <1>2, <1>10 DEF vars
<1>11. \A a \in Admins : a \in Rebuilders
  BY DEF Rebuilders
<1>12. \A r \in Submissions : r.user \in Users /\ r.score \in Scores
  BY SubmissionsAssumption
<1>. QED
  BY <1>2, <1>3, <1>4, <1>5, <1>6, <1>7, <1>8, <1>9, <1>10, <1>11, <1>12 DEF Next, Work

\* "A submission landing mid-rebuild keeps its value" (rebuild's module comment).
THEOREM NeverRegresses == Spec => IndexNeverRegresses
<1>1. TypeOK /\ [Next]_vars => [losses' = losses => \A u \in Users : index'[u] >= index[u]]_vars
  BY StepNeverRegresses
<1>. QED
  BY <1>1, TypeCorrect, PTL DEF Spec, IndexNeverRegresses

\* What one rebuild must cover, for a user of its snapshot.
Covered(i, u) ==
    \/ index[u] >= rebuild[i].snapshot[u]
    \/ [user |-> u, score |-> rebuild[i].snapshot[u]] \in rebuild[i].todo

\* A rebuild that a step leaves alone covers what it covered.
LEMMA StaysCovered ==
  ASSUME TypeOK, NEW i \in Rebuilders, NEW u \in Users, Covered(i, u),
         rebuild'[i] = rebuild[i], index' \in [Users -> Standing],
         index'[u] >= index[u]
  PROVE  Covered(i, u)'
<1>1. index[u] \in Int /\ index'[u] \in Int /\ rebuild[i].snapshot[u] \in Int
  <2>1. rebuild[i].snapshot \in [Users -> Standing]
    BY DEF TypeOK, Rebuild
  <2>. QED
    BY <2>1, StandingIsInt DEF TypeOK
<1>. QED
  BY <1>1 DEF Covered

\* Covering the snapshot is inductive, given the types.
LEMMA CoverInductive == TypeOK /\ TypeOK' /\ RebuildCovers /\ [Next]_vars => RebuildCovers'
<1>. SUFFICES ASSUME TypeOK, TypeOK', RebuildCovers, [Next]_vars,
                     NEW i \in Rebuilders, rebuild'[i].phase = "writing",
                     NEW u \in Members(rebuild'[i].snapshot)
              PROVE  Covered(i, u)'
  BY DEF RebuildCovers, Covered, Members
<1>0. u \in Users /\ rebuild'[i].snapshot[u] # NoStanding
  BY DEF Members
<1>1. CASE losses' # losses
  <2>1. CASE LoseKey
    <3>1. rebuild'[i].snapshot = Nobody
      BY <2>1 DEF LoseKey, TypeOK, Rebuild
    <3>. QED
      BY <1>0, <3>1, NobodyIsBoard
  <2>2. losses' = losses \/ LoseKey
    BY DEF Next, Submit, Deliver, Serve, AskSize, Confirm, ReadPage, AskRebuild, Work,
           OpenCursor, WriteRow, Finish, Abort, stores, vars
  <2>. QED
    BY <1>1, <2>1, <2>2
<1>2. CASE losses' = losses
  <2>1. index' \in [Users -> Standing] /\ index'[u] >= index[u]
    BY <1>0, <1>2, StepNeverRegresses
  <2>2. CASE rebuild'[i] = rebuild[i]
    BY <1>0, <2>1, <2>2, StaysCovered DEF RebuildCovers, Covered, Members
  <2>3. CASE OpenCursor(i)
    <3>1. rebuild'[i] = [phase |-> "writing", todo |-> Rows(standing), snapshot |-> standing]
      BY <2>3 DEF OpenCursor, TypeOK
    <3>2. u \in Members(standing)
      BY <3>1
    <3>3. [user |-> u, score |-> standing[u]] \in Rows(standing)
      BY <3>2, RowsOfBoard DEF TypeOK
    <3>. QED
      BY <3>1, <3>3 DEF Covered
  <2>4. CASE WriteRow(i)
    <3>1. rebuild[i] \in Rebuild
      BY DEF TypeOK
    <3>2. PICK r \in rebuild[i].todo :
            Zadd(r) /\ rebuild' = [rebuild EXCEPT ![i].todo = @ \ {r}]
      BY <2>4 DEF WriteRow
    <3>3. r \in Row
      BY <3>1 DEF Rebuild
    <3>4. /\ rebuild'[i].phase = rebuild[i].phase
          /\ rebuild'[i].snapshot = rebuild[i].snapshot
          /\ rebuild'[i].todo = rebuild[i].todo \ {r}
      BY <3>1, <3>2 DEF TypeOK, Rebuild
    <3>5. Covered(i, u)
      BY <1>0, <3>4 DEF RebuildCovers, Covered, Members
    <3>6. index'[r.user] >= r.score
      BY <3>2, <3>3, Raises DEF TypeOK
    <3>7. CASE r = [user |-> u, score |-> rebuild[i].snapshot[u]]
      <4>1. r.user = u /\ r.score = rebuild[i].snapshot[u]
        BY <3>7
      <4>. QED
        BY <3>4, <3>6, <4>1 DEF Covered
    <3>8. CASE r # [user |-> u, score |-> rebuild[i].snapshot[u]]
      <4>1. index[u] \in Int /\ index'[u] \in Int /\ rebuild[i].snapshot[u] \in Int
        BY <1>0, <2>1, <3>1, StandingIsInt DEF TypeOK, Rebuild
      <4>. QED
        BY <2>1, <3>4, <3>5, <3>8, <4>1 DEF Covered
    <3>. QED
      BY <3>7, <3>8
  <2>5. rebuild'[i] = rebuild[i] \/ OpenCursor(i) \/ WriteRow(i)
    <3>1. ASSUME NEW j \in Rebuilders, Work(j) \/ Abort(j) \/ AskRebuild(j), j # i
          PROVE  rebuild'[i] = rebuild[i]
      BY <3>1 DEF Work, Abort, AskRebuild, OpenCursor, WriteRow, Finish, TypeOK
    <3>2. CASE Finish(i) \/ Abort(i) \/ AskRebuild(i)
      <4>1. rebuild'[i] = IdleRebuild \/ rebuild'[i] = [IdleRebuild EXCEPT !.phase = "queued"]
        BY <3>2 DEF Finish, Abort, AskRebuild, TypeOK
      <4>2. rebuild'[i].phase # "writing"
        BY <4>1 DEF IdleRebuild
      <4>. QED
        BY <4>2
    <3>3. ASSUME NEW q \in Readers, Serve(q) PROVE rebuild'[i] = rebuild[i]
      <4>1. CASE Confirm(q)
        <5>1. rebuild' = rebuild \/
              rebuild' = [rebuild EXCEPT ![Home[q]] = [IdleRebuild EXCEPT !.phase = "queued"]]
          BY <4>1 DEF Confirm, ScheduleSelfHeal
        <5>2. CASE rebuild' = rebuild
          BY <5>2
        <5>3. CASE rebuild' =
                     [rebuild EXCEPT ![Home[q]] = [IdleRebuild EXCEPT !.phase = "queued"]]
          <6>1. i # Home[q]
            BY <5>3 DEF IdleRebuild, TypeOK
          <6>. QED
            BY <5>3, <6>1 DEF TypeOK
        <5>. QED
          BY <5>1, <5>2, <5>3
      <4>2. CASE AskSize(q) \/ ReadPage(q)
        BY <4>2 DEF AskSize, ReadPage
      <4>. QED
        BY <3>3, <4>1, <4>2 DEF Serve
    <3>4. ASSUME NEW w \in Users, NEW v \in Scores, Submit(w, v)
          PROVE  rebuild'[i] = rebuild[i]
      BY <3>4 DEF Submit
    <3>5. CASE Deliver \/ UNCHANGED vars
      BY <3>5 DEF Deliver, vars
    <3>6. ~LoseKey
      BY <1>2, LossCounted
    <3>7. Admins \subseteq Rebuilders
      BY DEF Rebuilders
    <3>8. \A r \in Submissions : r.user \in Users /\ r.score \in Scores
      BY SubmissionsAssumption
    <3>. QED
      BY <3>1, <3>2, <3>3, <3>4, <3>5, <3>6, <3>7, <3>8 DEF Next, Work
  <2>. QED
    BY <2>2, <2>3, <2>4, <2>5
<1>. QED
  BY <1>1, <1>2

\* A rebuild covers its snapshot, always.
THEOREM Covers == Spec => []RebuildCovers
<1>1. Init => RebuildCovers
  BY DEF Init, RebuildCovers, IdleRebuild
<1>. QED
  BY <1>1, CoverInductive, TypeCorrect, PTL DEF Spec

-----------------------------------------------------------------------------
(* Reads.                                                                  *)

\* As long as nothing was lost, a standing the index lacks is pending.
Forwarded ==
    losses = 0 =>
        \A u \in Users : \/ index[u] >= standing[u]
                         \/ [user |-> u, score |-> standing[u]] \in pending

\* What was settled when a request began is in both stores and, when it is answered,
\* on its page; someone who was on the board then still is, in the store that was
\* chosen, and on the page.
Backed(q) ==
    LET r == reader[q] IN
    /\ \A u \in Users : standing[u] >= r.settled[u] /\ index[u] >= r.settled[u]
    /\ r.someone => standing # Nobody
    /\ r.someone /\ r.phase = "read" /\ r.source = "redis" => index # Nobody
    /\ r.phase = "answered" => \A u \in Users : r.page[u] >= r.settled[u]
    /\ r.phase = "answered" /\ r.page = Nobody => ~r.someone

ReadsInv == Forwarded /\ \A q \in Readers : Backed(q)

\* Comparisons on boards are between integers.
LEMMA BoardsAreInt ==
  ASSUME TypeOK, NEW u \in Users
  PROVE  /\ standing[u] \in Int /\ index[u] \in Int
         /\ \A q \in Readers : reader[q].settled[u] \in Int /\ reader[q].page[u] \in Int
<1>1. \A q \in Readers : /\ reader[q].settled \in [Users -> Standing]
                         /\ reader[q].page \in [Users -> Standing]
  BY DEF TypeOK, Request
<1>. QED
  BY <1>1, StandingIsInt DEF TypeOK

\* No step lowers a standing.
LEMMA StandingsGrow ==
  ASSUME TypeOK, [Next]_vars
  PROVE  \A u \in Users : standing'[u] >= standing[u]
<1>1. \A u \in Users : standing[u] \in Int
  BY BoardsAreInt
<1>2. CASE standing' = standing
  BY <1>1, <1>2
<1>3. ASSUME NEW u \in Users, NEW v \in Scores, Submit(u, v)
      PROVE  \A w \in Users : standing'[w] >= standing[w]
  <2>1. /\ v \in Int /\ v > standing[u]
        /\ standing' = [standing EXCEPT ![u] = v] /\ standing \in [Users -> Standing]
    BY <1>3, ScoresAreNatural DEF Submit, TypeOK
  <2>. QED
    BY <1>1, <2>1
<1>4. \A r \in Submissions : r.user \in Users /\ r.score \in Scores
  BY SubmissionsAssumption
<1>5. standing' = standing \/ \E r \in Submissions : Submit(r.user, r.score)
  BY DEF Next, Deliver, LoseKey, Serve, AskSize, Confirm, ReadPage, AskRebuild, Work,
         OpenCursor, WriteRow, Finish, Abort, stores, vars
<1>. QED
  BY <1>2, <1>3, <1>4, <1>5

\* Forwarding is inductive.
LEMMA ForwardedInductive ==
  ASSUME TypeOK, TypeOK', Forwarded, [Next]_vars
  PROVE  Forwarded'
<1>. SUFFICES ASSUME losses' = 0, NEW u \in Users
              PROVE  \/ index'[u] >= standing'[u]
                     \/ [user |-> u, score |-> standing'[u]] \in pending'
  BY DEF Forwarded
<1>1. losses' = losses
  <2>1. ASSUME LoseKey PROVE FALSE
    <3>1. losses' = losses + 1
      BY <2>1 DEF LoseKey
    <3>2. losses \in Nat
      BY BoundsAssumption DEF TypeOK
    <3>. QED
      BY <3>1, <3>2
  <2>. QED
    BY <2>1 DEF Next, Submit, Deliver, Serve, AskSize, Confirm, ReadPage, AskRebuild, Work,
                OpenCursor, WriteRow, Finish, Abort, stores, vars
<1>2. \/ index[u] >= standing[u]
      \/ [user |-> u, score |-> standing[u]] \in pending
  BY <1>1 DEF Forwarded
<1>3. index'[u] >= index[u]
  BY <1>1, StepNeverRegresses
<1>4. index[u] \in Int /\ index'[u] \in Int /\ standing[u] \in Int
  BY BoardsAreInt, <1>1, StepNeverRegresses, StandingIsInt
<1>5. CASE standing' = standing /\ pending' = pending
  BY <1>2, <1>3, <1>4, <1>5
<1>6. ASSUME NEW w \in Users, NEW v \in Scores, Submit(w, v)
      PROVE  \/ index'[u] >= standing'[u]
             \/ [user |-> u, score |-> standing'[u]] \in pending'
  <2>1. /\ standing' = [standing EXCEPT ![w] = v] /\ standing \in [Users -> Standing]
        /\ pending' = pending \cup {[user |-> w, score |-> v]}
        /\ index' = index
    BY <1>6 DEF Submit, TypeOK
  <2>2. CASE u = w
    BY <2>1, <2>2
  <2>3. CASE u # w
    BY <1>2, <2>1, <2>3
  <2>. QED
    BY <2>2, <2>3
<1>7. CASE Deliver
  <2>1. PICK r \in pending : Zadd(r) /\ pending' = pending \ {r} /\ standing' = standing
    BY <1>7 DEF Deliver
  <2>2. r \in Row
    BY DEF TypeOK
  <2>3. index'[r.user] >= r.score
    BY <2>1, <2>2, Raises DEF TypeOK
  <2>4. CASE r = [user |-> u, score |-> standing[u]]
    <3>1. r.user = u /\ r.score = standing[u]
      BY <2>4
    <3>. QED
      BY <2>1, <2>3, <3>1
  <2>5. CASE r # [user |-> u, score |-> standing[u]]
    BY <1>2, <1>3, <1>4, <2>1, <2>5
  <2>. QED
    BY <2>4, <2>5
<1>8. \/ standing' = standing /\ pending' = pending
      \/ Deliver
      \/ \E r \in Submissions : Submit(r.user, r.score)
  BY DEF Next, LoseKey, Serve, AskSize, Confirm, ReadPage, AskRebuild, Work,
         OpenCursor, WriteRow, Finish, Abort, stores, vars
<1>9. \A r \in Submissions : r.user \in Users /\ r.score \in Scores
  BY SubmissionsAssumption
<1>. QED
  BY <1>5, <1>6, <1>7, <1>8, <1>9

\* A request that a step leaves alone stays backed, as long as nothing is lost.
LEMMA StaysBacked ==
  ASSUME TypeOK, TypeOK', [Next]_vars, losses' = losses,
         NEW q \in Readers, Backed(q), reader'[q] = reader[q]
  PROVE  Backed(q)'
<1>1. \A u \in Users : /\ standing'[u] >= standing[u] /\ index'[u] >= index[u]
                       /\ standing[u] \in Int /\ index[u] \in Int
                       /\ standing'[u] \in Int /\ index'[u] \in Int
                       /\ reader[q].settled[u] \in Int
  <2>1. \A u \in Users : standing'[u] >= standing[u]
    BY StandingsGrow
  <2>2. \A u \in Users : index'[u] >= index[u]
    BY StepNeverRegresses
  <2>3. \A u \in Users : standing'[u] \in Int /\ index'[u] \in Int
    BY StandingIsInt DEF TypeOK
  <2>. QED
    BY <2>1, <2>2, <2>3, BoardsAreInt
<1>2. \A u \in Users : /\ standing'[u] >= reader[q].settled[u]
                       /\ index'[u] >= reader[q].settled[u]
  <2>1. \A u \in Users : /\ standing[u] >= reader[q].settled[u]
                         /\ index[u] >= reader[q].settled[u]
    BY DEF Backed
  <2>. QED
    BY <1>1, <2>1
<1>3. /\ standing # Nobody => standing' # Nobody
      /\ index # Nobody => index' # Nobody
  BY <1>1, StaysInhabited DEF TypeOK
<1>. QED
  BY <1>2, <1>3 DEF Backed

\* Nothing needs backing after a loss.
LEMMA LostIsBacked ==
  ASSUME TypeOK, TypeOK', LoseKey, NEW q \in Readers, Backed(q)
  PROVE  Backed(q)'
<1>1. /\ reader'[q] = [reader[q] EXCEPT !.settled = Nobody, !.someone = FALSE]
      /\ reader[q] \in Request
  BY DEF LoseKey, TypeOK
<1>2. reader'[q].settled = Nobody /\ ~reader'[q].someone
  BY <1>1 DEF Request
<1>3. \A u \in Users : /\ standing'[u] >= NoStanding /\ index'[u] >= NoStanding
                       /\ reader'[q].page[u] >= NoStanding
  <2>1. reader'[q].page \in [Users -> Standing]
    BY DEF TypeOK, Request
  <2>. QED
    BY <2>1, StandingIsInt DEF TypeOK
<1>. QED
  BY <1>2, <1>3, NobodyIsBoard DEF Backed

\* A request begins backed: what nothing is pending for, the index shows.
LEMMA BegunIsBacked ==
  ASSUME TypeOK, TypeOK', Forwarded, NEW q \in Readers, AskSize(q)
  PROVE  Backed(q)'
<1>. DEFINE begun == [IdleRequest EXCEPT !.settled = IF losses = 0 THEN Settled ELSE Nobody,
                                          !.someone = standing # Nobody]
            seen == IF losses = 0 THEN Settled ELSE Nobody
<1>1. \/ reader'[q] = [begun EXCEPT !.phase = "read"]
      \/ reader'[q] = [begun EXCEPT !.phase = "read", !.source = "redis"] /\ Size(index) > 0
      \/ reader'[q] = [begun EXCEPT !.phase = "confirm"]
  BY DEF AskSize, Advance, TypeOK
<1>2. /\ reader'[q].settled = seen
      /\ reader'[q].someone = (standing # Nobody)
      /\ reader'[q].phase # "answered"
      /\ reader'[q].phase = "read" /\ reader'[q].source = "redis" => Size(index) > 0
  <2>. HIDE DEF seen
  <2>1. CASE reader'[q] = [begun EXCEPT !.phase = "read"]
    BY <2>1 DEF IdleRequest, seen
  <2>2. CASE /\ reader'[q] = [begun EXCEPT !.phase = "read", !.source = "redis"]
             /\ Size(index) > 0
    BY <2>2 DEF IdleRequest, seen
  <2>3. CASE reader'[q] = [begun EXCEPT !.phase = "confirm"]
    BY <2>3 DEF IdleRequest, seen
  <2>. QED
    BY <1>1, <2>1, <2>2, <2>3
<1>3. standing' = standing /\ index' = index
  BY DEF AskSize, stores
<1>4. ASSUME NEW u \in Users
      PROVE  standing[u] >= reader'[q].settled[u] /\ index[u] >= reader'[q].settled[u]
  <2>1. standing[u] \in Standing /\ index[u] \in Standing /\ standing[u] \in Int
    BY StandingIsInt DEF TypeOK
  <2>2. CASE losses = 0 /\ ~\E r \in pending : r.user = u
    <3>1. reader'[q].settled[u] = standing[u]
      BY <1>2, <2>2 DEF Settled
    <3>2. [user |-> u, score |-> standing[u]] \notin pending
      <4>1. [user |-> u, score |-> standing[u]].user = u
        OBVIOUS
      <4>. QED
        BY <2>2, <4>1
    <3>3. index[u] >= standing[u]
      BY <2>2, <3>2 DEF Forwarded
    <3>. QED
      BY <2>1, <3>1, <3>3
  <2>3. CASE losses # 0 \/ \E r \in pending : r.user = u
    <3>1. reader'[q].settled[u] = NoStanding
      BY <1>2, <2>3, NobodyIsBoard DEF Settled
    <3>. QED
      BY <2>1, <3>1, StandingIsInt
  <2>. QED
    BY <2>2, <2>3
<1>5. reader'[q].phase = "read" /\ reader'[q].source = "redis" => index # Nobody
  BY <1>2, PositiveSize DEF TypeOK
<1>. QED
  BY <1>2, <1>3, <1>4, <1>5 DEF Backed

\* Confirming a zero leads to a store that has the members there are.
LEMMA ConfirmedIsBacked ==
  ASSUME TypeOK, TypeOK', NEW q \in Readers, Backed(q), Confirm(q)
  PROVE  Backed(q)'
<1>1. PICK source \in {"redis", "postgres"} :
        /\ reader'[q] = [reader[q] EXCEPT !.phase = "read", !.source = source]
        /\ source = "redis" => Size(standing) = 0
  BY DEF Confirm, Advance, TypeOK
<1>2. /\ reader'[q].settled = reader[q].settled
      /\ reader'[q].someone = reader[q].someone
      /\ reader'[q].phase = "read" /\ reader'[q].source = source
  <2>1. reader[q] \in Request
    BY DEF TypeOK
  <2>. QED
    BY <1>1, <2>1 DEF Request
<1>3. standing' = standing /\ index' = index
  BY DEF Confirm, stores
<1>4. source = "redis" => standing = Nobody
  BY <1>1, SizeTellsEmpty DEF TypeOK
<1>. QED
  BY <1>2, <1>3, <1>4 DEF Backed

\* A page from a store that backs the request does so itself.
LEMMA ReadIsBacked ==
  ASSUME TypeOK, TypeOK', NEW q \in Readers, Backed(q), ReadPage(q)
  PROVE  Backed(q)'
<1>1. reader[q] \in Request /\ reader[q].phase = "read"
  BY DEF TypeOK, ReadPage
<1>2. standing' = standing /\ index' = index
  BY DEF ReadPage, stores
<1>3. CASE reader'[q] = [reader[q] EXCEPT !.phase = "failed"]
  <2>1. /\ reader'[q].settled = reader[q].settled
        /\ reader'[q].someone = reader[q].someone
        /\ reader'[q].phase = "failed"
    BY <1>1, <1>3 DEF Request
  <2>. QED
    BY <1>2, <2>1 DEF Backed
<1>4. CASE reader'[q] = [reader[q] EXCEPT !.page = PageFrom(reader[q].source),
                                          !.phase = "answered", !.source = "postgres"]
  <2>1. /\ reader'[q].settled = reader[q].settled
        /\ reader'[q].someone = reader[q].someone
        /\ reader'[q].phase = "answered" /\ reader'[q].source = "postgres"
        /\ reader'[q].page = IF reader[q].source = "redis" THEN index ELSE standing
    BY <1>1, <1>4 DEF Request, PageFrom
  <2>. QED
    BY <1>1, <1>2, <2>1 DEF Backed
<1>. QED
  BY <1>3, <1>4 DEF ReadPage, Advance, TypeOK

\* ReadsInv is inductive, given the types.
LEMMA ReadsInductive == TypeOK /\ TypeOK' /\ ReadsInv /\ [Next]_vars => ReadsInv'
<1>. SUFFICES ASSUME TypeOK, TypeOK', ReadsInv, [Next]_vars, NEW q \in Readers
              PROVE  Backed(q)'
  BY ForwardedInductive DEF ReadsInv
<1>1. Forwarded /\ Backed(q)
  BY DEF ReadsInv
<1>2. CASE LoseKey
  BY <1>1, <1>2, LostIsBacked
<1>3. ASSUME NEW p \in Readers, Serve(p) PROVE Backed(q)'
  <2>1. losses' = losses
    BY <1>3 DEF Serve, AskSize, Confirm, ReadPage, stores
  <2>2. CASE p # q
    <3>1. reader'[q] = reader[q]
      BY <1>3, <2>2 DEF Serve, AskSize, Confirm, ReadPage, Advance, TypeOK
    <3>. QED
      BY <1>1, <2>1, <3>1, StaysBacked
  <2>3. CASE p = q
    BY <1>1, <1>3, <2>3, BegunIsBacked, ConfirmedIsBacked, ReadIsBacked DEF Serve
  <2>. QED
    BY <2>2, <2>3
<1>4. CASE reader' = reader /\ losses' = losses
  BY <1>1, <1>4, StaysBacked
<1>5. \/ LoseKey
      \/ \E p \in Readers : Serve(p)
      \/ reader' = reader /\ losses' = losses
  BY DEF Next, Submit, Deliver, AskRebuild, Work, OpenCursor, WriteRow, Finish, Abort,
         stores, vars
<1>. QED
  BY <1>2, <1>3, <1>4, <1>5

\* Requests under way are backed by both stores, always.
THEOREM Reads == Spec => []ReadsInv
<1>1. Init => ReadsInv
  BY NobodyIsBoard, StandingIsInt DEF Init, ReadsInv, Forwarded, Backed, IdleRequest
<1>. QED
  BY <1>1, ReadsInductive, TypeCorrect, PTL DEF Spec

\* Whoever is settled is on every page, from either store and through a rebuild.
THEOREM SettledAreServed == Spec => []SettledIsServed
<1>1. ReadsInv => SettledIsServed
  BY DEF ReadsInv, Backed, SettledIsServed, Answered
<1>. QED
  BY <1>1, Reads, PTL

\* An empty page is the truth, unless the key was lost while the request ran.
THEOREM EmptyIsTrue == Spec => []EmptyOnlyIfLost
<1>1. ReadsInv => EmptyOnlyIfLost
  BY DEF ReadsInv, Backed, EmptyOnlyIfLost, Answered
<1>. QED
  BY <1>1, Reads, PTL
=============================================================================
