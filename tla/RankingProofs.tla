---------------------------- MODULE RankingProofs ----------------------------
(***************************************************************************)
(* What TLAPS proves of Ranking, for every set of users, scores, requests  *)
(* and queries: the type invariant, that both stores give the answer of    *)
(* the contract, and that no rank exceeds the total beside it.             *)
(*                                                                         *)
(* The argument rests on counting.  A user's position is one more than the *)
(* number of the users ahead of it; positions therefore are 1, 2, ... up   *)
(* to the size of the board, each held by one user (Positions), and a list *)
(* sorted by either store has the user with position i as its i-th entry   *)
(* (SortedByPosition).  A page of it, cut at the same bounds, is the same  *)
(* page (Page).                                                            *)
(***************************************************************************)
EXTENDS Ranking, FiniteSetTheorems, FunctionTheorems, SequenceTheorems, TLAPS

\* Boards of which only finitely many users are members: the ones there are.
Board == {b \in [Users -> Scores \cup {NoStanding}] : IsFiniteSet(Members(b))}

\* The users ahead of u.
Leaders(b, u) == {v \in Members(b) : Ahead(b, v, u)}

\* list holds every member of b once, at its position.
Lists(b, list) ==
    /\ list \in [1..Cardinality(Members(b)) -> Members(b)]
    /\ \A i \in 1..Cardinality(Members(b)) : Position(b, list[i]) = i
    /\ \A u \in Members(b) : /\ Position(b, u) \in 1..Cardinality(Members(b))
                             /\ list[Position(b, u)] = u

LEMMA BoardRanges ==
  ASSUME NEW b \in Board
  PROVE  /\ Members(b) \subseteq Users
         /\ \A u \in Users : u \in Nat /\ b[u] \in Int
         /\ \A u \in Members(b) : b[u] \in Scores /\ b[u] \in Nat
         /\ IsFiniteSet(Members(b))
         /\ Cardinality(Members(b)) \in Nat
<1>1. b \in [Users -> Scores \cup {NoStanding}] /\ IsFiniteSet(Members(b))
  BY DEF Board
<1>2. Cardinality(Members(b)) \in Nat
  BY <1>1, FS_CardinalityType
<1>3. \A u \in Users : u \in Nat /\ b[u] \in Scores \cup {NoStanding}
  BY <1>1, UsersAssumption
<1>4. \A u \in Users : b[u] \in Int
  <2>1. NoStanding \in Int /\ \A v \in Scores : v \in Int
    BY RankingScoresAssumption DEF NoStanding
  <2>. QED
    BY <1>3, <2>1
<1>5. Members(b) \subseteq Users /\ \A u \in Members(b) : b[u] \in Scores /\ b[u] \in Nat
  BY <1>3, RankingScoresAssumption DEF Members
<1>. QED
  BY <1>1, <1>2, <1>3, <1>4, <1>5

\* Ahead is a strict total order of the users.
LEMMA AheadOrders ==
  ASSUME NEW b \in Board
  PROVE  /\ \A u \in Users : ~Ahead(b, u, u)
         /\ \A u, v \in Users : u = v \/ Ahead(b, u, v) \/ Ahead(b, v, u)
         /\ \A u, v \in Users : ~(Ahead(b, u, v) /\ Ahead(b, v, u))
         /\ \A u, v, w \in Users : Ahead(b, u, v) /\ Ahead(b, v, w) => Ahead(b, u, w)
BY BoardRanges DEF Ahead

LEMMA PositionCounts ==
  ASSUME NEW b \in Board, NEW u
  PROVE  /\ IsFiniteSet(Leaders(b, u))
         /\ Cardinality(Leaders(b, u)) \in Nat
         /\ Position(b, u) = 1 + Cardinality(Leaders(b, u))
<1>1. Leaders(b, u) \in SUBSET Members(b)
  BY DEF Leaders
<1>2. IsFiniteSet(Leaders(b, u))
  BY <1>1, BoardRanges, FS_Subset
<1>3. Cardinality(Leaders(b, u)) \in Nat
  BY <1>2, FS_CardinalityType
<1>. QED
  BY <1>2, <1>3 DEF Leaders, Ahead, Position

\* Positions are 1, 2, ... up to the size of the board, and each is held by one
\* member; who is ahead has the lower one.
LEMMA Positions ==
  ASSUME NEW b \in Board
  PROVE  /\ \A u \in Members(b) : Position(b, u) \in 1..Cardinality(Members(b))
         /\ \A u, v \in Members(b) : Ahead(b, u, v) <=> Position(b, u) < Position(b, v)
         /\ \A k \in 1..Cardinality(Members(b)) : \E u \in Members(b) : Position(b, u) = k
<1>. DEFINE M == Members(b)
            n == Cardinality(M)
            pos == [u \in M |-> Position(b, u)]
<1>1. n \in Nat /\ IsFiniteSet(M) /\ M \subseteq Users
  BY BoardRanges
<1>2. ASSUME NEW u \in M PROVE Position(b, u) \in 1..n
  <2>1. Leaders(b, u) \in SUBSET M /\ Leaders(b, u) # M
    BY <1>1, AheadOrders DEF Leaders
  <2>2. Cardinality(Leaders(b, u)) <= n /\ (n = Cardinality(Leaders(b, u)) => M = Leaders(b, u))
    BY <1>1, <2>1, FS_Subset
  <2>. QED
    BY <1>1, <2>1, <2>2, PositionCounts
<1>3. ASSUME NEW u \in M, NEW v \in M, Ahead(b, u, v) PROVE Position(b, u) < Position(b, v)
  <2>1. Leaders(b, u) \in SUBSET Leaders(b, v) /\ Leaders(b, u) # Leaders(b, v)
    BY <1>1, <1>3, AheadOrders DEF Leaders
  <2>2. /\ Cardinality(Leaders(b, u)) <= Cardinality(Leaders(b, v))
        /\ Cardinality(Leaders(b, u)) # Cardinality(Leaders(b, v))
    BY <2>1, PositionCounts, FS_Subset
  <2>. QED
    BY <2>2, PositionCounts
<1>4. \A u \in M : Position(b, u) \in Nat
  BY <1>1, <1>2
<1>5. \A u, v \in M : Ahead(b, u, v) <=> Position(b, u) < Position(b, v)
  <2>. SUFFICES ASSUME NEW u \in M, NEW v \in M, ~Ahead(b, u, v)
                PROVE  ~(Position(b, u) < Position(b, v))
    BY <1>3
  <2>1. u = v \/ Ahead(b, v, u)
    BY <1>1, AheadOrders
  <2>. QED
    BY <1>3, <1>4, <2>1
<1>6. pos \in Injection(M, 1..n)
  <2>1. pos \in [M -> 1..n]
    BY <1>2
  <2>2. ASSUME NEW u \in M, NEW v \in M, u # v PROVE pos[u] # pos[v]
    BY <1>1, <1>3, <1>4, <2>2, AheadOrders
  <2>. QED
    BY <2>1, <2>2 DEF Injection, IsInjective
<1>7. pos \in Surjection(M, 1..n)
  <2>1. IsFiniteSet(1..n) /\ Cardinality(1..n) = n
    BY <1>1, FS_Interval
  <2>. QED
    BY <1>6, <2>1, FS_Injection
<1>8. \A k \in 1..n : \E u \in M : Position(b, u) = k
  BY <1>7 DEF Surjection
<1>. QED
  BY <1>2, <1>5, <1>8

\* A list of as many members as there are, in which each is ahead of those after it,
\* has every member at its position.
LEMMA SortedByPosition ==
  ASSUME NEW b \in Board,
         NEW list \in [1..Cardinality(Members(b)) -> Members(b)],
         \A i, j \in 1..Cardinality(Members(b)) : i < j => Ahead(b, list[i], list[j])
  PROVE  Lists(b, list)
<1>. DEFINE M == Members(b)
            n == Cardinality(M)
<1>1. n \in Nat /\ IsFiniteSet(M) /\ M \subseteq Users
  BY BoardRanges
<1>2. \A i, j \in 1..n : i # j => list[i] # list[j]
  <2>. SUFFICES ASSUME NEW i \in 1..n, NEW j \in 1..n, i # j PROVE list[i] # list[j]
    OBVIOUS
  <2>1. i < j \/ j < i
    BY <1>1
  <2>2. list[i] \in Users /\ list[j] \in Users
    BY <1>1
  <2>3. Ahead(b, list[i], list[j]) \/ Ahead(b, list[j], list[i])
    BY <2>1
  <2>. QED
    BY <2>2, <2>3, AheadOrders
<1>3. list \in Injection(1..n, M)
  BY <1>2 DEF Injection, IsInjective
<1>4. list \in Surjection(1..n, M)
  <2>1. IsFiniteSet(1..n) /\ Cardinality(1..n) = n
    BY <1>1, FS_Interval
  <2>. QED
    BY <1>1, <1>3, <2>1, FS_Injection
<1>5. \A u \in M : \E i \in 1..n : list[i] = u
  BY <1>4 DEF Surjection
<1>6. ASSUME NEW i \in 1..n PROVE Position(b, list[i]) = i
  <2>. DEFINE before == [j \in 1..i-1 |-> list[j]]
  <2>1. i - 1 \in Nat /\ \A j \in 1..i-1 : j \in 1..n /\ j < i
    BY <1>1
  <2>2. before \in [1..i-1 -> Leaders(b, list[i])]
    BY <2>1 DEF Leaders
  <2>3. before \in Injection(1..i-1, Leaders(b, list[i]))
    BY <1>2, <2>1, <2>2 DEF Injection, IsInjective
  <2>4. ASSUME NEW u \in Leaders(b, list[i]) PROVE \E j \in 1..i-1 : before[j] = u
    <3>1. PICK j \in 1..n : list[j] = u
      BY <1>5 DEF Leaders
    <3>2. Ahead(b, list[j], list[i]) /\ list[i] \in Users /\ list[j] \in Users
      BY <1>1, <3>1 DEF Leaders
    <3>3. ~(i < j) /\ i # j
      BY <3>2, AheadOrders
    <3>4. j \in 1..i-1
      BY <1>1, <3>3
    <3>. QED
      BY <3>1, <3>4
  <2>5. before \in Surjection(1..i-1, Leaders(b, list[i]))
    BY <2>2, <2>4 DEF Surjection
  <2>6. ExistsBijection(1..i-1, Leaders(b, list[i]))
    BY <2>3, <2>5 DEF ExistsBijection, Bijection
  <2>7. Cardinality(Leaders(b, list[i])) = i - 1
    BY <2>1, <2>6, FS_CountingElements
  <2>. QED
    BY <1>1, <2>7, PositionCounts
<1>. QED
  BY <1>5, <1>6 DEF Lists

-----------------------------------------------------------------------------
(* The lists the two stores sort.                                          *)

\* ORDER BY score DESC, user_id DESC.
LEMMA PostgresOrder ==
  ASSUME NEW b \in Board
  PROVE  Lists(b, InOrder(b, LAMBDA u, v : Ahead(b, u, v)))
<1>. DEFINE M == Members(b)
            n == Cardinality(M)
            Sorted(list) == \A i, j \in DOMAIN list : i < j => Ahead(b, list[i], list[j])
            first == [k \in 1..n |-> CHOOSE u \in M : Position(b, u) = k]
            chosen == CHOOSE list \in [1..n -> M] : Sorted(list)
<1>1. \A k \in 1..n : first[k] \in M /\ Position(b, first[k]) = k
  BY Positions
<1>2. first \in [1..n -> M]
  BY <1>1
<1>3. Sorted(first)
  BY <1>1, <1>2, Positions
<1>4. chosen \in [1..n -> M] /\ Sorted(chosen)
  BY <1>2, <1>3
<1>5. Lists(b, chosen)
  BY <1>4, SortedByPosition
<1>6. InOrder(b, LAMBDA u, v : Ahead(b, u, v)) = chosen
  BY DEF InOrder
<1>. QED
  BY <1>5, <1>6

\* A sorted set, read backwards.
LEMMA RedisOrder ==
  ASSUME NEW b \in Board
  PROVE  Lists(b, Reverse(SortedSet(b)))
<1>. DEFINE M == Members(b)
            n == Cardinality(M)
            Sorted(list) == \A i, j \in DOMAIN list :
                               i < j => \/ b[list[i]] < b[list[j]]
                                        \/ b[list[i]] = b[list[j]] /\ list[i] < list[j]
            last == [k \in 1..n |-> CHOOSE u \in M : Position(b, u) = n + 1 - k]
            chosen == CHOOSE list \in [1..n -> M] : Sorted(list)
<1>1. n \in Nat
  BY BoardRanges
<1>2. \A k \in 1..n : last[k] \in M /\ Position(b, last[k]) = n + 1 - k
  <2>1. \A k \in 1..n : n + 1 - k \in 1..n
    BY <1>1
  <2>. QED
    BY <2>1, Positions
<1>3. last \in [1..n -> M]
  BY <1>2
<1>4. Sorted(last)
  <2>. SUFFICES ASSUME NEW i \in 1..n, NEW j \in 1..n, i < j
                PROVE  \/ b[last[i]] < b[last[j]]
                       \/ b[last[i]] = b[last[j]] /\ last[i] < last[j]
    OBVIOUS
  <2>1. Position(b, last[j]) < Position(b, last[i])
    BY <1>1, <1>2
  <2>2. Ahead(b, last[j], last[i])
    BY <1>2, <2>1, Positions
  <2>3. last[i] \in Users /\ last[j] \in Users
    BY <1>2, BoardRanges
  <2>. QED
    BY <2>2, <2>3, BoardRanges DEF Ahead
<1>5. chosen \in [1..n -> M] /\ Sorted(chosen)
  <2>1. \E list \in [1..n -> M] : Sorted(list)
    BY <1>3, <1>4
  <2>. HIDE DEF n, M, Sorted
  <2>. QED
    BY <2>1
<1>6. SortedSet(b) = chosen
  BY DEF SortedSet, InOrder
<1>7. Len(chosen) = n /\ DOMAIN chosen = 1..n
  BY <1>1, <1>5
<1>. DEFINE list == [i \in 1..n |-> chosen[(n - i) + 1]]
<1>8. Reverse(SortedSet(b)) = list
  BY <1>6, <1>7 DEF Reverse
<1>9. \A i \in 1..n : (n - i) + 1 \in 1..n
  BY <1>1
<1>10. list \in [1..n -> M]
  BY <1>5, <1>9
<1>11. ASSUME NEW i \in 1..n, NEW j \in 1..n, i < j PROVE Ahead(b, list[i], list[j])
  <2>. DEFINE p == (n - i) + 1
              q == (n - j) + 1
  <2>1. p \in 1..n /\ q \in 1..n /\ q < p
    BY <1>1, <1>11
  <2>2. \/ b[chosen[q]] < b[chosen[p]]
        \/ b[chosen[q]] = b[chosen[p]] /\ chosen[q] < chosen[p]
    BY <1>5, <1>7, <2>1
  <2>3. list[i] = chosen[p] /\ list[j] = chosen[q]
    OBVIOUS
  <2>4. list[i] \in Users /\ list[j] \in Users
    BY <1>10, BoardRanges
  <2>. QED
    BY <2>2, <2>3, <2>4, BoardRanges DEF Ahead
<1>12. Lists(b, list)
  BY <1>10, <1>11, SortedByPosition
<1>. QED
  BY <1>8, <1>12

-----------------------------------------------------------------------------
(* Pages.                                                                  *)

\* The rows from the 0-based position "from" to before "to".
PageOf(b, from, to) ==
    {[rank |-> Position(b, u), user |-> u, score |-> b[u]] :
        u \in {w \in Members(b) : from < Position(b, w) /\ Position(b, w) <= to}}

\* entries are the rows of a page, by rank.
IsPage(b, from, to, entries) ==
    /\ entries \in Seq(Entry)
    /\ ToSet(entries) = PageOf(b, from, to)
    /\ \A i \in DOMAIN entries : entries[i].rank = from + i

\* Either store cuts its page out of a list of the board.
LEMMA Page ==
  ASSUME NEW b \in Board, NEW list, Lists(b, list), NEW from \in Nat, NEW to \in Int
  PROVE  IsPage(b, from, to,
                Numbered(b, from, SubSeq(list, from + 1, Least(to, Cardinality(Members(b))))))
<1>. DEFINE M == Members(b)
            n == Cardinality(M)
            end == Least(to, n)
            rows == SubSeq(list, from + 1, end)
            entries == Numbered(b, from, rows)
            size == IF from + 1 <= end THEN end - from ELSE 0
<1>1. n \in Nat /\ M \subseteq Users /\ \A u \in M : b[u] \in Scores
  BY BoardRanges
<1>2. end \in Int /\ end <= n /\ end <= to /\ (end = n \/ end = to)
  BY <1>1 DEF Least
<1>3. \A k \in from + 1..end : k \in 1..n /\ list[k] \in M
  BY <1>1, <1>2 DEF Lists
<1>4. /\ rows \in Seq(M)
      /\ Len(rows) = size
      /\ \A i \in 1..size : rows[i] = list[from + i]
  <2>1. from + 1 \in Int /\ end \in Int /\ \A k \in from + 1..end : list[k] \in M
    BY <1>2, <1>3
  <2>2. /\ rows \in Seq(M)
        /\ Len(rows) = IF from + 1 <= end THEN end - (from + 1) + 1 ELSE 0
        /\ \A i \in 1..end - (from + 1) + 1 : rows[i] = list[from + 1 + i - 1]
    BY <2>1, SubSeqProperties
  <2>3. ASSUME NEW i \in 1..size
        PROVE  i \in 1..end - (from + 1) + 1 /\ from + 1 + i - 1 = from + i
    BY <1>2
  <2>. QED
    BY <1>2, <2>2, <2>3
<1>5. size \in Nat /\ DOMAIN rows = 1..size
  BY <1>2, <1>4, LenProperties
<1>6. \A i \in 1..size : from + i \in 1..n /\ from + i <= end /\ rows[i] \in M
  BY <1>2, <1>3, <1>4
<1>7. entries = [i \in 1..size |-> [rank |-> from + i, user |-> rows[i], score |-> b[rows[i]]]]
  BY <1>5 DEF Numbered
<1>8. \A i \in 1..size : [rank |-> from + i, user |-> rows[i], score |-> b[rows[i]]] \in Entry
  <2>. SUFFICES ASSUME NEW i \in 1..size
                PROVE  [rank |-> from + i, user |-> rows[i], score |-> b[rows[i]]] \in Entry
    OBVIOUS
  <2>. HIDE DEF rows
  <2>1. from + i \in Nat /\ rows[i] \in Users /\ b[rows[i]] \in Scores
    BY <1>1, <1>6
  <2>. QED
    BY <2>1 DEF Entry
<1>. HIDE DEF entries, rows, size
<1>9. /\ entries \in [1..size -> Entry]
      /\ DOMAIN entries = 1..size
      /\ \A i \in 1..size :
           entries[i] = [rank |-> from + i, user |-> rows[i], score |-> b[rows[i]]]
  BY <1>7, <1>8
<1>10. /\ entries \in Seq(Entry)
       /\ \A i \in DOMAIN entries : entries[i].rank = from + i
  <2>1. entries \in Seq(Entry)
    BY <1>5, <1>9, SeqDef
  <2>. QED
    BY <1>9, <2>1
<1>11. ASSUME NEW i \in 1..size PROVE entries[i] \in PageOf(b, from, to)
  <2>1. /\ Position(b, rows[i]) = from + i
        /\ from < from + i /\ from + i <= to
    BY <1>2, <1>4, <1>6 DEF Lists
  <2>. QED
    BY <1>6, <1>9, <2>1 DEF PageOf
<1>12. ASSUME NEW u \in M, from < Position(b, u), Position(b, u) <= to
       PROVE  \E i \in 1..size :
                entries[i] = [rank |-> Position(b, u), user |-> u, score |-> b[u]]
  <2>. DEFINE i == Position(b, u) - from
  <2>1. Position(b, u) \in 1..n /\ list[Position(b, u)] = u
    BY DEF Lists
  <2>2. i \in 1..size /\ from + i = Position(b, u)
    BY <1>1, <1>2, <1>12, <2>1 DEF size
  <2>3. rows[i] = u
    BY <1>4, <2>1, <2>2
  <2>. QED
    BY <1>9, <2>2, <2>3
<1>13. ToSet(entries) = PageOf(b, from, to)
  <2>1. ToSet(entries) = {entries[i] : i \in 1..size}
    BY <1>9 DEF ToSet
  <2>2. ASSUME NEW e \in PageOf(b, from, to) PROVE \E i \in 1..size : entries[i] = e
    BY <1>12 DEF PageOf
  <2>. QED
    BY <1>11, <2>1, <2>2
<1>14. IsPage(b, from, to, entries)
  BY <1>10, <1>13 DEF IsPage
<1>. QED
  BY <1>14 DEF entries, rows

\* The page either store cuts for a query, and the last row that can be on it.
LEMMA PagesOfTheStores ==
  ASSUME NEW b \in Board, NEW from \in Nat, NEW limit \in Int
  PROVE  /\ IsPage(b, from, from + limit, Numbered(b, from, Selected(b, from, limit)))
         /\ IsPage(b, from, from + limit,
                   Numbered(b, from, ZRevRange(b, from, from + limit - 1)))
<1>. DEFINE size == Cardinality(Members(b))
<1>1. from + limit \in Int /\ (from + limit - 1) + 1 = from + limit
  OBVIOUS
<1>2. IsPage(b, from, from + limit, Numbered(b, from, Selected(b, from, limit)))
  BY <1>1, PostgresOrder, Page DEF Selected
<1>3. ZRevRange(b, from, from + limit - 1) =
        SubSeq(Reverse(SortedSet(b)), from + 1, Least(from + limit, size))
  BY <1>1 DEF ZRevRange
<1>4. IsPage(b, from, from + limit,
             Numbered(b, from, ZRevRange(b, from, from + limit - 1)))
  BY <1>1, <1>3, RedisOrder, Page
<1>. QED
  BY <1>2, <1>4

\* ZREVRANK is the 0-based position.
LEMMA RankOfMember ==
  ASSUME NEW b \in Board, NEW u \in Members(b)
  PROVE  ZRevRank(b, u) = Position(b, u) - 1 /\ ZRevRank(b, u) \in Nat
<1>. DEFINE n == Cardinality(Members(b))
            list == Reverse(SortedSet(b))
            found == ZRevRank(b, u)
<1>1. n \in Nat
  BY BoardRanges
<1>2. Lists(b, list)
  BY RedisOrder
<1>3. ASSUME NEW k \in 0..n-1 PROVE ZRevRange(b, k, k) = <<list[k + 1]>>
  <2>1. k + 1 \in 1..n /\ k + 1 \in Int /\ Least(k + 1, n) = k + 1
    BY <1>1 DEF Least
  <2>2. \A i \in k + 1..k + 1 : list[i] \in Members(b)
    BY <1>2, <2>1 DEF Lists
  <2>3. /\ SubSeq(list, k + 1, k + 1) \in Seq(Members(b))
        /\ Len(SubSeq(list, k + 1, k + 1)) = 1
        /\ SubSeq(list, k + 1, k + 1)[1] = list[k + 1]
    <3>1. /\ SubSeq(list, k + 1, k + 1) \in Seq(Members(b))
          /\ Len(SubSeq(list, k + 1, k + 1)) = IF k + 1 <= k + 1 THEN (k + 1) - (k + 1) + 1 ELSE 0
          /\ \A i \in 1..(k + 1) - (k + 1) + 1 :
                SubSeq(list, k + 1, k + 1)[i] = list[(k + 1) + i - 1]
      BY <2>1, <2>2, SubSeqProperties
    <3>2. (k + 1) - (k + 1) + 1 = 1 /\ (k + 1) + 1 - 1 = k + 1
      BY <2>1
    <3>. QED
      BY <2>1, <3>1, <3>2
  <2>4. SubSeq(list, k + 1, k + 1) = <<list[k + 1]>>
    <3>1. <<list[k + 1]>> \in Seq(Members(b)) /\ Len(<<list[k + 1]>>) = 1
      BY <2>1, <2>2
    <3>2. \A i \in 1..1 : SubSeq(list, k + 1, k + 1)[i] = <<list[k + 1]>>[i]
      BY <2>3
    <3>. HIDE DEF list
    <3>. QED
      BY <2>3, <3>1, <3>2, SeqEqual
  <2>. QED
    BY <2>1, <2>4 DEF ZRevRange
<1>4. /\ Position(b, u) \in 1..n
      /\ list[Position(b, u)] = u
  BY <1>2 DEF Lists
<1>5. Position(b, u) - 1 \in 0..n-1 /\ ZRevRange(b, Position(b, u) - 1, Position(b, u) - 1) = <<u>>
  <2>1. Position(b, u) - 1 \in 0..n-1 /\ (Position(b, u) - 1) + 1 = Position(b, u)
    BY <1>1, <1>4
  <2>. QED
    BY <1>3, <1>4, <2>1
<1>6. found \in 0..n-1 /\ ZRevRange(b, found, found) = <<u>>
  <2>1. \E k \in 0..n-1 : ZRevRange(b, k, k) = <<u>>
    BY <1>5
  <2>. QED
    BY <2>1 DEF ZRevRank
<1>7. list[found + 1] = u
  BY <1>3, <1>6
<1>8. found + 1 \in 1..n
  BY <1>1, <1>6
<1>9. Position(b, u) = found + 1
  BY <1>2, <1>7, <1>8 DEF Lists
<1>. QED
  BY <1>1, <1>6, <1>9

-----------------------------------------------------------------------------
(* What the contract asks for is a page.                                   *)

\* The first row of the window around position p: the clamp of either store.
WindowStart(p, window) == IF p - 1 - window < 0 THEN 0 ELSE p - 1 - window

LEMMA DueIsPage ==
  ASSUME NEW b \in Board, NEW query \in Query
  PROVE  /\ query.kind = "top" =>
              /\ query.limit \in Nat /\ query.offset \in Nat
              /\ Due(b, query) = PageOf(b, query.offset, query.offset + query.limit)
         /\ query.kind = "around" =>
              /\ query.user \in Users /\ query.window \in Nat
              /\ query.user \in Members(b) =>
                   Due(b, query) = PageOf(b, WindowStart(Position(b, query.user), query.window),
                                             Position(b, query.user) + query.window)
<1>1. \A u \in Members(b) : Position(b, u) \in Nat /\ Position(b, u) >= 1
  BY Positions, BoardRanges
<1>2. CASE query.kind = "top"
  <2>1. query.limit \in Nat /\ query.offset \in Nat
    BY <1>2, QueriesAssumption DEF Query
  <2>2. \A w \in Members(b) :
          (IF query.kind = "top"
             THEN /\ query.offset < Position(b, w)
                  /\ Position(b, w) <= query.offset + query.limit
             ELSE /\ Position(b, w) >= Position(b, query.user) - query.window
                  /\ Position(b, w) <= Position(b, query.user) + query.window)
          <=> query.offset < Position(b, w) /\ Position(b, w) <= query.offset + query.limit
    BY <1>2
  <2>3. Due(b, query) = PageOf(b, query.offset, query.offset + query.limit)
    BY <2>2 DEF Due, PageOf
  <2>. QED
    BY <1>2, <2>1, <2>3
<1>3. CASE query.kind = "around"
  <2>1. query.user \in Users /\ query.window \in Nat
    BY <1>3, QueriesAssumption DEF Query
  <2>2. ASSUME query.user \in Members(b)
        PROVE  Due(b, query) = PageOf(b, WindowStart(Position(b, query.user), query.window),
                                         Position(b, query.user) + query.window)
    <3>. DEFINE p == Position(b, query.user)
                from == WindowStart(p, query.window)
                to == p + query.window
    <3>1. p \in Nat
      BY <1>1, <2>2
    <3>2. ASSUME NEW w \in Members(b)
          PROVE  (IF query.kind = "top"
                    THEN /\ query.offset < Position(b, w)
                         /\ Position(b, w) <= query.offset + query.limit
                    ELSE /\ Position(b, w) >= p - query.window
                         /\ Position(b, w) <= p + query.window)
                 <=> from < Position(b, w) /\ Position(b, w) <= to
      <4>1. Position(b, w) >= p - query.window <=> from < Position(b, w)
        BY <1>1, <2>1, <3>1 DEF WindowStart
      <4>. QED
        BY <1>3, <4>1
    <3>3. Due(b, query) = PageOf(b, from, to)
      BY <3>2 DEF Due, PageOf
    <3>. QED
      BY <3>3
  <2>. QED
    BY <1>3, <2>1, <2>2
<1>. QED
  BY <1>2, <1>3 DEF Query

\* A user's own row is on the page around it.
LEMMA OwnRow ==
  ASSUME NEW b \in Board, NEW u \in Members(b), NEW window \in Nat, NEW entries,
         IsPage(b, WindowStart(Position(b, u), window), Position(b, u) + window, entries)
  PROVE  HasRank(entries, Position(b, u))
<1>. DEFINE p == Position(b, u)
            own == [rank |-> p, user |-> u, score |-> b[u]]
<1>1. p \in Nat /\ p >= 1
  BY Positions, BoardRanges
<1>2. WindowStart(p, window) < p /\ p <= p + window
  BY <1>1 DEF WindowStart
<1>3. own \in PageOf(b, WindowStart(p, window), p + window)
  BY <1>2 DEF PageOf
<1>4. own \in ToSet(entries)
  BY <1>3 DEF IsPage
<1>5. PICK i \in DOMAIN entries : entries[i] = own
  BY <1>4 DEF ToSet
<1>6. entries[i].rank = p
  BY <1>5
<1>. QED
  BY <1>6 DEF HasRank

\* No row of a page has a rank beyond the size of the board.
LEMMA PageWithin ==
  ASSUME NEW b \in Board, NEW from, NEW to, NEW entries, IsPage(b, from, to, entries)
  PROVE  \A i \in DOMAIN entries : entries[i].rank <= Cardinality(Members(b))
<1>. SUFFICES ASSUME NEW i \in DOMAIN entries
              PROVE  entries[i].rank <= Cardinality(Members(b))
  OBVIOUS
<1>1. entries[i] \in PageOf(b, from, to)
  BY DEF IsPage, ToSet
<1>2. PICK u \in Members(b) : entries[i] = [rank |-> Position(b, u), user |-> u, score |-> b[u]]
  BY <1>1 DEF PageOf
<1>3. Position(b, u) <= Cardinality(Members(b))
  BY Positions, BoardRanges
<1>. QED
  BY <1>2, <1>3

\* The rows of a page come by rank.
LEMMA PageAscends ==
  ASSUME NEW b, NEW from \in Nat, NEW to, NEW entries, IsPage(b, from, to, entries)
  PROVE  \A i, j \in DOMAIN entries : i < j => entries[i].rank < entries[j].rank
<1>1. DOMAIN entries \subseteq Nat
  <2>1. entries \in Seq(Entry)
    BY DEF IsPage
  <2>. QED
    BY <2>1, LenProperties
<1>2. \A i \in DOMAIN entries : entries[i].rank = from + i
  BY DEF IsPage
<1>. QED
  BY <1>1, <1>2

-----------------------------------------------------------------------------
(* The inductive invariant.                                                *)

\* The rows a request has are the ones it asked for, by rank.
RowsDue(q) ==
    /\ ToSet(seen[q].entries) = Due(board, ask[q])
    /\ \A i, j \in DOMAIN seen[q].entries :
          i < j => seen[q].entries[i].rank < seen[q].entries[j].rank

\* What a request has seen so far: nothing beyond the board and, as long as no
\* submission has landed since it began, what the board says now.
Reading(q) ==
    /\ step[q] \in {"score", "rank"} => ask[q].kind = "around"
    /\ step[q] = "total" =>
          \A i \in DOMAIN seen[q].entries :
             seen[q].entries[i].rank <= Cardinality(Members(board))
    /\ step[q] = "answered" =>
          \A i \in DOMAIN seen[q].entries : seen[q].entries[i].rank <= seen[q].total
    /\ fresh[q] =>
          /\ step[q] # "broken"
          /\ step[q] = "unranked" => board[ask[q].user] = NoStanding
          /\ step[q] = "rank" =>
                ask[q].user \in Members(board) /\ seen[q].score = board[ask[q].user]
          /\ step[q] \in {"rows", "total", "answered"} /\ ask[q].kind = "around" =>
                ask[q].user \in Members(board) /\ seen[q].rank = Position(board, ask[q].user)
          /\ step[q] \in {"total", "answered"} => RowsDue(q)
          /\ step[q] = "total" /\ ask[q].kind = "around" =>
                HasRank(seen[q].entries, seen[q].rank)
          /\ step[q] = "answered" => seen[q].total = Cardinality(Members(board))

IInv ==
    /\ TypeOK
    /\ IsFiniteSet(Members(board))
    /\ \A q \in Readers : Reading(q)

LEMMA BoardIsBoard == ASSUME IInv PROVE board \in Board
BY DEF IInv, TypeOK, Board

LEMMA NoReplyIsReply == NoReply \in Reply
<1>1. << >> \in Seq(Entry)
  BY EmptySeq
<1>. QED
  BY <1>1 DEF NoReply, Reply

LEMMA InitInvariant == Init => IInv
<1>. SUFFICES ASSUME Init PROVE IInv
  OBVIOUS
<1>1. \E query \in Query : query.kind = "top"
  <2>1. PICK l \in Limits, o \in Offsets : TRUE
    BY QueriesAssumption
  <2>2. [kind |-> "top", limit |-> l, offset |-> o] \in Query
    BY <2>1 DEF Query
  <2>. QED
    BY <2>2
<1>2. TypeOK
  <2>1. ask \in [Readers -> Query]
    BY <1>1 DEF Init
  <2>2. step \in [Readers -> {"script", "score", "rank", "rows", "total"} \cup Ended]
    BY DEF Init, Ended
  <2>3. seen \in [Readers -> Reply]
    BY NoReplyIsReply DEF Init
  <2>. QED
    BY <2>1, <2>2, <2>3 DEF Init, TypeOK
<1>3. IsFiniteSet(Members(board))
  <2>1. Members(board) = {}
    BY DEF Init, Members
  <2>. QED
    BY <2>1, FS_EmptySet
<1>4. ASSUME NEW q \in Readers PROVE Reading(q)
  <2>1. step[q] = "answered" /\ fresh[q] = FALSE /\ DOMAIN seen[q].entries = {}
    BY DEF Init, NoReply
  <2>. QED
    BY <2>1 DEF Reading
<1>. QED
  BY <1>2, <1>3, <1>4 DEF IInv

\* An answer to one request concerns no other.
LEMMA AnswerInvariant ==
  ASSUME IInv, NEW q \in Readers, NEW reply \in Reply,
         NEW end \in {"script", "score", "rank", "rows", "total"} \cup Ended,
         Answer(q, reply, end),
         seen'[q] = reply /\ step'[q] = end => Reading(q)'
  PROVE  IInv'
<1>1. /\ board' = board /\ ask' = ask /\ fresh' = fresh
      /\ seen' = [seen EXCEPT ![q] = reply]
      /\ step' = [step EXCEPT ![q] = end]
  BY DEF Answer
<1>2. TypeOK
  BY DEF IInv
<1>3. TypeOK'
  BY <1>1, <1>2 DEF TypeOK
<1>4. IsFiniteSet(Members(board))'
  BY <1>1 DEF IInv, Members
<1>5. seen'[q] = reply /\ step'[q] = end
  BY <1>1, <1>2 DEF TypeOK
<1>6. ASSUME NEW p \in Readers, p # q PROVE Reading(p)'
  <2>1. seen'[p] = seen[p] /\ step'[p] = step[p] /\ Reading(p)
    BY <1>1, <1>2, <1>6 DEF TypeOK, IInv
  <2>2. Members(board)' = Members(board) /\ \A u : Position(board, u)' = Position(board, u)
    BY <1>1 DEF Members, Position
  <2>3. RowsDue(p)' <=> RowsDue(p)
    <3>1. Due(board', ask'[p]) = Due(board, ask[p])
      BY <1>1, <2>1
    <3>. QED
      BY <2>1, <3>1 DEF RowsDue
  <2>4. HasRank(seen[p].entries, seen[p].rank)' <=> HasRank(seen[p].entries, seen[p].rank)
    BY <2>1 DEF HasRank
  <2>. QED
    BY <1>1, <2>1, <2>2, <2>3, <2>4 DEF Reading
<1>. QED
  BY <1>3, <1>4, <1>5, <1>6 DEF IInv

\* A submission makes every request stale and takes no row away.
LEMMA SubmitInvariant ==
  ASSUME IInv, NEW u \in Users, NEW v \in Scores, Submit(u, v)
  PROVE  IInv'
<1>1. /\ board' = [board EXCEPT ![u] = v]
      /\ fresh' = [q \in Readers |-> FALSE]
      /\ ask' = ask /\ step' = step /\ seen' = seen
  BY DEF Submit
<1>2. TypeOK'
  BY <1>1 DEF IInv, TypeOK
<1>3. Members(board') = Members(board) \cup {u}
  <2>1. v # NoStanding
    BY RankingScoresAssumption DEF NoStanding
  <2>. QED
    BY <1>1, <2>1 DEF IInv, TypeOK, Members
<1>4. IsFiniteSet(Members(board')) /\ Cardinality(Members(board')) \in Nat
  BY <1>3, FS_AddElement, FS_CardinalityType DEF IInv
<1>5. Cardinality(Members(board)) <= Cardinality(Members(board')) /\ Cardinality(Members(board)) \in Nat
  BY <1>3, <1>4, FS_Subset, FS_CardinalityType DEF IInv
<1>6. ASSUME NEW q \in Readers PROVE Reading(q)'
  <2>1. Reading(q) /\ fresh'[q] = FALSE
    BY <1>1 DEF IInv
  <2>2. \A i \in DOMAIN seen[q].entries : seen[q].entries[i].rank \in Nat
    <3>1. seen[q].entries \in Seq(Entry)
      BY DEF IInv, TypeOK, Reply
    <3>2. \A i \in DOMAIN seen[q].entries : seen[q].entries[i] \in Entry
      BY <3>1, LenProperties
    <3>. QED
      BY <3>2 DEF Entry
  <2>3. ASSUME step[q] = "total", NEW i \in DOMAIN seen[q].entries
        PROVE  seen[q].entries[i].rank <= Cardinality(Members(board'))
    <3>1. seen[q].entries[i].rank <= Cardinality(Members(board))
      BY <2>1, <2>3 DEF Reading
    <3>. QED
      BY <1>4, <1>5, <2>2, <3>1
  <2>. QED
    BY <1>1, <2>1, <2>3 DEF Reading
<1>. QED
  BY <1>2, <1>4, <1>6 DEF IInv

LEMMA RequestInvariant ==
  ASSUME IInv, NEW q \in Readers, Request(q)
  PROVE  IInv'
<1>1. PICK query \in Query :
        /\ ask' = [ask EXCEPT ![q] = query]
        /\ \/ step' = [step EXCEPT ![q] = "script"]
           \/ step' = [step EXCEPT ![q] = IF query.kind = "top" THEN "rows" ELSE "score"]
  BY DEF Request
<1>2. /\ board' = board
      /\ seen' = [seen EXCEPT ![q] = NoReply]
      /\ fresh' = [fresh EXCEPT ![q] = TRUE]
  BY DEF Request
<1>3. TypeOK
  BY DEF IInv
<1>4. TypeOK'
  <2>1. ask' \in [Readers -> Query]
    BY <1>1, <1>3 DEF TypeOK
  <2>2. step' \in [Readers -> {"script", "score", "rank", "rows", "total"} \cup Ended]
    BY <1>1, <1>3 DEF TypeOK
  <2>3. seen' \in [Readers -> Reply]
    BY <1>2, <1>3, NoReplyIsReply DEF TypeOK
  <2>4. fresh' \in [Readers -> BOOLEAN]
    BY <1>2, <1>3 DEF TypeOK
  <2>. QED
    BY <1>2, <1>3, <2>1, <2>2, <2>3, <2>4 DEF TypeOK
<1>5. IsFiniteSet(Members(board))'
  BY <1>2 DEF IInv, Members
<1>6. Reading(q)'
  <2>1. /\ ask'[q] = query
        /\ step'[q] \in {"script", "rows", "score"}
        /\ step'[q] = "score" => query.kind # "top"
        /\ step'[q] = "rows" => query.kind = "top"
    BY <1>1, <1>3 DEF TypeOK
  <2>2. query.kind \in {"top", "around"}
    BY DEF Query
  <2>. QED
    BY <2>1, <2>2 DEF Reading
<1>7. ASSUME NEW p \in Readers, p # q PROVE Reading(p)'
  <2>1. /\ seen'[p] = seen[p] /\ step'[p] = step[p] /\ ask'[p] = ask[p] /\ fresh'[p] = fresh[p]
        /\ Reading(p)
    BY <1>1, <1>2, <1>3, <1>7 DEF TypeOK, IInv
  <2>2. Members(board)' = Members(board) /\ \A u : Position(board, u)' = Position(board, u)
    BY <1>2 DEF Members, Position
  <2>3. RowsDue(p)' <=> RowsDue(p)
    <3>1. Due(board', ask'[p]) = Due(board, ask[p])
      BY <1>2, <2>1
    <3>. QED
      BY <2>1, <3>1 DEF RowsDue
  <2>4. HasRank(seen[p].entries, seen[p].rank)' <=> HasRank(seen[p].entries, seen[p].rank)
    BY <2>1 DEF HasRank
  <2>. QED
    BY <1>2, <2>1, <2>2, <2>3, <2>4 DEF Reading
<1>. QED
  BY <1>4, <1>5, <1>6, <1>7 DEF IInv

\* What a page of the board means for a request that has it.
LEMMA PageIsDue ==
  ASSUME IInv, NEW q \in Readers, NEW from \in Nat, NEW to, NEW entries,
         IsPage(board, from, to, entries)
  PROVE  /\ entries \in Seq(Entry)
         /\ \A i \in DOMAIN entries : entries[i].rank <= Cardinality(Members(board))
         /\ \A i, j \in DOMAIN entries : i < j => entries[i].rank < entries[j].rank
         /\ ToSet(entries) = PageOf(board, from, to)
BY BoardIsBoard, PageWithin, PageAscends DEF IsPage

\* The query of a request, and the page that is due to it.
LEMMA TopQuery ==
  ASSUME IInv, NEW q \in Readers, ask[q].kind = "top"
  PROVE  /\ ask[q].limit \in Nat /\ ask[q].offset \in Nat
         /\ Due(board, ask[q]) = PageOf(board, ask[q].offset, ask[q].offset + ask[q].limit)
BY BoardIsBoard, DueIsPage DEF IInv, TypeOK

LEMMA AroundQuery ==
  ASSUME IInv, NEW q \in Readers, ask[q].kind = "around"
  PROVE  /\ ask[q].user \in Users /\ ask[q].window \in Nat
         /\ ask[q].user \in Members(board) =>
              Due(board, ask[q]) =
                PageOf(board, WindowStart(Position(board, ask[q].user), ask[q].window),
                              Position(board, ask[q].user) + ask[q].window)
BY BoardIsBoard, DueIsPage DEF IInv, TypeOK

LEMMA KindOfQuery ==
  ASSUME IInv, NEW q \in Readers
  PROVE  ask[q].kind \in {"top", "around"}
<1>1. ask[q] \in Query
  BY DEF IInv, TypeOK
<1>. QED
  BY <1>1 DEF Query

\* Redis answers a query for a page with one script ...
LEMMA ScriptTopInvariant ==
  ASSUME IInv, NEW q \in Readers, Script(q), ask[q].kind = "top"
  PROVE  IInv'
<1>. DEFINE limit == ask[q].limit
            offset == ask[q].offset
            entries == Numbered(board, offset, ZRevRange(board, offset, offset + limit - 1))
            reply == RedisTop(board, limit, offset)
<1>1. Answer(q, reply, "answered")
  BY DEF Script
<1>2. limit \in Nat /\ offset \in Nat
  BY TopQuery
<1>3. IsPage(board, offset, offset + limit, entries)
  <2>1. board \in Board /\ limit \in Int
    BY <1>2, BoardIsBoard
  <2>. QED
    BY <1>2, <2>1, PagesOfTheStores
<1>4. /\ entries \in Seq(Entry)
      /\ \A i \in DOMAIN entries : entries[i].rank <= Cardinality(Members(board))
      /\ \A i, j \in DOMAIN entries : i < j => entries[i].rank < entries[j].rank
      /\ ToSet(entries) = Due(board, ask[q])
  BY <1>2, <1>3, PageIsDue, TopQuery
<1>. HIDE DEF entries
<1>5. /\ reply.entries = entries
      /\ reply.total = Cardinality(Members(board))
      /\ reply = [score |-> NoStanding, rank |-> 0, entries |-> entries,
                  total |-> Cardinality(Members(board))]
  BY DEF RedisTop, entries
<1>6. Cardinality(Members(board)) \in Nat
  BY BoardIsBoard, BoardRanges
<1>7. reply \in Reply
  BY <1>4, <1>5, <1>6 DEF Reply
<1>. HIDE DEF reply
<1>8. ASSUME seen'[q] = reply, step'[q] = "answered" PROVE Reading(q)'
  <2>1. board' = board /\ ask'[q] = ask[q]
    BY <1>1 DEF Answer
  <2>2. Due(board', ask'[q]) = Due(board, ask[q]) /\ Members(board)' = Members(board)
    BY <2>1 DEF Members
  <2>3. RowsDue(q)'
    BY <1>4, <1>5, <1>8, <2>2 DEF RowsDue
  <2>. QED
    BY <1>4, <1>5, <1>8, <2>1, <2>2, <2>3 DEF Reading
<1>. QED
  BY <1>1, <1>7, <1>8, AnswerInvariant DEF Ended

\* ... and a query for a user's surroundings with another.
LEMMA ScriptAroundInvariant ==
  ASSUME IInv, NEW q \in Readers, Script(q), ask[q].kind = "around"
  PROVE  IInv'
<1>. DEFINE u == ask[q].user
            window == ask[q].window
            p == Position(board, u)
            from == WindowStart(p, window)
            reply == RedisAround(board, u, window)
<1>1. u \in Users /\ window \in Nat
  BY AroundQuery
<1>2. CASE u \notin Members(board)
  <2>1. Answer(q, NoReply, "unranked")
    BY <1>2 DEF Script
  <2>2. board[u] = NoStanding /\ board' = board /\ ask' = ask
    BY <1>1, <1>2, <2>1 DEF Members, Answer
  <2>3. ASSUME step'[q] = "unranked" PROVE Reading(q)'
    BY <2>2, <2>3 DEF Reading
  <2>. QED
    BY <2>1, <2>3, AnswerInvariant, NoReplyIsReply DEF Ended
<1>3. CASE u \in Members(board)
  <2>1. /\ ZRevRank(board, u) = p - 1 /\ p - 1 \in Nat
        /\ p \in Nat /\ from \in Nat
    <3>1. ZRevRank(board, u) = p - 1 /\ ZRevRank(board, u) \in Nat /\ p \in Int
      BY <1>3, BoardIsBoard, RankOfMember, Positions, BoardRanges
    <3>. QED
      BY <1>1, <3>1 DEF WindowStart
  <2>. DEFINE entries == Numbered(board, from, ZRevRange(board, from, p - 1 + window))
  <2>2. reply = [score |-> board[u], rank |-> p - 1 + 1, total |-> Cardinality(Members(board)),
                 entries |-> entries]
    BY <2>1 DEF RedisAround, WindowStart
  <2>3. IsPage(board, from, p + window, entries)
    <3>. DEFINE limit == p + window - from
    <3>1. limit \in Int /\ from + limit = p + window /\ from + limit - 1 = p - 1 + window
      BY <1>1, <2>1
    <3>2. IsPage(board, from, from + limit,
                 Numbered(board, from, ZRevRange(board, from, from + limit - 1)))
      BY <2>1, <3>1, BoardIsBoard, PagesOfTheStores
    <3>. QED
      BY <3>1, <3>2
  <2>4. /\ entries \in Seq(Entry)
        /\ \A i \in DOMAIN entries : entries[i].rank <= Cardinality(Members(board))
        /\ \A i, j \in DOMAIN entries : i < j => entries[i].rank < entries[j].rank
        /\ ToSet(entries) = Due(board, ask[q])
    BY <1>3, <2>1, <2>3, PageIsDue, AroundQuery
  <2>5. HasRank(entries, p)
    BY <1>1, <1>3, <2>3, BoardIsBoard, OwnRow
  <2>. HIDE DEF entries, from, p
  <2>6. reply.entries = entries /\ reply.rank = p /\ reply.total = Cardinality(Members(board))
    BY <2>1, <2>2
  <2>7. reply \in Reply
    <3>1. board[u] \in Scores /\ Cardinality(Members(board)) \in Nat /\ p - 1 + 1 \in Nat
      BY <1>3, <2>1, BoardIsBoard, BoardRanges
    <3>. QED
      BY <2>2, <2>4, <3>1 DEF Reply
  <2>8. Answer(q, reply, "answered")
    BY <1>3, <2>5, <2>6 DEF Script
  <2>. HIDE DEF reply
  <2>9. ASSUME seen'[q] = reply, step'[q] = "answered" PROVE Reading(q)'
    <3>1. board' = board /\ ask'[q] = ask[q]
      BY <2>8 DEF Answer
    <3>2. /\ Due(board', ask'[q]) = Due(board, ask[q]) /\ Members(board)' = Members(board)
          /\ Position(board', ask'[q].user) = p
      BY <3>1 DEF p
    <3>3. RowsDue(q)'
      BY <2>4, <2>6, <2>9, <3>2 DEF RowsDue
    <3>. QED
      BY <1>3, <2>4, <2>6, <2>9, <3>1, <3>2, <3>3 DEF Reading
  <2>. QED
    BY <2>7, <2>8, <2>9, AnswerInvariant DEF Ended
<1>. QED
  BY <1>2, <1>3

-----------------------------------------------------------------------------
(* Postgres answers a statement at a time.                                 *)

LEMMA SelectScoreInvariant ==
  ASSUME IInv, NEW q \in Readers, SelectScore(q)
  PROVE  IInv'
<1>. DEFINE score == board[ask[q].user]
            reply == [NoReply EXCEPT !.score = score]
            end == IF score = NoStanding THEN "unranked" ELSE "rank"
<1>1. step[q] = "score" /\ Answer(q, reply, end)
  BY DEF SelectScore
<1>2. ask[q].kind = "around" /\ ask[q].user \in Users
  BY <1>1, AroundQuery DEF IInv, Reading
<1>3. score \in Scores \cup {NoStanding}
  BY <1>2 DEF IInv, TypeOK
<1>4. reply \in Reply /\ reply.score = score
  BY <1>3, NoReplyIsReply DEF Reply, NoReply
<1>. HIDE DEF reply
<1>5. ASSUME seen'[q] = reply, step'[q] = end PROVE Reading(q)'
  <2>1. board' = board /\ ask'[q] = ask[q]
    BY <1>1 DEF Answer
  <2>2. score = NoStanding \/ ask[q].user \in Members(board)
    BY <1>2 DEF Members
  <2>. QED
    BY <1>2, <1>4, <1>5, <2>1, <2>2 DEF Reading
<1>. QED
  BY <1>1, <1>4, <1>5, AnswerInvariant DEF Ended

LEMMA CountBetterInvariant ==
  ASSUME IInv, NEW q \in Readers, CountBetter(q)
  PROVE  IInv'
<1>. DEFINE u == ask[q].user
            better == Better(board, seen[q].score, u)
            reply == [seen[q] EXCEPT !.rank = better + 1]
<1>1. step[q] = "rank" /\ Answer(q, reply, "rows")
  BY DEF CountBetter
<1>2. ask[q].kind = "around" /\ u \in Users
  BY <1>1, AroundQuery DEF IInv, Reading
<1>3. better \in Nat
  <2>. DEFINE ahead == {v \in Members(board) : \/ board[v] > seen[q].score
                                               \/ (board[v] = seen[q].score /\ v > u)}
  <2>1. IsFiniteSet(Members(board)) /\ ahead \in SUBSET Members(board)
    BY DEF IInv
  <2>2. IsFiniteSet(ahead)
    BY <2>1, FS_Subset
  <2>. QED
    BY <2>2, FS_CardinalityType DEF Better
<1>4. seen[q] \in Reply
  BY DEF IInv, TypeOK
<1>. HIDE DEF better
<1>5. reply \in Reply /\ reply.rank = better + 1
  BY <1>3, <1>4 DEF Reply
<1>. HIDE DEF reply
<1>6. ASSUME fresh[q] PROVE u \in Members(board) /\ better + 1 = Position(board, u)
  <2>1. u \in Members(board) /\ seen[q].score = board[u]
    BY <1>1, <1>6 DEF IInv, Reading
  <2>2. better = Cardinality({v \in Members(board) : board[v] > board[u] \/ (board[v] = board[u] /\ v > u)})
    BY <2>1 DEF better, Better
  <2>. QED
    BY <1>3, <2>1, <2>2, BoardIsBoard, PositionCounts DEF Position, Leaders, Ahead
<1>7. ASSUME seen'[q] = reply, step'[q] = "rows" PROVE Reading(q)'
  <2>1. board' = board /\ ask'[q] = ask[q] /\ fresh'[q] = fresh[q]
    BY <1>1 DEF Answer
  <2>2. Members(board)' = Members(board) /\ Position(board', ask'[q].user) = Position(board, u)
    BY <2>1 DEF Members
  <2>. QED
    BY <1>5, <1>6, <1>7, <2>1, <2>2 DEF Reading
<1>. QED
  BY <1>1, <1>5, <1>7, AnswerInvariant DEF Ended

\* The window around the rank just counted, and the page of a query for a page.
LEMMA BoundsOfPage ==
  ASSUME IInv, NEW q \in Readers, step[q] = "rows"
  PROVE  /\ Bounds(q).offset \in Nat /\ Bounds(q).limit \in Int
         /\ fresh[q] =>
              Due(board, ask[q]) =
                PageOf(board, Bounds(q).offset, Bounds(q).offset + Bounds(q).limit)
         /\ fresh[q] /\ ask[q].kind = "around" =>
              /\ Bounds(q).offset = WindowStart(Position(board, ask[q].user), ask[q].window)
              /\ Bounds(q).offset + Bounds(q).limit =
                   Position(board, ask[q].user) + ask[q].window
<1>1. CASE ask[q].kind = "top"
  <2>1. Bounds(q) = [offset |-> ask[q].offset, limit |-> ask[q].limit]
    BY <1>1 DEF Bounds
  <2>. QED
    BY <1>1, <2>1, TopQuery
<1>2. CASE ask[q].kind = "around"
  <2>. DEFINE p == seen[q].rank
              window == ask[q].window
              from == WindowStart(p, window)
  <2>1. p \in Nat /\ window \in Nat
    <3>1. seen[q] \in Reply
      BY DEF IInv, TypeOK
    <3>. QED
      BY <1>2, <3>1, AroundQuery DEF Reply
  <2>2. Bounds(q) = [offset |-> from, limit |-> p - 1 + window - from + 1]
    BY <1>2 DEF Bounds, WindowStart
  <2>3. from \in Nat /\ p - 1 + window - from + 1 \in Int
        /\ from + (p - 1 + window - from + 1) = p + window
    BY <2>1 DEF WindowStart
  <2>. HIDE DEF from
  <2>4. /\ Bounds(q).offset = from /\ Bounds(q).offset \in Nat /\ Bounds(q).limit \in Int
        /\ Bounds(q).offset + Bounds(q).limit = p + window
    BY <2>2, <2>3
  <2>5. ASSUME fresh[q]
        PROVE  /\ p = Position(board, ask[q].user)
               /\ Due(board, ask[q]) = PageOf(board, from, p + window)
    BY <1>2, <2>5, AroundQuery DEF IInv, Reading, from
  <2>. QED
    BY <1>2, <2>4, <2>5 DEF from
<1>. QED
  BY <1>1, <1>2, KindOfQuery

LEMMA SelectRowsInvariant ==
  ASSUME IInv, NEW q \in Readers, SelectRows(q)
  PROVE  IInv'
<1>. DEFINE from == Bounds(q).offset
            limit == Bounds(q).limit
            entries == Numbered(board, from, Selected(board, from, limit))
            reply == [seen[q] EXCEPT !.entries = entries]
<1>1. step[q] = "rows" /\ Answer(q, reply, "total")
  BY DEF SelectRows
<1>2. from \in Nat /\ limit \in Int /\ board \in Board
  BY <1>1, BoundsOfPage, BoardIsBoard
<1>3. IsPage(board, from, from + limit, entries)
  BY <1>2, PagesOfTheStores
<1>. HIDE DEF entries, from, limit
<1>4. /\ entries \in Seq(Entry)
      /\ \A i \in DOMAIN entries : entries[i].rank <= Cardinality(Members(board))
      /\ \A i, j \in DOMAIN entries : i < j => entries[i].rank < entries[j].rank
      /\ ToSet(entries) = PageOf(board, from, from + limit)
  BY <1>2, <1>3, PageIsDue
<1>5. reply \in Reply /\ reply.entries = entries /\ reply.rank = seen[q].rank
  <2>1. seen[q] \in Reply
    BY DEF IInv, TypeOK
  <2>. QED
    BY <1>4, <2>1 DEF Reply
<1>. HIDE DEF reply
<1>6. ASSUME fresh[q]
      PROVE  /\ ToSet(entries) = Due(board, ask[q])
             /\ ask[q].kind = "around" =>
                  /\ ask[q].user \in Members(board)
                  /\ seen[q].rank = Position(board, ask[q].user)
                  /\ HasRank(entries, seen[q].rank)
  <2>1. ToSet(entries) = Due(board, ask[q])
    BY <1>1, <1>4, <1>6, BoundsOfPage DEF from, limit
  <2>2. ASSUME ask[q].kind = "around"
        PROVE  /\ ask[q].user \in Members(board)
               /\ seen[q].rank = Position(board, ask[q].user)
               /\ HasRank(entries, seen[q].rank)
    <3>1. ask[q].user \in Members(board) /\ seen[q].rank = Position(board, ask[q].user)
      BY <1>1, <1>6, <2>2 DEF IInv, Reading
    <3>2. IsPage(board, WindowStart(Position(board, ask[q].user), ask[q].window),
                 Position(board, ask[q].user) + ask[q].window, entries)
      BY <1>1, <1>3, <1>6, <2>2, BoundsOfPage DEF from, limit
    <3>3. ask[q].window \in Nat
      BY <2>2, AroundQuery
    <3>4. HasRank(entries, Position(board, ask[q].user))
      BY <1>2, <3>1, <3>2, <3>3, OwnRow
    <3>. QED
      BY <3>1, <3>4
  <2>. QED
    BY <2>1, <2>2
<1>7. ASSUME seen'[q] = reply, step'[q] = "total" PROVE Reading(q)'
  <2>1. board' = board /\ ask'[q] = ask[q] /\ fresh'[q] = fresh[q]
    BY <1>1 DEF Answer
  <2>2. /\ Members(board)' = Members(board)
        /\ Position(board', ask'[q].user) = Position(board, ask[q].user)
        /\ Due(board', ask'[q]) = Due(board, ask[q])
    BY <2>1 DEF Members
  <2>3. fresh[q] => RowsDue(q)'
    BY <1>4, <1>5, <1>6, <1>7, <2>2 DEF RowsDue
  <2>. QED
    BY <1>4, <1>5, <1>6, <1>7, <2>1, <2>2, <2>3 DEF Reading
<1>. QED
  BY <1>1, <1>5, <1>7, AnswerInvariant DEF Ended

LEMMA CountAllInvariant ==
  ASSUME IInv, NEW q \in Readers, CountAll(q)
  PROVE  IInv'
<1>. DEFINE size == Cardinality(Members(board))
            reply == [seen[q] EXCEPT !.total = size]
            end == IF ask[q].kind = "around" /\ ~HasRank(seen[q].entries, seen[q].rank)
                     THEN "broken" ELSE "answered"
<1>1. step[q] = "total" /\ Answer(q, reply, end)
  BY DEF CountAll
<1>2. size \in Nat
  BY BoardIsBoard, BoardRanges
<1>3. /\ reply \in Reply /\ reply.total = size
      /\ reply.entries = seen[q].entries /\ reply.rank = seen[q].rank
  <2>1. seen[q] \in Reply
    BY DEF IInv, TypeOK
  <2>. QED
    BY <1>2, <2>1 DEF Reply
<1>4. Reading(q)
  BY DEF IInv
<1>. HIDE DEF reply
<1>5. ASSUME seen'[q] = reply, step'[q] = end PROVE Reading(q)'
  <2>1. board' = board /\ ask'[q] = ask[q] /\ fresh'[q] = fresh[q]
    BY <1>1 DEF Answer
  <2>2. /\ Members(board)' = Members(board)
        /\ Position(board', ask'[q].user) = Position(board, ask[q].user)
        /\ Due(board', ask'[q]) = Due(board, ask[q])
    BY <2>1 DEF Members
  <2>3. fresh[q] => RowsDue(q)' /\ step'[q] = "answered"
    BY <1>1, <1>3, <1>4, <1>5, <2>2 DEF RowsDue, Reading
  <2>. QED
    BY <1>1, <1>3, <1>4, <1>5, <2>1, <2>2, <2>3 DEF Reading
<1>. QED
  BY <1>1, <1>3, <1>5, AnswerInvariant DEF Ended

LEMMA NextInvariant == IInv /\ [Next]_vars => IInv'
<1>. SUFFICES ASSUME IInv, [Next]_vars PROVE IInv'
  OBVIOUS
<1>1. CASE UNCHANGED vars
  <2>1. ASSUME NEW q \in Readers PROVE Reading(q)'
    <3>1. Reading(q)
      BY DEF IInv
    <3>2. /\ Members(board)' = Members(board)
          /\ Position(board', ask'[q].user) = Position(board, ask[q].user)
          /\ Due(board', ask'[q]) = Due(board, ask[q])
      BY <1>1 DEF Members, vars
    <3>. QED
      BY <1>1, <3>1, <3>2 DEF Reading, RowsDue, vars
  <2>. QED
    BY <1>1, <2>1 DEF IInv, TypeOK, Members, vars
<1>2. ASSUME NEW q \in Readers, Script(q) PROVE IInv'
  BY <1>2, KindOfQuery, ScriptTopInvariant, ScriptAroundInvariant
<1>3. ASSUME NEW q \in Readers, Statement(q) PROVE IInv'
  BY <1>3, SelectScoreInvariant, CountBetterInvariant, SelectRowsInvariant, CountAllInvariant
     DEF Statement
<1>. QED
  BY <1>1, <1>2, <1>3, SubmitInvariant, RequestInvariant DEF Next

-----------------------------------------------------------------------------

\* The inductive invariant holds in every reachable state.
THEOREM Invariant == Spec => []IInv
BY InitInvariant, NextInvariant, PTL DEF Spec

\* Every reply either store makes, complete or under way, at any offset and around any
\* rank, is a well-formed one.
THEOREM TypeCorrect == Spec => []TypeOK
<1>1. IInv => TypeOK
  BY DEF IInv
<1>. QED
  BY <1>1, Invariant, PTL

\* With no submission in between, the script of RedisRanking and the statements of
\* PostgresRanking give the one answer the contract describes.
THEOREM OneContract == Spec => []StoresAgree
<1>1. IInv => StoresAgree
  BY DEF IInv, Reading, RowsDue, StoresAgree
<1>. QED
  BY <1>1, Invariant, PTL

\* Whatever lands between the statements, no row of a reply ranks beyond its total.
THEOREM TotalBounds == Spec => []RanksWithinTotal
<1>1. IInv => RanksWithinTotal
  BY DEF IInv, Reading, RanksWithinTotal
<1>. QED
  BY <1>1, Invariant, PTL
=============================================================================
