------------------------------- MODULE Periods -------------------------------
(***************************************************************************)
(* Which board a day's scores go to, and which boards can be asked for     *)
(* (Spec.md D5; app/domain/periods.py), while the days go by.              *)
(*                                                                         *)
(* A day is its ordinal in Python's proleptic Gregorian calendar: day 1    *)
(* was a Monday.  A bucket is the sequence of the numbers in its string;   *)
(* the string's fields have fixed widths, so strings are ordered the way   *)
(* these sequences are.  Everything is UTC.                                *)
(***************************************************************************)
EXTENDS Integers, Sequences

CONSTANTS
    Days,       \* the days of the model, some stretches of them
    Years,      \* years enough around those days
    Asked       \* what clients name: a period and a bucket

ASSUME DaysAssumption == Days \subseteq Nat \ {0} /\ Years \subseteq Nat \ {0}
ASSUME AskedAssumption ==
    \A a \in Asked : a.period \in {"all_time", "daily", "weekly"} /\ a.bucket \in Seq(Nat)

VARIABLES
    today,
    wrote,      \* the day of the last submission, 0 before the first
    request     \* a read request: the board it asks for and how far it is

vars == <<today, wrote, request>>

Period == {"all_time", "daily", "weekly"}

-----------------------------------------------------------------------------
(* External: Python's datetime.date.                                       *)

Leap(y) == y % 4 = 0 /\ (y % 100 # 0 \/ y % 400 = 0)

MonthLength(y, m) ==
    CASE m = 2 -> IF Leap(y) THEN 29 ELSE 28
      [] m \in {4, 6, 9, 11} -> 30
      [] OTHER -> 31

NewYear(y) == 365 * (y - 1) + (y - 1) \div 4 - (y - 1) \div 100 + (y - 1) \div 400 + 1

FirstOfMonth(y, m) ==
    NewYear(y) + <<0, 31, 59, 90, 120, 151, 181, 212, 243, 273, 304, 334>>[m]
        + IF m > 2 /\ Leap(y) THEN 1 ELSE 0

YearOf(day) == CHOOSE y \in Years : NewYear(y) <= day /\ day < NewYear(y + 1)

\* date.isoformat.
IsoFormat(day) ==
    LET y == YearOf(day)
        m == CHOOSE n \in 1..12 : /\ FirstOfMonth(y, n) <= day
                                  /\ day < FirstOfMonth(y, n) + MonthLength(y, n)
    IN <<y, m, day - FirstOfMonth(y, m) + 1>>

Monday(day) == day - ((day - 1) % 7)

\* Years are enough for the days and for the Thursdays of their weeks.
ASSUME YearsAssumption ==
    \A day \in Days : \A d \in {day, Monday(day) + 3} :
        \E y \in Years : NewYear(y) <= d /\ d < NewYear(y + 1)

\* date.isocalendar: a week belongs to the year its Thursday is in.
IsoCalendar(day) ==
    LET thursday == Monday(day) + 3
        y == YearOf(thursday)
    IN [year |-> y, week |-> (thursday - NewYear(y)) \div 7 + 1]

\* date.fromisoformat takes this date.
IsDate(y, m, d) == y >= 1 /\ m \in 1..12 /\ d \in 1..MonthLength(y, m)

\* date.fromisocalendar takes this week: a 53rd one is in the years that begin on a
\* Thursday, or on a Wednesday when they are leap years.
IsWeek(y, w) ==
    LET weekday == (NewYear(y) - 1) % 7 IN
    /\ y >= 1
    /\ \/ w \in 1..52
       \/ w = 53 /\ (weekday = 3 \/ (weekday = 2 /\ Leap(y)))

-----------------------------------------------------------------------------
(* periods.py.                                                             *)

\* Mutant of IsoWeekBucket: the calendar year (what its docstring warns of).
CalendarWeekBucket(day) == <<YearOf(day), IsoCalendar(day).week>>

\* _iso_week_bucket.
IsoWeekBucket(day) == <<IsoCalendar(day).year, IsoCalendar(day).week>>

\* bucket_for.
BucketFor(period, day) ==
    CASE period = "all_time" -> << >>
      [] period = "daily" -> IsoFormat(day)
      [] period = "weekly" -> IsoWeekBucket(day)

\* Mutant of ValidBucket: a week from 1 to 53 is good enough.
ValidWeekNumber(period, bucket) ==
    \/ period = "all_time" /\ bucket = << >>
    \/ period = "daily" /\ Len(bucket) = 3 /\ IsDate(bucket[1], bucket[2], bucket[3])
    \/ period = "weekly" /\ Len(bucket) = 2 /\ bucket[2] \in 1..53

\* validate_bucket raises no InvalidBucketError.
ValidBucket(period, bucket) ==
    \/ period = "all_time" /\ bucket = << >>
    \/ period = "daily" /\ Len(bucket) = 3 /\ IsDate(bucket[1], bucket[2], bucket[3])
    \/ /\ period = "weekly"
       /\ Len(bucket) = 2
       /\ bucket[2] \in 1..53
       /\ IsWeek(bucket[1], bucket[2])

\* The order of strings, for buckets of one period.
After(b, c) ==
    \E i \in DOMAIN b : b[i] > c[i] /\ \A j \in 1..i-1 : b[j] = c[j]

\* is_future_bucket.
IsFuture(period, bucket, day) == period # "all_time" /\ After(bucket, BucketFor(period, day))

\* Mutant of Lifetime: a key lives as long as its window.
LifetimeOfWindow(period) == CASE period = "daily" -> 1 [] period = "weekly" -> 7

\* rank_index.BOARD_TTL in days, for the periods that have one.
Lifetime(period) == CASE period = "daily" -> 8 [] period = "weekly" -> 5 * 7

\* The key of a board of the day of the last submission has not expired: each write
\* sets its time to live anew (rank_index.apply_updates).
KeyAlive(period) == today - wrote < Lifetime(period)

-----------------------------------------------------------------------------

NoRequest == [phase |-> "none", period |-> "all_time", bucket |-> << >>, named |-> FALSE, begun |-> 0]

\* External: the server's clock begins on a first day.
Init ==
    /\ today \in {day \in Days : day - 1 \notin Days}
    /\ wrote = 0
    /\ request = NoRequest

\* A request does not stay open for a whole day.
Midnight ==
    /\ today + 1 \in Days
    /\ request.phase = "resolved" => request.begun = today
    /\ today' = today + 1
    /\ UNCHANGED <<wrote, request>>

\* scoring.submit_score writes to the boards of today (all_buckets_for).
Submit ==
    /\ wrote # today
    /\ wrote' = today
    /\ UNCHANGED <<today, request>>

\* leaderboards._resolve_board with a bucket in the query.
AskNamed(a) ==
    /\ request.phase # "resolved"
    /\ request' = [phase |-> "resolved", period |-> a.period, bucket |-> a.bucket,
                   named |-> TRUE, begun |-> today]
    /\ UNCHANGED <<today, wrote>>

\* Without one: the current board, by a first look at the clock.
AskCurrent(period) ==
    /\ request.phase # "resolved"
    /\ request' = [phase |-> "resolved", period |-> period, bucket |-> BucketFor(period, today),
                   named |-> FALSE, begun |-> today]
    /\ UNCHANGED <<today, wrote>>

\* The checks of _resolve_board; is_future_bucket looks at the clock again.
Check ==
    LET ok == /\ ValidBucket(request.period, request.bucket)
              /\ ~IsFuture(request.period, request.bucket, today) IN
    /\ request.phase = "resolved"
    /\ request' = [request EXCEPT !.phase = IF ok THEN "served" ELSE "refused", !.begun = 0]
    /\ UNCHANGED <<today, wrote>>

Next ==
    \/ Midnight
    \/ Submit
    \/ \E a \in Asked : AskNamed(a)
    \/ \E period \in Period : AskCurrent(period)
    \/ Check

Spec == Init /\ [][Next]_vars

-----------------------------------------------------------------------------
(* Properties.                                                             *)

Weeks(from, to) == (Monday(to) - Monday(from)) \div 7

\* A window is never split or shared, over a new year as much as within one: two
\* days have one weekly board exactly when they are in one Monday-to-Sunday week,
\* and the order of the boards of either period is that of time (the docstring of
\* _iso_week_bucket; is_future_bucket depends on it).
OneBoardPerWindow ==
    wrote # 0 =>
        /\ BucketFor("weekly", wrote) = BucketFor("weekly", today) <=> Weeks(wrote, today) = 0
        /\ IsFuture("weekly", BucketFor("weekly", today), wrote) <=> Weeks(wrote, today) > 0
        /\ IsFuture("daily", BucketFor("daily", today), wrote) <=> wrote < today

\* The days, of all Years but the first and the last, on which each bucket asked for
\* is the current one.
DaysOf ==
    LET first == CHOOSE y \in Years : \A z \in Years : y <= z
        last == CHOOSE y \in Years : \A z \in Years : z <= y
    IN [a \in Asked |-> {day \in NewYear(first + 1)..NewYear(last)-1 :
                            BucketFor(a.period, day) = a.bucket}]

\* Exactly the boards that can hold rows are served: a board that is named is
\* refused unless some day up to now writes to it, and the current board is never
\* refused, not even when midnight passes between the two looks at the clock
\* (validate_bucket's and is_future_bucket's docstrings).
ServedExactly ==
    [][request.phase = "resolved" /\ request'.phase # "resolved" =>
          (request'.phase = "served" <=>
              \/ ~request.named
              \/ \E day \in DaysOf[[period |-> request.period, bucket |-> request.bucket]] :
                    day <= today)]_vars

\* "Yesterday's leaderboard and last week's stay instantly available" (the comment
\* on BOARD_TTL): a key that was written in its window has not expired at any time
\* of the next window.
LastWindowStaysAvailable ==
    wrote # 0 =>
        /\ today - wrote <= 1 => KeyAlive("daily")
        /\ Weeks(wrote, today) <= 1 => KeyAlive("weekly")
=============================================================================
