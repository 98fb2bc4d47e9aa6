---------------------------- MODULE PeriodsProofs ----------------------------
(***************************************************************************)
(* What TLAPS proves of Periods, for any days, among whatever years: that  *)
(* a window is never split or shared, by the day or by the week, and that  *)
(* a key that was written in its window outlives the next one.             *)
(*                                                                         *)
(* The first rests on the calendar: years follow one another without a gap *)
(* (YearsFollow, NextYear), so do the months of a year (Months), and the   *)
(* number of a week is the number of its Thursday's week in the year of    *)
(* that Thursday.                                                          *)
(***************************************************************************)
EXTENDS Periods, TLAPS

LEMMA NewYearIsInt == \A y \in Nat : NewYear(y) \in Int
BY DEF NewYear

\* A later year begins later.
LEMMA YearsFollow ==
  ASSUME NEW y \in Nat \ {0}, NEW z \in Nat \ {0}, y < z
  PROVE  NewYear(y + 1) <= NewYear(z) /\ NewYear(y) < NewYear(z)
BY DEF NewYear

\* A year has 366 days if it is a leap year, 365 otherwise.
LEMMA NextYear ==
  ASSUME NEW y \in Nat \ {0}
  PROVE  NewYear(y + 1) = NewYear(y) + 365 + (IF Leap(y) THEN 1 ELSE 0)
BY DEF NewYear, Leap

\* The year of a day is the only one that contains it.
LEMMA YearOfDay ==
  ASSUME NEW d \in Nat,
         \E y \in Years : NewYear(y) <= d /\ d < NewYear(y + 1)
  PROVE  /\ YearOf(d) \in Years
         /\ NewYear(YearOf(d)) <= d /\ d < NewYear(YearOf(d) + 1)
BY DEF YearOf

\* A later day is not in an earlier year.
LEMMA YearsAscend ==
  ASSUME NEW y \in Nat \ {0}, NEW z \in Nat \ {0}, NEW d \in Nat, NEW e \in Nat, d <= e,
         NewYear(y) <= d, d < NewYear(y + 1), NewYear(z) <= e, e < NewYear(z + 1)
  PROVE  y <= z
<1>. SUFFICES ASSUME z < y PROVE FALSE
  OBVIOUS
<1>1. NewYear(z + 1) <= NewYear(y)
  BY YearsFollow
<1>2. NewYear(z + 1) \in Int /\ NewYear(y) \in Int
  BY NewYearIsInt
<1>. QED
  BY <1>1, <1>2

\* The order of strings, spelled out for weeks and for dates.
LEMMA PairsInOrder ==
  ASSUME NEW a \in Int, NEW b \in Int, NEW c \in Int, NEW d \in Int
  PROVE  After(<<c, d>>, <<a, b>>) <=> a < c \/ (a = c /\ b < d)
<1>1. DOMAIN <<c, d>> = 1..2
  OBVIOUS
<1>2. (\E i \in 1..2 : <<c, d>>[i] > <<a, b>>[i] /\ \A j \in 1..i-1 : <<c, d>>[j] = <<a, b>>[j])
        <=> a < c \/ (a = c /\ b < d)
  OBVIOUS
<1>. QED
  BY <1>1, <1>2 DEF After

LEMMA TriplesInOrder ==
  ASSUME NEW a \in Int, NEW b \in Int, NEW c \in Int, NEW d \in Int, NEW e \in Int, NEW f \in Int
  PROVE  After(<<d, e, f>>, <<a, b, c>>) <=> a < d \/ (a = d /\ b < e) \/ (a = d /\ b = e /\ c < f)
<1>1. DOMAIN <<d, e, f>> = 1..3
  OBVIOUS
<1>2. (\E i \in 1..3 : /\ <<d, e, f>>[i] > <<a, b, c>>[i]
                      /\ \A j \in 1..i-1 : <<d, e, f>>[j] = <<a, b, c>>[j])
        <=> a < d \/ (a = d /\ b < e) \/ (a = d /\ b = e /\ c < f)
  OBVIOUS
<1>. QED
  BY <1>1, <1>2 DEF After

-----------------------------------------------------------------------------
(* Days.                                                                   *)

\* The months of a year: where each begins and how long it is.
LEMMA Months ==
  ASSUME NEW y \in Nat \ {0}
  PROVE  LET new == NewYear(y)
             leap == IF Leap(y) THEN 1 ELSE 0
         IN /\ FirstOfMonth(y, 1) = new /\ MonthLength(y, 1) = 31
            /\ FirstOfMonth(y, 2) = new + 31 /\ MonthLength(y, 2) = 28 + leap
            /\ FirstOfMonth(y, 3) = new + 59 + leap /\ MonthLength(y, 3) = 31
            /\ FirstOfMonth(y, 4) = new + 90 + leap /\ MonthLength(y, 4) = 30
            /\ FirstOfMonth(y, 5) = new + 120 + leap /\ MonthLength(y, 5) = 31
            /\ FirstOfMonth(y, 6) = new + 151 + leap /\ MonthLength(y, 6) = 30
            /\ FirstOfMonth(y, 7) = new + 181 + leap /\ MonthLength(y, 7) = 31
            /\ FirstOfMonth(y, 8) = new + 212 + leap /\ MonthLength(y, 8) = 31
            /\ FirstOfMonth(y, 9) = new + 243 + leap /\ MonthLength(y, 9) = 30
            /\ FirstOfMonth(y, 10) = new + 273 + leap /\ MonthLength(y, 10) = 31
            /\ FirstOfMonth(y, 11) = new + 304 + leap /\ MonthLength(y, 11) = 30
            /\ FirstOfMonth(y, 12) = new + 334 + leap /\ MonthLength(y, 12) = 31
BY NewYearIsInt DEF FirstOfMonth, MonthLength

\* Each day of a year is in one of its months ...
LEMMA MonthExists ==
  ASSUME NEW y \in Nat \ {0}, NEW d \in Nat, NewYear(y) <= d, d < NewYear(y + 1)
  PROVE  \E n \in 1..12 : FirstOfMonth(y, n) <= d /\ d < FirstOfMonth(y, n) + MonthLength(y, n)
<1>. DEFINE leap == IF Leap(y) THEN 1 ELSE 0
<1>1. NewYear(y) \in Int /\ d < NewYear(y) + 365 + leap
  BY NextYear, NewYearIsInt
<1>. QED
  BY <1>1, Months

\* ... and a later day is not in an earlier one.
LEMMA MonthsAscend ==
  ASSUME NEW y \in Nat \ {0}, NEW m \in 1..12, NEW n \in 1..12, NEW d \in Nat, NEW e \in Nat,
         d <= e,
         FirstOfMonth(y, m) <= d, d < FirstOfMonth(y, m) + MonthLength(y, m),
         FirstOfMonth(y, n) <= e, e < FirstOfMonth(y, n) + MonthLength(y, n)
  PROVE  m <= n
BY Months, NewYearIsInt

LEMMA FirstIsInt == ASSUME NEW y \in Nat \ {0}, NEW m \in 1..12 PROVE FirstOfMonth(y, m) \in Int
BY Months, NewYearIsInt

\* What the three numbers of a date say.
LEMMA DateOfDay ==
  ASSUME NEW d \in Days
  PROVE  \E y \in Nat \ {0}, m \in 1..12 :
           /\ IsoFormat(d) = <<y, m, d - FirstOfMonth(y, m) + 1>>
           /\ NewYear(y) <= d /\ d < NewYear(y + 1)
           /\ FirstOfMonth(y, m) <= d /\ d < FirstOfMonth(y, m) + MonthLength(y, m)
<1>. DEFINE y == YearOf(d)
            m == CHOOSE n \in 1..12 : /\ FirstOfMonth(y, n) <= d
                                      /\ d < FirstOfMonth(y, n) + MonthLength(y, n)
<1>1. d \in Nat /\ \E z \in Years : NewYear(z) <= d /\ d < NewYear(z + 1)
  BY DaysAssumption, YearsAssumption
<1>2. y \in Nat \ {0} /\ NewYear(y) <= d /\ d < NewYear(y + 1)
  BY <1>1, YearOfDay, DaysAssumption
<1>3. IsoFormat(d) = <<y, m, d - FirstOfMonth(y, m) + 1>>
  BY DEF IsoFormat
<1>. HIDE DEF y
<1>4. \E n \in 1..12 : FirstOfMonth(y, n) <= d /\ d < FirstOfMonth(y, n) + MonthLength(y, n)
  BY <1>1, <1>2, MonthExists
<1>5. m \in 1..12 /\ FirstOfMonth(y, m) <= d /\ d < FirstOfMonth(y, m) + MonthLength(y, m)
  BY <1>4
<1>. HIDE DEF m
<1>. QED
  BY <1>2, <1>3, <1>5

\* Dates are ordered as days are.
LEMMA DatesInOrder ==
  ASSUME NEW d \in Days, NEW e \in Days, d <= e
  PROVE  After(IsoFormat(e), IsoFormat(d)) <=> d < e
<1>. d \in Nat /\ e \in Nat
  BY DaysAssumption
<1>1. PICK y \in Nat \ {0}, m \in 1..12 :
        /\ IsoFormat(d) = <<y, m, d - FirstOfMonth(y, m) + 1>>
        /\ NewYear(y) <= d /\ d < NewYear(y + 1)
        /\ FirstOfMonth(y, m) <= d /\ d < FirstOfMonth(y, m) + MonthLength(y, m)
  BY DateOfDay
<1>2. PICK z \in Nat \ {0}, n \in 1..12 :
        /\ IsoFormat(e) = <<z, n, e - FirstOfMonth(z, n) + 1>>
        /\ NewYear(z) <= e /\ e < NewYear(z + 1)
        /\ FirstOfMonth(z, n) <= e /\ e < FirstOfMonth(z, n) + MonthLength(z, n)
  BY DateOfDay
<1>. DEFINE i == d - FirstOfMonth(y, m) + 1
            j == e - FirstOfMonth(z, n) + 1
<1>3. y <= z /\ (y = z => m <= n)
  BY <1>1, <1>2, YearsAscend, MonthsAscend
<1>4. i \in Int /\ j \in Int /\ (y = z /\ m = n => (i < j <=> d < e))
  <2>1. FirstOfMonth(y, m) \in Int /\ FirstOfMonth(z, n) \in Int
    BY FirstIsInt
  <2>. QED
    BY <2>1
<1>5. d = e => <<y, m, i>> = <<z, n, j>>
  BY <1>1, <1>2
<1>6. <<y, m, i>> = <<z, n, j>> => y = z /\ m = n /\ i = j
  OBVIOUS
<1>. HIDE DEF i, j
<1>7. y < z \/ (y = z /\ m < n) \/ (y = z /\ m = n /\ i < j) <=> d < e
  BY <1>3, <1>4, <1>5, <1>6
<1>8. After(<<z, n, j>>, <<y, m, i>>)
        <=> y < z \/ (y = z /\ m < n) \/ (y = z /\ m = n /\ i < j)
  BY <1>4, TriplesInOrder
<1>. QED
  BY <1>1, <1>2, <1>7, <1>8 DEF i, j

-----------------------------------------------------------------------------
(* Weeks.                                                                  *)

\* Weeks are whole: Thursdays are seven days apart, a day is at most six from its Monday.
LEMMA WholeWeeks ==
  ASSUME NEW d \in Nat \ {0}, NEW e \in Nat \ {0}, d <= e
  PROVE  /\ Weeks(d, e) \in Nat
         /\ Monday(e) = Monday(d) + 7 * Weeks(d, e)
         /\ Monday(d) \in Nat /\ Monday(d) <= d /\ d <= Monday(d) + 6
         /\ Monday(e) \in Nat /\ Monday(e) <= e /\ e <= Monday(e) + 6
BY DEF Weeks, Monday

\* The number, in year y, of the week with this Thursday.
WeekNumber(thursday, y) == (thursday - NewYear(y)) \div 7 + 1

\* What the two numbers of a week say.
LEMMA WeekOfDay ==
  ASSUME NEW d \in Days
  PROVE  \E y \in Nat \ {0} :
           /\ IsoWeekBucket(d) = <<y, WeekNumber(Monday(d) + 3, y)>>
           /\ NewYear(y) <= Monday(d) + 3 /\ Monday(d) + 3 < NewYear(y + 1)
<1>. DEFINE thursday == Monday(d) + 3
            y == YearOf(thursday)
<1>1. thursday \in Nat /\ \E z \in Years : NewYear(z) <= thursday /\ thursday < NewYear(z + 1)
  <2>1. thursday \in Nat
    BY DaysAssumption DEF Monday
  <2>. QED
    BY <2>1, YearsAssumption
<1>. HIDE DEF thursday
<1>2. y \in Nat \ {0} /\ NewYear(y) <= thursday /\ thursday < NewYear(y + 1)
  BY <1>1, YearOfDay, DaysAssumption
<1>3. IsoWeekBucket(d) = <<y, WeekNumber(thursday, y)>>
  BY DEF IsoWeekBucket, IsoCalendar, thursday, WeekNumber
<1>. HIDE DEF y
<1>. QED
  BY <1>2, <1>3 DEF thursday

\* Two days have one weekly board exactly when they are in one week, and the boards
\* are ordered as weeks are.
LEMMA WeeksInOrder ==
  ASSUME NEW d \in Days, NEW e \in Days, d <= e
  PROVE  /\ IsoWeekBucket(d) = IsoWeekBucket(e) <=> Weeks(d, e) = 0
         /\ After(IsoWeekBucket(e), IsoWeekBucket(d)) <=> Weeks(d, e) > 0
<1>. DEFINE p == Monday(d) + 3
            q == Monday(e) + 3
            k == Weeks(d, e)
<1>1. k \in Nat /\ p \in Nat /\ q \in Nat /\ q = p + 7 * k
  <2>1. d \in Nat \ {0} /\ e \in Nat \ {0}
    BY DaysAssumption
  <2>. QED
    BY <2>1, WholeWeeks
<1>2. PICK y \in Nat \ {0} :
        /\ IsoWeekBucket(d) = <<y, WeekNumber(p, y)>>
        /\ NewYear(y) <= p /\ p < NewYear(y + 1)
  BY WeekOfDay
<1>3. PICK z \in Nat \ {0} :
        /\ IsoWeekBucket(e) = <<z, WeekNumber(q, z)>>
        /\ NewYear(z) <= q /\ q < NewYear(z + 1)
  BY WeekOfDay
<1>. DEFINE i == WeekNumber(p, y)
            j == WeekNumber(q, z)
<1>. HIDE DEF p, q, k
<1>4. y <= z
  BY <1>1, <1>2, <1>3, YearsAscend
<1>5. NewYear(y) \in Int /\ NewYear(z) \in Int
  BY NewYearIsInt
<1>6. i \in Int /\ j \in Int
  BY <1>1, <1>5 DEF WeekNumber
<1>7. y = z => j = i + k
  <2>. SUFFICES ASSUME y = z PROVE j = i + k
    OBVIOUS
  <2>1. q - NewYear(z) = (p - NewYear(y)) + 7 * k
    BY <1>1, <1>5
  <2>2. \A x \in Int : (x + 7 * k) \div 7 = x \div 7 + k
    BY <1>1
  <2>. QED
    BY <1>1, <1>5, <2>1, <2>2 DEF WeekNumber
<1>8. k = 0 => y = z
  BY <1>1, <1>2, <1>3, <1>4, YearsAscend
<1>. HIDE DEF i, j
<1>9. <<y, i>> = <<z, j>> <=> k = 0
  <2>1. <<y, i>> = <<z, j>> <=> y = z /\ i = j
    OBVIOUS
  <2>. QED
    BY <1>1, <1>6, <1>7, <1>8, <2>1
<1>10. After(<<z, j>>, <<y, i>>) <=> k > 0
  <2>1. After(<<z, j>>, <<y, i>>) <=> y < z \/ (y = z /\ i < j)
    BY <1>6, PairsInOrder
  <2>. QED
    BY <1>1, <1>4, <1>6, <1>7, <1>8, <2>1
<1>. QED
  BY <1>2, <1>3, <1>9, <1>10 DEF i, j, k

-----------------------------------------------------------------------------
(* The days go by.                                                         *)

\* The clock shows one of the days, and no submission is of a later one.
ClockInv ==
    /\ today \in Days
    /\ wrote = 0 \/ (wrote \in Days /\ wrote <= today)

THEOREM ClockGoesForward == Spec => []ClockInv
<1>1. Init => ClockInv
  BY DEF Init, ClockInv
<1>2. ClockInv /\ [Next]_vars => ClockInv'
  BY DaysAssumption DEF ClockInv, Next, Midnight, Submit, AskNamed, AskCurrent, Check, vars
<1>. QED
  BY <1>1, <1>2, PTL DEF Spec

\* A window is never split or shared: two days have one weekly board exactly when they
\* are in one week, and boards are ordered as time is.
THEOREM WindowsAreWhole == Spec => []OneBoardPerWindow
<1>1. ClockInv => OneBoardPerWindow
  <2>. SUFFICES ASSUME ClockInv, wrote # 0
                PROVE  /\ BucketFor("weekly", wrote) = BucketFor("weekly", today)
                            <=> Weeks(wrote, today) = 0
                       /\ IsFuture("weekly", BucketFor("weekly", today), wrote)
                            <=> Weeks(wrote, today) > 0
                       /\ IsFuture("daily", BucketFor("daily", today), wrote) <=> wrote < today
    BY DEF OneBoardPerWindow
  <2>1. wrote \in Days /\ today \in Days /\ wrote <= today
    BY DEF ClockInv
  <2>2. \A d : /\ BucketFor("weekly", d) = IsoWeekBucket(d)
               /\ BucketFor("daily", d) = IsoFormat(d)
    BY DEF BucketFor
  <2>. QED
    BY <2>1, <2>2, WeeksInOrder, DatesInOrder DEF IsFuture
<1>. QED
  BY <1>1, ClockGoesForward, PTL

\* A key that was written in its window has not expired at any time of the next one.
THEOREM LastWindowLives == Spec => []LastWindowStaysAvailable
<1>1. ClockInv => LastWindowStaysAvailable
  <2>. SUFFICES ASSUME ClockInv, wrote # 0
                PROVE  /\ today - wrote <= 1 => KeyAlive("daily")
                       /\ Weeks(wrote, today) <= 1 => KeyAlive("weekly")
    BY DEF LastWindowStaysAvailable
  <2>1. wrote \in Nat \ {0} /\ today \in Nat \ {0} /\ wrote <= today
    BY DaysAssumption DEF ClockInv
  <2>2. Lifetime("daily") = 8 /\ Lifetime("weekly") = 35
    BY DEF Lifetime
  <2>3. Weeks(wrote, today) <= 1 => today - wrote < 35
    BY <2>1, WholeWeeks
  <2>. QED
    BY <2>1, <2>2, <2>3 DEF KeyAlive
<1>. QED
  BY <1>1, ClockGoesForward, PTL
=============================================================================
