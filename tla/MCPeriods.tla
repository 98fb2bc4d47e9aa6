------------------------------ MODULE MCPeriods ------------------------------
(***************************************************************************)
(* Three stretches of days: a leap day, a new year whose first week begins *)
(* in the old one, and a new year that begins in a 53rd week.              *)
(***************************************************************************)
EXTENDS Periods

YearsAround == 2022..2028

LeapDay == FirstOfMonth(2024, 2) + 18 .. FirstOfMonth(2024, 3) + 13
EarlyWeek == FirstOfMonth(2024, 12) + 8 .. FirstOfMonth(2025, 1) + 18
LongYear == FirstOfMonth(2026, 12) + 6 .. FirstOfMonth(2027, 1) + 16
Stretches == LeapDay \cup EarlyWeek \cup LongYear

DayBuckets == {<<2023, 2, 29>>, <<2024, 2, 29>>, <<2024, 2, 30>>, <<2024, 12, 31>>, <<2024, 11, 31>>,
               <<2026, 12, 31>>, <<2026, 12, 32>>, <<2026, 0, 1>>, <<2026, 13, 1>>, <<2027, 1, 0>>,
               <<2027, 1, 1>>, <<0, 1, 1>>}

WeekBuckets == {<<y, w>> : y \in {2026, 2027}, w \in {0, 1, 2, 52, 53, 54}}
                 \cup {<<0, 1>>, <<2024, 9>>, <<2024, 53>>, <<2025, 1>>, <<2025, 53>>}

\* Each shape of bucket with each period, matching or not.
Queries ==
    {[period |-> p, bucket |-> b] : p \in Period, b \in {<< >>, <<2024, 10>>, <<2024, 12, 30>>}}
        \cup {[period |-> "daily", bucket |-> b] : b \in DayBuckets}
        \cup {[period |-> "weekly", bucket |-> b] : b \in WeekBuckets}
=============================================================================
