--------------------------- MODULE MCRecurrence ---------------------------
(* A calendar of three-day weeks and two months a year, the rules that tell *)
(* its days apart, and the anchors and windows they are expanded for.       *)
EXTENDS Recurrence

MonthsOf5And3 == <<5, 3>>

Plain == [frequency |-> "DAILY", interval |-> 1, byWeekday |-> {}, byMonthDay |-> {},
          byMonth |-> {}, bySetPos |-> {}, monthlyAnchor |-> None, count |-> 0, until |-> None]

DailyRules ==
    {[Plain EXCEPT !.interval = n, !.byWeekday = w, !.byMonthDay = d, !.byMonth = m] :
        n \in 0..2, w \in {{}, {0, 1}}, d \in {{}, {1, 3}}, m \in {{}, {2}}}

WeeklyRules ==
    {[Plain EXCEPT !.frequency = "WEEKLY", !.interval = n, !.byWeekday = w,
                   !.byMonthDay = d, !.byMonth = m] :
        n \in {1, 2}, w \in {{}, {0, 2}}, d \in {{}, {1, 2, 3}}, m \in {{}, {1}}}

MonthlyRules ==
    {[Plain EXCEPT !.frequency = "MONTHLY", !.interval = n, !.byWeekday = w,
                   !.byMonthDay = d, !.byMonth = m] :
        n \in {1, 2}, w \in {{}, {1}}, d \in {{}, {1, 4}}, m \in {{}, {2}}}
    \cup
    {[Plain EXCEPT !.frequency = "MONTHLY", !.interval = n, !.byWeekday = w, !.bySetPos = p] :
        n \in {1, 2}, w \in {{0}, {1, 2}}, p \in {{1}, {2, -1}}}
    \cup
    {[Plain EXCEPT !.frequency = "MONTHLY", !.monthlyAnchor = a] :
        a \in {"FIRST_WORKDAY", "LAST_WORKDAY", "DAY_BEFORE_LAST_WORKDAY"}}

YearlyRules ==
    {[Plain EXCEPT !.frequency = "YEARLY", !.interval = n, !.byWeekday = w,
                   !.byMonthDay = d, !.byMonth = m] :
        n \in {1, 2}, w \in {{}, {1, 2}}, d \in {{}, {2, 5}}, m \in {{}, {1, 2}}}

EveryRule ==
    LET endless == DailyRules \cup WeeklyRules \cup MonthlyRules \cup YearlyRules
    IN  endless \cup {[rule EXCEPT !.count = 3] : rule \in endless}
                \cup {[rule EXCEPT !.until = 11] : rule \in endless}

\* Days 0, 1, 3 and 4 (the last of a month that the next one lacks), at midnight and in
\* the hour that day 6 skips.
Anchors == {0, 4, 9, 10, 12, 13}

\* Days 0 to 7, 5 to 13, and an opening in the middle of day 9.
Ranges == {<<0, 21>>, <<15, 39>>, <<28, 45>>}

\* Slots of day 7 and day 9.
SomeExceptions ==
    {None, [at |-> 21, skipped |-> TRUE, to |-> 21], [at |-> 27, skipped |-> FALSE, to |-> 31]}
=============================================================================
