---------------------------- MODULE Recurrence ----------------------------
(***************************************************************************)
(* The expansion of a recurrence rule: RecurrenceRuleService.              *)
(* expandOccurrences reads an anchor, its rule and its exceptions and      *)
(* returns the occurrences that meet a window.  It walks a cursor from the *)
(* anchor period by period, expands each period into its candidates, and   *)
(* takes them in order until an end is reached or a cap bites.             *)
(*                                                                         *)
(* Time is local time: an instant counts the hours of days of DayHours     *)
(* hours, day 0 being a Monday, with weeks and months of any length and no *)
(* leap years.  The clock skips one hour, GapHour of GapDay (a DST gap not *)
(* at midnight): luxon reads a local time inside it as one hour later.     *)
(* Titles, completions and the rule's summary are left out.                *)
(***************************************************************************)
EXTENDS Integers, Sequences, FiniteSets, FiniteSetsExt

CONSTANTS
    DaysPerWeek, Workdays, (* a week, and how many of its first days are workdays *)
    MonthDays,             (* the length of each month of a year                  *)
    LastDay,               (* bound: the last day of the calendar                 *)
    DayHours, GapDay, GapHour,
    MaxOccurrences,        (* MAX_OCCURRENCES_PER_WINDOW                          *)
    MaxSteps,              (* MAX_GENERATION_STEPS                                *)
    Horizon,               (* PREVIEW_SERIES_HORIZON_DAYS                         *)
    Rules, Seeds, Durations, Windows, Exceptions, (* what a call may be given     *)
    None

Days == 0..LastDay
Instants == 0..(DayHours * (LastDay + 1))

\* Absent and empty lists mean the same, and the order of a list nothing: sets.
\* count is 0 and until is None for a rule that does not end that way.
Rule == [frequency: {"DAILY", "WEEKLY", "MONTHLY", "YEARLY"}, interval: Nat,
         byWeekday: SUBSET (0..DaysPerWeek - 1), byMonthDay: SUBSET (1..31),
         byMonth: SUBSET DOMAIN MonthDays, bySetPos: SUBSET {-1, 1, 2, 3, 4},
         monthlyAnchor: {None, "FIRST_WORKDAY", "LAST_WORKDAY", "DAY_BEFORE_LAST_WORKDAY"},
         count: Nat, until: Days \cup {None}]

\* What the DTOs let through (areMonthlySelectorsValid).
MonthlySelectorsValid(rule) ==
    rule.bySetPos # {} \/ rule.monthlyAnchor # None =>
        /\ rule.frequency = "MONTHLY"
        /\ rule.bySetPos # {} => rule.byWeekday # {}
        /\ rule.monthlyAnchor # None =>
               rule.byMonthDay \cup rule.bySetPos \cup rule.byWeekday = {}

\* The exception of one slot: skipped, or moved to the instant `to`.
Exception == [at: Instants, skipped: BOOLEAN, to: Instants]

ASSUME RecurrenceConstants ==
    /\ {DaysPerWeek, Workdays, DayHours, MaxOccurrences, MaxSteps, Horizon} \subseteq Nat \ {0}
    /\ Workdays <= DaysPerWeek /\ LastDay \in Nat /\ GapDay \in Days
    /\ GapHour \in 1..(DayHours - 2)
    /\ MonthDays # <<>> /\ \A m \in DOMAIN MonthDays : MonthDays[m] \in 1..31
    /\ \A rule \in Rules : rule \in Rule /\ MonthlySelectorsValid(rule)
    /\ Seeds \subseteq Instants \ {GapDay * DayHours + GapHour}
    /\ Durations \subseteq Nat \cup {None}
    /\ Windows \subseteq Instants \X Instants /\ Exceptions \subseteq Exception \cup {None}

VARIABLES
    call,       (* the arguments: anchor, rule, exception and window          *)
    cursor,     (* periodCursor                                               *)
    pending,    (* the candidates of the cursor's period not yet looked at    *)
    generated,  (* generatedCount                                             *)
    steps,      (* generationSteps                                            *)
    occurrences,
    outcome     (* "running", "returned", "truncated" or "backstop"           *)

vars == <<call, cursor, pending, generated, steps, occurrences, outcome>>

-----------------------------------------------------------------------------
(* The calendar. *)

MonthsPerYear == Len(MonthDays)

\* Months are numbered through the years, from 0.
MonthLength(m) == MonthDays[(m % MonthsPerYear) + 1]
MonthOfYear(m) == (m % MonthsPerYear) + 1

\* The first day of each month.
FirstDay[m \in 0..(LastDay + 1)] == IF m = 0 THEN 0 ELSE FirstDay[m - 1] + MonthLength(m - 1)

MonthOf == [d \in Days |-> CHOOSE m \in 0..d : d - FirstDay[m] \in 0..(MonthLength(m) - 1)]
DayOfMonth(d) == d - FirstDay[MonthOf[d]] + 1
DaysOf(m) == FirstDay[m]..(FirstDay[m] + MonthLength(m) - 1)

Weekday(d) == d % DaysPerWeek
IsWorkday(d) == Weekday(d) < Workdays
WeekStart(d) == d - Weekday(d)

DayOf(i) == i \div DayHours
HourOf(i) == i % DayHours

\* A local time set on a day; inside the gap it is the hour after.
At(d, hour) == d * DayHours + (IF d = GapDay /\ hour = GapHour THEN hour + 1 ELSE hour)

OrElse(list, default) == IF list = {} THEN default ELSE list

-----------------------------------------------------------------------------
(* The candidates of a period. *)

\* Only the cursor's day, or every listed weekday of the cursor's week, at the
\* cursor's time of day.
DailyCandidates(c) == {c}

WeeklyCandidates(c, rule) ==
    IF rule.byWeekday = {} THEN {c}
    ELSE {At(WeekStart(DayOf(c)) + w, HourOf(c)) : w \in rule.byWeekday}

\* A day the month does not have is skipped, never clamped.
DayInMonth(m, day) == {d \in DaysOf(m) : DayOfMonth(d) = day}

\* The n-th of the days in order, from the back when n is negative.
Nth(days, n) ==
    {d \in days : Cardinality({e \in days : e <= d}) =
                      IF n > 0 THEN n ELSE Cardinality(days) + 1 + n}

NthWeekdayInMonth(m, byWeekday, setPos) ==
    Nth({d \in DaysOf(m) : Weekday(d) \in byWeekday}, setPos)

WorkdayAnchorInMonth(m, mode) ==
    Nth({d \in DaysOf(m) : IsWorkday(d)},
        CASE mode = "FIRST_WORKDAY" -> 1
          [] mode = "LAST_WORKDAY" -> -1
          [] mode = "DAY_BEFORE_LAST_WORKDAY" -> -2)

\* An anchor wins over a position, a position over the listed days.
MonthlyCandidates(c, seed, rule) ==
    LET month == MonthOf[DayOf(c)]
        days ==
          IF rule.monthlyAnchor # None
          THEN WorkdayAnchorInMonth(month, rule.monthlyAnchor)
          ELSE IF rule.bySetPos # {} /\ rule.byWeekday # {}
          THEN UNION {NthWeekdayInMonth(month, rule.byWeekday, n) : n \in rule.bySetPos}
          ELSE UNION {DayInMonth(month, day) :
                        day \in OrElse(rule.byMonthDay, {DayOfMonth(DayOf(seed))})}
    IN  {At(d, HourOf(seed)) : d \in days}

YearlyCandidates(c, seed, rule) ==
    LET month == MonthOf[DayOf(c)]
        january == month - (month % MonthsPerYear)
        months == OrElse(rule.byMonth, {MonthOfYear(MonthOf[DayOf(seed)])})
        days == OrElse(rule.byMonthDay, {DayOfMonth(DayOf(seed))})
    IN  {At(d, HourOf(seed)) :
            d \in UNION {DayInMonth(january + m - 1, day) : m \in months, day \in days}}

\* The axes a frequency does not expand on limit its candidates.
PassesLimitFilters(i, rule) ==
    LET d == DayOf(i) IN
    /\ rule.frequency # "WEEKLY" /\ rule.byWeekday # {} => Weekday(d) \in rule.byWeekday
    /\ rule.frequency \notin {"MONTHLY", "YEARLY"} /\ rule.byMonthDay # {} =>
           DayOfMonth(d) \in rule.byMonthDay
    /\ rule.frequency # "YEARLY" /\ rule.byMonth # {} =>
           MonthOfYear(MonthOf[d]) \in rule.byMonth

CandidatesForPeriod(c, seed, rule) ==
    LET raw == CASE rule.frequency = "DAILY" -> DailyCandidates(c)
                 [] rule.frequency = "WEEKLY" -> WeeklyCandidates(c, rule)
                 [] rule.frequency = "MONTHLY" -> MonthlyCandidates(c, seed, rule)
                 [] rule.frequency = "YEARLY" -> YearlyCandidates(c, seed, rule)
    IN  {i \in raw : i >= seed /\ PassesLimitFilters(i, rule)}

-----------------------------------------------------------------------------
(* The loop. *)

Interval(rule) == IF rule.interval >= 1 THEN rule.interval ELSE 1

\* Adding months keeps the day of the month, clamped to the new month.
PlusMonths(c, n) ==
    LET m == MonthOf[DayOf(c)] + n
        day == Min({DayOfMonth(DayOf(c)), MonthLength(m)})
    IN  At(FirstDay[m] + day - 1, HourOf(c))

StepPeriod(c, rule) ==
    CASE rule.frequency = "DAILY" -> At(DayOf(c) + Interval(rule), HourOf(c))
      [] rule.frequency = "WEEKLY" -> At(DayOf(c) + DaysPerWeek * Interval(rule), HourOf(c))
      [] rule.frequency = "MONTHLY" -> PlusMonths(c, Interval(rule))
      [] rule.frequency = "YEARLY" -> PlusMonths(c, MonthsPerYear * Interval(rule))

\* The inclusive end of an UNTIL_DATE rule: the last instant of its day.
PastUntil(i, rule) == rule.until # None /\ i > At(rule.until + 1, 0) - 1

EndOf(start) == IF call.duration = None THEN start ELSE start + call.duration

Excepted(i) == call.exception # None /\ call.exception.at = i

\* One occurrence, named by the start its rule gives it.
BuildOccurrence(i) ==
    LET start == IF Excepted(i) THEN call.exception.to ELSE i
    IN  [originalStart |-> i, start |-> start,
         end |-> IF call.duration = None THEN None ELSE start + call.duration]

\* A read of a stored series, or the preview of one about to be created.
RecurrenceInit ==
    /\ \E rule \in Rules, seed \in Seeds, duration \in Durations :
          \/ \E window \in Windows, exception \in Exceptions :
                call = [seed |-> seed, duration |-> duration, rule |-> rule,
                        from |-> window[1], to |-> window[2], exception |-> exception]
          \/ /\ duration # None
             /\ call = [seed |-> seed, duration |-> duration, rule |-> rule, from |-> seed,
                        to |-> seed + Horizon * DayHours, exception |-> None]
    /\ cursor = call.seed
    /\ pending = CandidatesForPeriod(call.seed, call.seed, call.rule)
    /\ generated = 0 /\ steps = 0
    /\ occurrences = <<>>
    /\ outcome = "running"

Looking == outcome = "running" /\ pending # {}

\* COUNT as it would be if only the occurrences of the window were counted.
CountReachedInWindow == call.rule.count # 0 /\ Len(occurrences) >= call.rule.count

CountReached == call.rule.count # 0 /\ generated >= call.rule.count

Ended == PastUntil(Min(pending), call.rule) \/ CountReached

\* The rule has ended, by date or by count.
EndSeries ==
    /\ Looking
    /\ Ended
    /\ outcome' = "returned"
    /\ UNCHANGED <<call, cursor, pending, generated, steps, occurrences>>

\* The next candidate starts at or after the end of the window.
LeaveWindow ==
    /\ Looking
    /\ ~ Ended
    /\ Min(pending) >= call.to
    /\ generated' = generated + 1
    /\ outcome' = "returned"
    /\ UNCHANGED <<call, cursor, pending, steps, occurrences>>

\* It ends before the window, or its exception skips it.
PassOver ==
    LET i == Min(pending) IN
    /\ Looking
    /\ ~ Ended
    /\ i < call.to
    /\ EndOf(i) <= call.from \/ (Excepted(i) /\ call.exception.skipped)
    /\ generated' = generated + 1
    /\ pending' = pending \ {i}
    /\ UNCHANGED <<call, cursor, steps, occurrences, outcome>>

Keep ==
    LET i == Min(pending) IN
    /\ Looking
    /\ ~ Ended
    /\ i < call.to
    /\ EndOf(i) > call.from
    /\ ~ (Excepted(i) /\ call.exception.skipped)
    /\ generated' = generated + 1
    /\ occurrences' = Append(occurrences, BuildOccurrence(i))
    /\ pending' = pending \ {i}
    /\ outcome' = IF Len(occurrences') >= MaxOccurrences THEN "truncated" ELSE "running"
    /\ UNCHANGED <<call, cursor, steps>>

NextPeriod ==
    /\ outcome = "running" /\ pending = {}
    /\ LET next == StepPeriod(cursor, call.rule) IN
       IF next <= cursor
       THEN outcome' = "returned" /\ UNCHANGED <<cursor, pending, steps>>
       ELSE /\ cursor' = next
            /\ steps' = steps + 1
            /\ outcome' = IF steps' < MaxSteps THEN "running" ELSE "backstop"
            /\ pending' = IF steps' < MaxSteps
                          THEN CandidatesForPeriod(next, call.seed, call.rule)
                          ELSE {}
    /\ UNCHANGED <<call, generated, occurrences>>

RecurrenceNext == EndSeries \/ LeaveWindow \/ PassOver \/ Keep \/ NextPeriod

RecurrenceSpec == RecurrenceInit /\ [][RecurrenceNext]_vars

-----------------------------------------------------------------------------
(* What a rule says, day by day and without a cursor: the reference the      *)
(* expansion is compared with.                                               *)

SeedDay == DayOf(call.seed)

\* How many periods a day lies after the day of the anchor.
PeriodsAfterSeed(d) ==
    CASE call.rule.frequency = "DAILY" -> d - SeedDay
      [] call.rule.frequency = "WEEKLY" -> (WeekStart(d) - WeekStart(SeedDay)) \div DaysPerWeek
      [] call.rule.frequency = "MONTHLY" -> MonthOf[d] - MonthOf[SeedDay]
      [] call.rule.frequency = "YEARLY" ->
            (MonthOf[d] \div MonthsPerYear) - (MonthOf[SeedDay] \div MonthsPerYear)

\* An absent list names what the anchor names.
Listed(list, x, seedX) == x \in OrElse(list, {seedX})
Allowed(list, x) == list = {} \/ x \in list

\* Of the days of d's month that satisfy P, how many come before d and after it.
BeforeInMonth(d, P(_)) == Cardinality({e \in DaysOf(MonthOf[d]) : e < d /\ P(e)})
AfterInMonth(d, P(_)) == Cardinality({e \in DaysOf(MonthOf[d]) : e > d /\ P(e)})

AnchorsOn(d, mode) ==
    /\ IsWorkday(d)
    /\ mode = "FIRST_WORKDAY" => BeforeInMonth(d, IsWorkday) = 0
    /\ mode = "LAST_WORKDAY" => AfterInMonth(d, IsWorkday) = 0
    /\ mode = "DAY_BEFORE_LAST_WORKDAY" => AfterInMonth(d, IsWorkday) = 1

PositionedOn(d, rule) ==
    LET Named(e) == Weekday(e) \in rule.byWeekday IN
    /\ Named(d)
    /\ \E n \in rule.bySetPos :
          IF n > 0 THEN BeforeInMonth(d, Named) = n - 1 ELSE AfterInMonth(d, Named) = - n - 1

SelectedOn(d) ==
    LET rule == call.rule
        month == MonthOfYear(MonthOf[d])
    IN
    CASE rule.frequency = "DAILY" ->
            /\ Allowed(rule.byWeekday, Weekday(d))
            /\ Allowed(rule.byMonthDay, DayOfMonth(d))
            /\ Allowed(rule.byMonth, month)
      [] rule.frequency = "WEEKLY" ->
            /\ Listed(rule.byWeekday, Weekday(d), Weekday(SeedDay))
            /\ Allowed(rule.byMonthDay, DayOfMonth(d))
            /\ Allowed(rule.byMonth, month)
      [] rule.frequency = "MONTHLY" ->
            /\ Allowed(rule.byMonth, month)
            /\ IF rule.monthlyAnchor # None THEN AnchorsOn(d, rule.monthlyAnchor)
               ELSE IF rule.bySetPos # {} THEN PositionedOn(d, rule)
               ELSE /\ Listed(rule.byMonthDay, DayOfMonth(d), DayOfMonth(SeedDay))
                    /\ Allowed(rule.byWeekday, Weekday(d))
      [] rule.frequency = "YEARLY" ->
            /\ Listed(rule.byMonth, month, MonthOfYear(MonthOf[SeedDay]))
            /\ Listed(rule.byMonthDay, DayOfMonth(d), DayOfMonth(SeedDay))
            /\ Allowed(rule.byWeekday, Weekday(d))

\* Up to the end of the window: an occurrence counts against COUNT by those before it.
RuledDays ==
    {d \in SeedDay..DayOf(call.to) : PeriodsAfterSeed(d) % Interval(call.rule) = 0 /\ SelectedOn(d)}

\* COUNT counts from the anchor, UNTIL includes its day.
SeriesDays ==
    {d \in RuledDays :
        /\ call.rule.until # None => d <= call.rule.until
        /\ call.rule.count # 0 =>
              Cardinality({e \in RuledDays : e <= d}) <= call.rule.count}

\* A cursor that falls into the gap leaves it one hour late and stays so: a DAILY
\* or WEEKLY series then keeps the later hour (see WallClockKept).
DriftedBy(d) ==
    LET periodDay == IF call.rule.frequency = "DAILY" THEN d
                     ELSE WeekStart(d) + Weekday(SeedDay)
    IN
    /\ call.rule.frequency \in {"DAILY", "WEEKLY"}
    /\ HourOf(call.seed) = GapHour
    /\ GapDay \in SeedDay..periodDay
    /\ PeriodsAfterSeed(GapDay) % Interval(call.rule) = 0
    /\ call.rule.frequency = "WEEKLY" => Weekday(GapDay) = Weekday(SeedDay)

StartOn(d) == At(d, HourOf(call.seed) + (IF DriftedBy(d) THEN 1 ELSE 0))

\* An occurrence without an end that starts as the window opens is not in it, although
\* the window is documented as half-open: the code asks that it end after the opening.
InWindow(i) ==
    /\ i < call.to
    /\ IF call.duration = None THEN i > call.from ELSE i + call.duration > call.from

Expected ==
    {i \in {StartOn(d) : d \in SeriesDays} :
        InWindow(i) /\ ~ (Excepted(i) /\ call.exception.skipped)}

\* The period a day belongs to, as the loop numbers them.
StepOf(i) == PeriodsAfterSeed(DayOf(i)) \div Interval(call.rule)

\* An expansion returns exactly the occurrences its rule names in its window, in order
\* and each once, under the names any other window gives them, with COUNT counted from
\* the anchor whatever the window.  Truncated, it returns the first MaxOccurrences of
\* them; stopped by the backstop, those of the first MaxSteps periods.
AsRuled ==
    LET found == {occurrences[n].originalStart : n \in DOMAIN occurrences}
        expected == Expected
    IN
    /\ \A n \in 1..(Len(occurrences) - 1) :
          occurrences[n].originalStart < occurrences[n + 1].originalStart
    /\ outcome = "returned" => found = expected
    /\ outcome = "truncated" =>
          found = {i \in expected : Cardinality({j \in expected : j <= i}) <= MaxOccurrences}
    /\ outcome = "backstop" => found = {i \in expected : StepOf(i) < MaxSteps}

\* "wall-clock time is preserved across DST transitions" (recurrence-rule.service.ts:
\* 490): outside the gap's own day every occurrence has the anchor's time of day.  It
\* does not hold for DAILY and WEEKLY rules, whose cursor carries the shifted hour on.
WallClockKept ==
    \A n \in DOMAIN occurrences :
        LET i == occurrences[n].originalStart
        IN  DayOf(i) # GapDay => HourOf(i) = HourOf(call.seed)
=============================================================================
