CONSTANTS
    DaysPerWeek = 3
    Workdays = 2
    MonthDays <- MonthsOf5And3
    LastDay = 140
    DayHours = 3
    GapDay = 6
    GapHour = 1
    MaxOccurrences = 5
    MaxSteps = 8
    Horizon = 10
    Rules <- EveryRule
    Seeds <- Anchors
    Durations = {None, 1, 4}
    Windows <- Ranges
    Exceptions <- SomeExceptions
    None = None
SPECIFICATION RecurrenceSpec
INVARIANT AsRuled
CHECK_DEADLOCK FALSE
