--------------------------- MODULE MCTaskSeries ---------------------------
(* The rules of the small instances: every day, every other day, twice.     *)
EXTENDS TaskSeries

Daily == [every |-> 1, end |-> "never", limit |-> 0]
EveryOther == [every |-> 2, end |-> "never", limit |-> 0]
Twice == [every |-> 1, end |-> "count", limit |-> 2]

DailyOnly == {Daily}
ThreeRules == {Daily, EveryOther, Twice}
=============================================================================
