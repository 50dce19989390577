-------------------------- MODULE MCConflictGate --------------------------
(* The rules of the small instances: every day, every other day.            *)
EXTENDS ConflictGate

Daily == [every |-> 1, end |-> "never", limit |-> 0]
EveryOther == [every |-> 2, end |-> "never", limit |-> 0]

Alternate == {EveryOther}
TwoRules == {Daily, EveryOther}
=============================================================================
