SPECIFICATION Spec

CONSTANTS
    Clients = {c1, c2}
    Series = series
    Child = child
    Revision = revision
    Lag = 3
    Span = 2
    MaxTime = 7
    MaxRequests = 2
    MaxFaults = 1
    None = None

SYMMETRY ClientSymmetry

INVARIANTS DeltaComplete DeadlockExplained

CHECK_DEADLOCK FALSE
