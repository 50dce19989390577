CONSTANTS
    Questions = {q1, q2}
    None = None
    Inputs = {i1, i2, i3}
    Serialized = TRUE
    MaxTrouble = 1
SPECIFICATION FairSpec
INVARIANTS ResumedOnce ClearsOwnPointer
PROPERTIES ClosedStaysClosed ClaimedResumes
CHECK_DEADLOCK FALSE
