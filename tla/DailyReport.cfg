CONSTANTS
    Slots = {s1, s2}
    Instances = {i1, i2}
    DayLength = 2
    MaxClock = 2
    Zones = {0, 1}
    MaxRequests = 2
    MaxFaults = 1
    MaxUsers = 2
    None = None
SPECIFICATION Spec
INVARIANTS OncePerDay MarkHonest AccountWhole BriefCurrent
SYMMETRY Alike
CHECK_DEADLOCK FALSE
