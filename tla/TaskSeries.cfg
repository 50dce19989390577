CONSTANTS
    Clients = {app}
    MaxTask = 3
    Horizon = 3
    Strides = {1, 2}
    UserRules <- ThreeRules
    Targets = {2}
    Lengths = {2}
    MaxRequests = 3
    NoTask = NoTask
    NoRule = NoRule
    NoException = NoException
    NoDay = NoDay
SPECIFICATION Spec
INVARIANTS ShownOnce ChildrenFit RemovedStaysAway
PROPERTIES CutConserves OneOccurrenceOnly
CHECK_DEADLOCK FALSE
