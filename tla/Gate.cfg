CONSTANTS
    Clients = {app, chat}
    Assistant = chat
    MaxTask = 2
    Horizon = 2
    Strides = {1, 2}
    UserRules <- Alternate
    Targets = {1}
    Lengths = {2}
    PreloadFrom = 0
    PreloadTo = 0
    PreviewDays = 2
    MaxRequests = 2
    MaxCalls = 2
    NoTask = NoTask
    NoRule = NoRule
    NoException = NoException
    NoDay = NoDay
SPECIFICATION GateSpec
INVARIANT GateAgrees
PROPERTIES OverlapsExplained
CHECK_DEADLOCK FALSE
