CONSTANTS
    MaxToolRoundtrips = 3
    MaxScheduleFetches = 1
    Budgets = {0, 1}
    MaxCalls = 2
    BatchSize = 2
    MaxResumes = 1
SPECIFICATION FairSpec
INVARIANTS PairedUpToAsk DeniesOnlyForgotten ClaimBacked
PROPERTIES TurnEnds
CHECK_DEADLOCK FALSE
