CONSTANTS
    MaxSnapshots = 2
    MaxFrames = 1
    MaxFaults = 4
    MaxTries = 2
SPECIFICATION Spec
INVARIANTS DrainedBeforeReply LeaksExplained RepliedOnce
PROPERTIES ReplyStays NeverBlank
CHECK_DEADLOCK FALSE
