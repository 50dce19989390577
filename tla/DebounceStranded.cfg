CONSTANTS
    MaxMessages = 2
    MaxAnswers = 0
    NoAnswer = NoAnswer
    MaxTrouble = 0
SPECIFICATION FairSpec
PROPERTIES EveryMessageRuns
CHECK_DEADLOCK FALSE
