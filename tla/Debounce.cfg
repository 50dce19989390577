CONSTANTS
    MaxMessages = 3
    MaxAnswers = 1
    NoAnswer = NoAnswer
    MaxTrouble = 2
SPECIFICATION FairSpec
INVARIANTS OneTurnPerUser
PROPERTIES ImplementsInbox DrainedRunsOrReturns MessagesRunUnlessIgnored AnswersRun
CHECK_DEADLOCK FALSE
