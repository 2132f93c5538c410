CONSTANTS
    NrOfStrings = 2
    NrOfIds = 3
    FatalIds = {0, 1}
    SystemIds = {0, 2}
    Threshold <- MCThresholds
    NrOfTasks = 2
    NotOkTask <- MCTasks
    OkTask <- MCTasks
    TimerQueueLength = 1
    CountModulus = 3
SPECIFICATION SpecHistory
INVARIANTS
    FlagsFollowCounters
    ListedIsFlagged
    CountAndTimerAgree
PROPERTIES
    ImplementsEntries
    ActiveErrorsAreResent
