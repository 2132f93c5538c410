CONSTANTS
    NrOfStrings = 1
    WithPrecharge <- MCFirstString
    Faulty <- MCPlusOfString0
    SensorFaults = FALSE
    FbThreshold = 0
    Lost30C = Lost30C
    FatalIds = {Lost30C, Overvoltage}
    FatalDelay <- MCLongDelay
    FeedbackDelay = 1
    NoActiveDelay = 4
    MediumTime = 1
    LongTime = 1
    WaitClosing = 2
    WaitOpening = 1
    WaitPrechargeOpen = 1
    WaitPrechargeFail = 1
    CloseTimeout = 2
    OpenTimeout = 3
    OscillationTimeout = 1
    PrechargeTries = 2
    PrechargeDuration = 1
    FuseDuration = 1
    CountModulus = 3
SPECIFICATION FairSpec
INVARIANTS
    ContactorsFollowSteps
    DelayLoaded
PROPERTIES
    NoConnectionAfterDelay
    OpeningEnds
    ErrorTakesEffect
    ErrorIsReached
    WeldedContactorFound
