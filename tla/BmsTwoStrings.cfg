CONSTANTS
    NrOfStrings = 2
    WithPrecharge <- MCFirstString
    Faulty <- MCNoContactor
    SensorFaults = FALSE
    FbThreshold = 1
    Lost30C = Lost30C
    FatalIds = {Lost30C}
    FatalDelay <- MCFatalDelay
    FeedbackDelay = 1
    NoActiveDelay = 4
    MediumTime = 1
    LongTime = 1
    WaitClosing = 1
    WaitOpening = 1
    WaitPrechargeOpen = 1
    WaitPrechargeFail = 1
    CloseTimeout = 2
    OpenTimeout = 3
    OscillationTimeout = 1
    PrechargeTries = 2
    PrechargeDuration = 0
    FuseDuration = 1
    CountModulus = 3
SPECIFICATION FairSpec
PROPERTIES
    ErrorTakesEffect
