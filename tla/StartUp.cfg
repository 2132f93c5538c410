CONSTANTS
    WatchdogPeriod = 3
    RefreshLimit = 2
    PowerUpFaults = {0, 1}
    MaxRetries = 1
    CheckTime = 2
    MediumTime = 2
    LongTime = 4
    SbcLimit = 15
    BalLimit = 20
    InitLimit = 2
    SlowPeriod = 4
    SlowJitter = 1
SPECIFICATION Spec
INVARIANTS
    ErrorHasCause
    InsulationIsMeasured
PROPERTIES
    RefreshInTime
    StartUpEnds
    IgnitionOffIsFollowed
