CONSTANTS
    WatchdogPeriod = 10
    RefreshLimit = 6
    PowerUpFaults = {2}
    MaxRetries = 3
    CheckTime = 10
SPECIFICATION SbcSpec
INVARIANTS
    RequiredRefreshesSuffice
