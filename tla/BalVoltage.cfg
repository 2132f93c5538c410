CONSTANTS
    NrOfCells = 2
    MaxSpread = 2
    RequestedThresholds = {0, 2}
    MinimumThreshold = 0
    MaximumThreshold = 1
    DefaultThreshold = 0
    Hysteresis = 1
    BalancingTime = 2
SPECIFICATION FairSpec
INVARIANTS
    OnlyWhileBalancing
PROPERTIES
    DisableIsObeyed
    LimitOrCurrentStops
    BalancingHappens
