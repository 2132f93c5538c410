CONSTANTS
    Channels = {0, 3}
    GeneralIo = {3}
    ResetTicks = 5
SPECIFICATION Spec
INVARIANTS
    StatusIsSent
