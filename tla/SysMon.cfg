CONSTANTS
    NrOfTasks = 2
SPECIFICATION Spec
INVARIANTS
    RecordInStep
    RecordKept
PROPERTIES
    ViolationIsStored
