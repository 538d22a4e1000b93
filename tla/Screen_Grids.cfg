SPECIFICATION Spec
CONSTANTS
    Instances <- SafeInstances
    MaxCount = 3
INVARIANTS
    GridsValid
    PairsWhole
    IndexesInRange
PROPERTY
    LeavingRestoresMain
CHECK_DEADLOCK FALSE
