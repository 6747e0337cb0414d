CONSTANTS
    Kinds = {"put", "lock"}
    MaxEdits = 2
    MaxOthers = 2
    MaxFaults = 1
    MaxCrashes = 1
SPECIFICATION FairSpec
INVARIANTS
    TypeOK
    EditsKept
    OthersKept
PROPERTIES
    Converges
CHECK_DEADLOCK FALSE
