CONSTANTS
    e1 = e1
    e2 = e2
    Events = {e1, e2}
    Servers = {"fast", "slow"}
    MaxEdits = 2
    MaxOthers = 1
    MaxFaults = 1
    MaxCrashes = 1
SYMMETRY Symmetry
SPECIFICATION Spec
INVARIANTS
    TypeOK
    EditsKept
    TokenSound
CHECK_DEADLOCK FALSE
