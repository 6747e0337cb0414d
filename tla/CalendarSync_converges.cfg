CONSTANTS
    e1 = e1
    e2 = e2
    Events = {e1, e2}
    Servers = {"fast"}
    MaxEdits = 2
    MaxOthers = 1
    MaxFaults = 1
    MaxCrashes = 0
SPECIFICATION FairSpec
PROPERTIES
    Converges
CHECK_DEADLOCK FALSE
