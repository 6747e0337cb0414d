CONSTANTS
    e1 = e1
    e2 = e2
    Events = {e1, e2}
    Servers = {"slow"}
    MaxEdits = 1
    MaxOthers = 1
    MaxFaults = 0
    MaxCrashes = 0
SPECIFICATION FairSpec
PROPERTIES
    RemovalsSent
CHECK_DEADLOCK FALSE
