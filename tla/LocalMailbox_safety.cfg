SPECIFICATION Spec
CONSTANTS
    m1 = m1
    m2 = m2
    m3 = m3
    Msgs = {m1, m2, m3}
    StartMsgs <- MCStartMsgs
    MaxFaults = 2
INVARIANTS
    TypeOK
    ViewSound
    NothingLost
    RecordsKept
    DiskCurrent
    Opens
