SPECIFICATION FairSpec
CONSTANTS
    Mailboxes = {"a", "b", "c"}
    NoMbox = "none"
    Msgs = {1, 2}
    SessionIDs = {0, 1, 2}
    Conns = {c1}
    Main = main
    Flags = {"Deleted"}
    StartMsgs = {1}
    StartMbox = "a"
    StartNames <- MCStartNames
    MailboxOps = {"Create", "Rename"}
    MaxSelected = 1
    MaxActions = 4
    MaxID = 2
    MaxPlaybacks = 1
INVARIANTS
    ContentKept
    RecoveredClosed
PROPERTIES
    PlaybackEnds
    EffortSpent
CHECK_DEADLOCK FALSE
