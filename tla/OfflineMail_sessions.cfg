SPECIFICATION OfflineSpec
CONSTANTS
    Mailboxes = {"a", "b", "c"}
    NoMbox = "none"
    Msgs = {1, 2}
    SessionIDs = {0, 1, 2, 3, 4}
    Conns = {c1}
    Main = main
    Flags = {"Deleted"}
    StartMsgs = {1}
    StartMbox = "a"
    StartNames <- MCStartNames
    MailboxOps = {"Create"}
    MaxSelected = 1
    MaxActions = 7
    MaxID = 4
INVARIANTS
    CompactionFaithful
    SessionsClosed
CHECK_DEADLOCK FALSE
