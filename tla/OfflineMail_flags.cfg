SPECIFICATION OfflineSpec
CONSTANTS
    Mailboxes = {"a", "c"}
    NoMbox = "none"
    Msgs = {1, 2, 3}
    SessionIDs = {0, 1, 2, 3}
    Conns = {c1}
    Main = main
    Flags = {"Deleted", "Seen"}
    StartMsgs = {1, 2}
    StartMbox = "a"
    StartNames <- MCStartNames
    MailboxOps = {"Delete", "Rename"}
    MaxSelected = 2
    MaxActions = 6
    MaxID = 3
INVARIANTS
    CompactionFaithful
CHECK_DEADLOCK FALSE
