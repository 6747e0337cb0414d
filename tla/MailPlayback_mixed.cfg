SPECIFICATION Spec
CONSTANTS
    Mailboxes = {"a", "b"}
    NoMbox = "none"
    Msgs = {1, 2, 3}
    SessionIDs = {0, 1, 2, 3}
    Conns = {c1}
    Main = main
    Flags = {"Deleted"}
    StartMsgs = {1}
    StartMbox = "a"
    StartNames <- MCStartNames
    MailboxOps = {}
    MaxSelected = 2
    MaxActions = 4
    MaxID = 3
    MaxPlaybacks = 1
INVARIANTS
    SelectionsSynchronised
CHECK_DEADLOCK FALSE
