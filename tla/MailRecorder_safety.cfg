\* Two connections of one account share a recorder.
SPECIFICATION Spec
CONSTANTS
    c1 = c1
    c2 = c2
    inbox = inbox
    sent = sent
    NoClient = NoClient
    NoMbox = NoMbox
    Clients <- MCClients
    Mailboxes <- MCMailboxes
    MailboxActs <- MCMailboxActs
    MessageActs <- MCMessageActs
    MaxID = 3
    MaxActions = 3
SYMMETRY MCSymmetry
INVARIANTS
    TypeOK
    JournalComplete
    FreshIDs
    HeaderAhead
    SessionsWhole
    SessionsWholeOnDisk
PROPERTIES
    JournalSurvives
    JournalSpec
