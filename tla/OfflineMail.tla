----------------------------- MODULE OfflineMail -----------------------------
(***************************************************************************)
(* A mail account that works offline: its connections (CLocalClient) change*)
(* the local mailboxes and record what they did in the journal.            *)
(*                                                                         *)
(* Each operation is one step here, its record included; how operations of *)
(* several connections share the recorder is the subject of MailRecorder.  *)
(* One connection, Main, is the account's own: no mailbox is opened on it, *)
(* but closed mailboxes are searched and appended to through it.           *)
(***************************************************************************)
EXTENDS JournalEffect

CONSTANTS
    Conns,       \* the connections mailboxes are opened on
    Main,        \* the account's own connection
    Flags,       \* the flags messages can have, "Deleted" among them
    StartMsgs,   \* the messages on the server when the account goes offline,
    StartMbox,   \*   all of them in this mailbox
    StartNames,  \* name -> mailbox on the server then, 0 when there is none
    MailboxOps,  \* the mailbox operations used: of Create, Delete, Rename
    MaxSelected, \* bound on the messages one flag change applies to
    MaxActions,  \* bound on the queue when an operation starts
    MaxID        \* bound on mNextID

ASSUME OfflineAssumption ==
    /\ Main \notin Conns
    /\ NoMbox \notin Mailboxes /\ IsFiniteSet(Mailboxes)
    /\ "Deleted" \in Flags
    /\ Msgs \subseteq Nat \ {0}
    /\ StartMsgs \subseteq Msgs /\ IsFiniteSet(StartMsgs)
    /\ StartNames \in [Mailboxes -> Nat]
    /\ StartMbox \in Mailboxes /\ StartNames[StartMbox] # 0
    /\ MaxID \in Nat \ {0} /\ SessionIDs = 0..MaxID
    /\ MaxSelected \in Nat /\ MaxActions \in Nat

Clients == Conns \cup {Main}

VARIABLES
    phase,          \* offline, playing or online
    mCurrent_mbox,  \* per client: the mailbox it has selected
    mRecordID,      \* per client: its session ID
    mPendingSelect, \* session ID -> mailbox selected but not yet recorded
    mNextID,
    actions,        \* the journal: the queue, and the file outside playback
    lflags,         \* the flags of the local messages
    nextMsg,        \* the next local UID
    origin,         \* message -> the first message with its text
    odd,            \* what was recorded in a way playback does not expect
    world           \* the server, and where the local messages are

clientVars == <<mCurrent_mbox, mRecordID>>
recordVars == <<mPendingSelect, mNextID, actions>>
mailVars   == <<lflags, nextMsg, origin, odd, world>>

-----------------------------------------------------------------------------
StartWorld ==
    LET here(m) == m \in StartMsgs
    IN  [names  |-> StartNames,
         local  |-> [b \in Mailboxes |->
                       IF StartNames[b] = 0 THEN NoLocal ELSE StartNames[b]],
         fresh  |-> 1 + Max(Range(StartNames)),
         conns  |-> [i \in SessionIDs |-> NoConn],
         at     |-> [m \in Msgs |-> IF here(m) THEN StartNames[StartMbox] ELSE 0],
         flags  |-> [m \in Msgs |-> {}],
         mapped |-> StartMsgs,
         lat    |-> [m \in Msgs |-> IF here(m) THEN StartMbox ELSE NoMbox]]

OfflineInit ==
    /\ phase = "offline"
    /\ mCurrent_mbox = [c \in Clients |-> NoMbox]
    /\ mRecordID = [c \in Clients |-> 0]
    /\ mPendingSelect = [i \in SessionIDs |-> NoMbox]
    /\ mNextID = 1
    /\ actions = << >>
    /\ lflags = [m \in Msgs |-> {}]
    /\ nextMsg = 1 + Max({0} \cup StartMsgs)
    /\ origin = [m \in Msgs |-> m]
    /\ odd = {}
    /\ world = StartWorld

-----------------------------------------------------------------------------
(* Recording entry e for client c: a pending select goes first.            *)
Pending(c) == mPendingSelect[mRecordID[c]]

Record(c, e) ==
    LET id  == mRecordID[c]
        sel == [Blank EXCEPT !.act = "Select", !.id = id, !.mbox = Pending(c)]
    IN  /\ actions' = actions \o (IF Pending(c) = NoMbox THEN << >> ELSE <<sel>>)
                              \o <<[e EXCEPT !.id = id]>>
        /\ mPendingSelect' = [mPendingSelect EXCEPT ![id] = NoMbox]

Ready == phase = "offline" /\ Len(actions) < MaxActions

LocalNames == {b \in Mailboxes : world.local[b] # NoLocal}

OpenOn(c) == {b \in Mailboxes : \E d \in Conns \ {c} : mCurrent_mbox[d] = b}

(* The message numbers a recorded selection keeps: PurgeUIDs, on the UIDs  *)
(* of the selection with those that are not zero in front.                 *)
PurgeUIDs(e, S) ==
    LET known == S \cap world.mapped
    IN  [e EXCEPT !.uids  = known \cup (IF known \in {{}, S} THEN {} ELSE {0}),
                  !.luids = IF known = {} THEN S ELSE {}]

(* Auxiliary: the recordings the properties of playback make exceptions of.*)
(* "mixed": some of the messages selected have a server UID, some have not;*)
(* "unseen": a message expunged has not been on the server yet, at least   *)
(*   not when something else the journal does to it was recorded;          *)
(* "elsewhere": an append goes to another mailbox than the one selected.   *)
Local(q) == UNION {q[k].luids : k \in DOMAIN q}
Mixed(S) == IF S \cap world.mapped \in {{}, S} THEN {} ELSE {"mixed"}

-----------------------------------------------------------------------------
(* A client deselects its mailbox: no entry if the select is still pending.*)
Deselected(c) ==
    LET id == mRecordID[c]
    IN  IF mPendingSelect[id] # NoMbox THEN actions
        ELSE Append(actions, [Blank EXCEPT !.act = "Deselect", !.id = id,
                                           !.mbox = mCurrent_mbox[c]])

(* CMbox::Open: the account's own connection lets go of the mailbox, then  *)
(* connection c selects it under a new session ID.                         *)
Open(c, b) ==
    /\ Ready
    /\ c \in Conns
    /\ mCurrent_mbox[c] = NoMbox
    /\ b \in LocalNames \ OpenOn(c)
    /\ mNextID < MaxID
    /\ LET held == mCurrent_mbox[Main] = b
       IN  /\ actions' = IF held THEN Deselected(Main) ELSE actions
           /\ mCurrent_mbox' =
                [mCurrent_mbox EXCEPT ![c] = b, ![Main] = IF held THEN NoMbox ELSE @]
           /\ mRecordID' =
                [mRecordID EXCEPT ![c] = mNextID, ![Main] = IF held THEN 0 ELSE @]
           /\ mPendingSelect' =
                [mPendingSelect EXCEPT ![mNextID] = b,
                    ![mRecordID[Main]] = IF held THEN NoMbox ELSE @]
    /\ mNextID' = mNextID + 1
    /\ UNCHANGED <<phase, mailVars>>

(* CMboxProtocol::SearchMbox on the account's own connection: a closed     *)
(* mailbox is selected, and what was selected before is just left.         *)
Search(b) ==
    /\ Ready
    /\ b \in LocalNames \ OpenOn(Main)
    /\ mCurrent_mbox[Main] # b
    /\ mNextID < MaxID
    /\ mCurrent_mbox' = [mCurrent_mbox EXCEPT ![Main] = b]
    /\ mRecordID' = [mRecordID EXCEPT ![Main] = mNextID]
    /\ mPendingSelect' = [mPendingSelect EXCEPT ![mNextID] = b]
    /\ mNextID' = mNextID + 1
    /\ UNCHANGED <<phase, actions, mailVars>>

Close(c) ==
    /\ Ready
    /\ c \in Conns
    /\ mCurrent_mbox[c] # NoMbox
    /\ actions' = Deselected(c)
    /\ mPendingSelect' = [mPendingSelect EXCEPT ![mRecordID[c]] = NoMbox]
    /\ mCurrent_mbox' = [mCurrent_mbox EXCEPT ![c] = NoMbox]
    /\ mRecordID' = [mRecordID EXCEPT ![c] = 0]
    /\ UNCHANGED <<phase, mNextID, mailVars>>

InMbox(b)    == {m \in Msgs : world.lat[m] = b}
Selection(c) == {S \in SUBSET InMbox(mCurrent_mbox[c]) :
                    S # {} /\ Cardinality(S) <= MaxSelected}

(* _SetFlag: the flag changes in the local index, and is recorded.         *)
SetFlag(c, S, f, v) ==
    /\ Ready
    /\ c \in Conns
    /\ mCurrent_mbox[c] # NoMbox
    /\ S \in Selection(c)
    /\ lflags' = [m \in Msgs |-> IF m \notin S THEN lflags[m]
                                 ELSE IF v THEN lflags[m] \cup {f}
                                           ELSE lflags[m] \ {f}]
    /\ lflags' # lflags
    /\ Record(c, PurgeUIDs([Blank EXCEPT !.act = "Flag", !.flag = f, !.set = v], S))
    /\ odd' = odd \cup Mixed(S)
    /\ UNCHANGED <<phase, clientVars, mNextID, nextMsg, origin, world>>

(* A message with the text of message m appears in local mailbox b.        *)
Arrived(n, b, m, flags) ==
    /\ n = nextMsg /\ n \in Msgs
    /\ nextMsg' = n + 1
    /\ lflags' = [lflags EXCEPT ![n] = flags]
    /\ origin' = [origin EXCEPT ![n] = origin[m]]
    /\ world' = [world EXCEPT !.lat[n] = b]

(* _CopyMessage, one message.                                              *)
CopyMessage(c, m, b, n) ==
    /\ Ready
    /\ c \in Conns
    /\ mCurrent_mbox[c] # NoMbox
    /\ m \in InMbox(mCurrent_mbox[c])
    /\ b \in LocalNames \ {mCurrent_mbox[c]}
    /\ Arrived(n, b, m, lflags[m])
    /\ Record(c, [PurgeUIDs([Blank EXCEPT !.act = "Copy", !.mbox = b], {m})
                    EXCEPT !.as = n])
    /\ UNCHANGED <<phase, clientVars, mNextID, odd>>

(* CMbox::AppendMessage: on the connection of the mailbox when it is open, *)
(* else on the account's own connection, whatever that has selected.       *)
AppendMessage(b, n) ==
    /\ Ready
    /\ b \in LocalNames
    /\ Arrived(n, b, n, {})
    /\ \E c \in Clients :
         /\ IF b \in OpenOn(Main) THEN mCurrent_mbox[c] = b /\ c # Main ELSE c = Main
         /\ Record(c, [Blank EXCEPT !.act = "Append", !.mbox = b, !.as = n])
         /\ odd' = odd \cup (IF mCurrent_mbox[c] \in {NoMbox, b} THEN {}
                             ELSE {"elsewhere"})
    /\ UNCHANGED <<phase, clientVars, mNextID>>

(* _ExpungeMbox: everything marked as deleted goes.                        *)
ExpungeMbox(c) ==
    /\ Ready
    /\ c \in Conns
    /\ mCurrent_mbox[c] # NoMbox
    /\ LET gone == {m \in InMbox(mCurrent_mbox[c]) : "Deleted" \in lflags[m]}
       IN  /\ gone # {}
           /\ world' = [world EXCEPT !.lat =
                          [m \in Msgs |-> IF m \in gone THEN NoMbox ELSE @[m]]]
           /\ Record(c, PurgeUIDs([Blank EXCEPT !.act = "Expunge"], gone))
           /\ odd' = odd \cup Mixed(gone)
                         \cup (IF gone \subseteq world.mapped \ Local(actions)
                               THEN {} ELSE {"unseen"})
    /\ UNCHANGED <<phase, clientVars, mNextID, nextMsg, lflags, origin>>

(* Mailbox operations, on the account's own connection.                    *)
Unselected(b) == \A c \in Clients : mCurrent_mbox[c] # b

CreateMbox(b) ==
    /\ Ready
    /\ "Create" \in MailboxOps
    /\ b \in Mailboxes \ LocalNames
    /\ world' = [world EXCEPT !.local[b] = 0]
    /\ Record(Main, [Blank EXCEPT !.act = "Create", !.mbox = b])
    /\ UNCHANGED <<phase, clientVars, mNextID, nextMsg, lflags, origin, odd>>

DeleteMbox(b) ==
    /\ Ready
    /\ "Delete" \in MailboxOps
    /\ b \in LocalNames
    /\ Unselected(b)
    /\ world' = [world EXCEPT !.local[b] = NoLocal,
                              !.lat = [m \in Msgs |-> IF @[m] = b THEN NoMbox ELSE @[m]]]
    /\ Record(Main, [Blank EXCEPT !.act = "Delete", !.mbox = b])
    /\ UNCHANGED <<phase, clientVars, mNextID, nextMsg, lflags, origin, odd>>

RenameMbox(b, d) ==
    /\ Ready
    /\ "Rename" \in MailboxOps
    /\ b \in LocalNames
    /\ d \in Mailboxes \ LocalNames
    /\ Unselected(b)
    /\ world' = [world EXCEPT !.local[b] = NoLocal, !.local[d] = world.local[b],
                              !.lat = [m \in Msgs |-> IF @[m] = b THEN d ELSE @[m]]]
    /\ Record(Main, [Blank EXCEPT !.act = "Rename", !.mbox = b, !.to = d])
    /\ UNCHANGED <<phase, clientVars, mNextID, nextMsg, lflags, origin, odd>>

-----------------------------------------------------------------------------
ClientStep(c) ==
    \/ \E b \in Mailboxes : Open(c, b)
    \/ Close(c)
    \/ \E S \in Selection(c), f \in Flags, v \in BOOLEAN : SetFlag(c, S, f, v)
    \/ \E m, n \in Msgs, b \in Mailboxes : CopyMessage(c, m, b, n)
    \/ ExpungeMbox(c)

AccountStep ==
    \/ \E b \in Mailboxes : Search(b) \/ CreateMbox(b) \/ DeleteMbox(b)
    \/ \E b \in Mailboxes, n \in Msgs : AppendMessage(b, n)
    \/ \E b, d \in Mailboxes : RenameMbox(b, d)

OfflineNext == (\E c \in Conns : ClientStep(c)) \/ AccountStep

offlineVars == <<phase, clientVars, recordVars, mailVars>>

OfflineSpec == OfflineInit /\ [][OfflineNext]_offlineVars

-----------------------------------------------------------------------------
(* The entries of the queue, in memory and in the file; each has the data  *)
(* of its kind.                                                            *)
Fields ==
    [act   : NeedsSelect \cup {"Select", "Deselect", "Append",
                               "Create", "Delete", "Rename"},
     id    : SessionIDs,
     mbox  : Mailboxes \cup {Blank.mbox},
     to    : Mailboxes \cup {Blank.to},
     uids  : SUBSET ({0} \cup Msgs),
     luids : SUBSET Msgs,
     flag  : Flags \cup {Blank.flag},
     set   : BOOLEAN,
     as    : {0} \cup Msgs]

HasData(a) ==
    /\ a.act = "Flag" => a.flag \in Flags
    /\ a.act \in {"Copy", "Append"} => a.as \in Msgs
    /\ a.act \notin {"Flag", "Expunge"} => a.mbox \in Mailboxes
    /\ a.act = "Rename" => a.to \in Mailboxes

CMailAction == {a \in Fields : HasData(a)}

World ==
    [names  : [Mailboxes -> Nat],
     local  : [Mailboxes -> Nat \cup {NoLocal}],
     fresh  : Nat,
     conns  : [SessionIDs -> {NoConn} \cup [box : Nat, mbox : Mailboxes]],
     at     : [Msgs -> Nat],
     flags  : [Msgs -> SUBSET Flags],
     mapped : SUBSET Msgs,
     lat    : [Msgs -> Mailboxes \cup {NoMbox}]]

OfflineTypeOK ==
    /\ phase \in {"offline", "playing", "online"}
    /\ mCurrent_mbox \in [Clients -> Mailboxes \cup {NoMbox}]
    /\ mRecordID \in [Clients -> SessionIDs]
    /\ mPendingSelect \in [SessionIDs -> Mailboxes \cup {NoMbox}]
    /\ mNextID \in SessionIDs \ {0}
    /\ actions \in Seq(CMailAction)
    /\ lflags \in [Msgs -> SUBSET Flags]
    /\ nextMsg \in Nat \ {0}
    /\ origin \in [Msgs -> Msgs]
    /\ odd \subseteq {"mixed", "unseen", "elsewhere"}
    /\ world \in World

(* What a journal leads to on the server: where every message is and with  *)
(* which flags, and which mailbox has which name.                          *)
Outcome(w) == [at |-> w.at, names |-> w.names,
               flags |-> [m \in Msgs |-> IF w.at[m] = 0 THEN {} ELSE w.flags[m]]]

(* Compacting the journal does not change what playing it does to the      *)
(* server (CMailRecord::CompactPlayback and its five passes), unless one of*)
(* the selections mixed messages with and without a server UID.            *)
CompactionFaithful ==
    phase = "offline" /\ "mixed" \notin odd =>
        Outcome(PlayAll(world, CompactPlayback(actions)))
            = Outcome(PlayAll(world, actions))

(* The entries of a kind in a session, and what is asked of a session.     *)
EntriesOf(q, act, id) == {k \in DOMAIN q : q[k].act = act /\ q[k].id = id}

ClosedSession(q, id) ==
    LET selects   == EntriesOf(q, "Select", id)
        deselects == EntriesOf(q, "Deselect", id)
    IN  /\ Cardinality(selects) = Cardinality(deselects)
        /\ Cardinality(selects) <= 1
        /\ \A k \in UNION {EntriesOf(q, act, id) : act \in NeedsSelect} :
             (\E i \in selects : i < k) /\ (\E j \in deselects : j > k)

(* In a compacted journal every change to messages is made in a session    *)
(* that has been selected and that will be deselected, no session is       *)
(* selected twice and none for nothing (CompactMissing, CompactUnterminated*)
(* and CompactMultiple each add or remove selects and deselects).          *)
SessionsClosed ==
    LET q == CompactPlayback(actions)
    IN  phase = "offline" => \A id \in {q[k].id : k \in DOMAIN q} : ClosedSession(q, id)
=============================================================================
