---------------------------- MODULE MailRecorder ----------------------------
(***************************************************************************)
(* The journal of a disconnected mail account: CActionRecorder (the queue, *)
(* its mutex, its file) and the recording half of CMailRecord, driven by   *)
(* the local connections (CLocalClient) that share one recorder and by the *)
(* account, which goes online, plays the journal back and goes offline.    *)
(*                                                                         *)
(* Playing an item back is reduced here to what it does to the queue and   *)
(* to the table of open connections.                                       *)
(***************************************************************************)
EXTENDS Integers, Sequences

CONSTANTS
    Clients,      \* the CLocalClients (connections) sharing the recorder
    Mailboxes,    \* the mailboxes of the account
    MailboxActs,  \* recorded without a selection: Create, Delete, Rename ...
    MessageActs,  \* recorded on the selected mailbox: SetFlags, CopyTo, Expunge
    NoClient,     \* the mutex is free
    NoMbox,       \* no mailbox
    MaxID,        \* bound on mNextID
    MaxActions    \* bound on the queue when an operation starts

Structural == {"Select", "Deselect", "Append"}

ASSUME ConstantsAssumption ==
    /\ MaxID \in Nat \ {0}
    /\ MaxActions \in Nat
    /\ NoClient \notin Clients
    /\ NoMbox \notin Mailboxes
    /\ MailboxActs \cap MessageActs = {}
    /\ (MailboxActs \cup MessageActs) \cap Structural = {}

IDs == 0..MaxID

(* The mailbox of a message action is auxiliary: the code records only its *)
(* UIDs, and finds the mailbox again through the session's Select.  The    *)
(* mailboxes that mailbox actions and appends name play no part here.      *)
OnMailbox == MessageActs \cup {"Select", "Deselect"}
Elsewhere == MailboxActs \cup {"Append"}

CMailAction == [act : OnMailbox, id : IDs, mbox : Mailboxes]
               \cup [act : Elsewhere, id : IDs, mbox : {NoMbox}]

NoFile == [next |-> 0, items |-> << >>]

VARIABLES
    holder,         \* owner of CActionRecorder::_mutex
    step,           \* per client: idle, selecting, started, recorded
    op,             \* per client: the operation being recorded
    mRecordID,      \* per client: CLocalClient::mRecordID
    mCurrent_mbox,  \* per client: the mailbox its protocol has selected
    actions,        \* the in-memory queue
    mStartRecord,
    mNextID,
    mCurrentID,
    mPendingSelect, \* id -> mailbox selected but not yet recorded
    mStream,        \* [open, fail]
    dirty,          \* the header written by GetNextID is still in the buffer
    disk,           \* the file Record.mbr: header and items
    phase,          \* what the account is doing
    mConns,         \* id -> mailbox open during playback
    refused         \* auxiliary: the sessions whose Select was refused

clientVars   == <<step, op, mRecordID, mCurrent_mbox>>
recorderVars == <<actions, mStartRecord, mNextID, mCurrentID, mPendingSelect>>
fileVars     == <<mStream, dirty, disk>>
vars == <<holder, clientVars, recorderVars, fileVars, phase, mConns, refused>>

NoOp   == [act |-> "None", mbox |-> NoMbox]
Ops    == [act : OnMailbox, mbox : Mailboxes] \cup [act : Elsewhere, mbox : {NoMbox}]
Nobody == [i \in IDs |-> NoMbox]

Phases == {"offline", "playing", "recovering", "clearing", "removed",
           "leaving", "online", "down"}

-----------------------------------------------------------------------------
(* The file.  Every seek flushes what the stream has buffered, so the      *)
(* header a GetNextID left behind reaches the file before anything else.   *)

Synced == IF dirty THEN [disk EXCEPT !.next = mNextID] ELSE disk

(* Faulty: the header is read even if it could not be kept up to date.     *)
OpenTrustsHeader ==
    IF mStream.open
    THEN UNCHANGED <<actions, mNextID, fileVars>>
    ELSE LET next == IF disk.next = 0 THEN mNextID ELSE disk.next
         IN  /\ mNextID' = next
             /\ disk' = [disk EXCEPT !.next = next]
             /\ actions' = disk.items
             /\ mStream' = [open |-> TRUE, fail |-> FALSE]
             /\ dirty' = FALSE

(* Faulty: a stream that kept a failure is opened with truncation.         *)
OpenTruncates ==
    IF mStream.open
    THEN UNCHANGED <<actions, mNextID, fileVars>>
    ELSE LET anew == mStream.fail \/ disk.next = 0
             file == IF anew THEN [next |-> mNextID, items |-> << >>] ELSE disk
         IN  /\ mNextID' = file.next
             /\ disk' = file
             /\ actions' = file.items
             /\ mStream' = [open |-> TRUE, fail |-> FALSE]
             /\ dirty' = FALSE

(* CActionRecorder::Open.  A missing or empty file, or a stream that kept  *)
(* a failure from a write while it was closed, gets its header from memory;*)
(* otherwise the header is read.  The queue is always replaced by the file.*)
Open ==
    IF mStream.open
    THEN UNCHANGED <<actions, mNextID, fileVars>>
    ELSE LET next == IF mStream.fail \/ disk.next = 0
                     THEN mNextID ELSE disk.next
         IN  /\ mNextID' = next
             /\ disk' = [disk EXCEPT !.next = next]
             /\ actions' = disk.items
             /\ mStream' = [open |-> TRUE, fail |-> FALSE]
             /\ dirty' = FALSE

(* Faulty: the counter is written only when the journal is closed.         *)
BumpIDUnwritten ==
    /\ mNextID < MaxID
    /\ mNextID' = mNextID + 1
    /\ UNCHANGED fileVars

(* GetNextID: bump the counter and write it at the start of the file; the  *)
(* write stays in the buffer, or fails when the stream is closed.          *)
BumpID ==
    /\ mNextID < MaxID
    /\ mNextID' = mNextID + 1
    /\ IF mStream.open
       THEN disk' = Synced /\ dirty' = TRUE /\ UNCHANGED mStream
       ELSE mStream' = [mStream EXCEPT !.fail = TRUE] /\ UNCHANGED <<disk, dirty>>

NewItems == SubSeq(actions, mStartRecord + 1, Len(actions))

-----------------------------------------------------------------------------
Init ==
    /\ holder = NoClient
    /\ step = [c \in Clients |-> "idle"]
    /\ op = [c \in Clients |-> NoOp]
    /\ mRecordID = [c \in Clients |-> 0]
    /\ mCurrent_mbox = [c \in Clients |-> NoMbox]
    /\ actions = << >>
    /\ mStartRecord = 0
    /\ mNextID = 1
    /\ mCurrentID = 0
    /\ mPendingSelect = Nobody
    /\ mStream = [open |-> TRUE, fail |-> FALSE]
    /\ dirty = FALSE
    /\ disk = [next |-> 1, items |-> << >>]
    /\ phase = "offline"
    /\ mConns = Nobody
    /\ refused = {}

-----------------------------------------------------------------------------
(* Recording.  Each operation has already changed the local mailbox when   *)
(* it asks for the recorder's mutex.                                       *)

(* _SelectMbox: take a new session ID (its own critical section) ...       *)
SelectMbox(c, m) ==
    /\ phase = "offline"
    /\ step[c] = "idle"
    /\ holder = NoClient
    /\ BumpID
    /\ mRecordID' = [mRecordID EXCEPT ![c] = mNextID]
    /\ mCurrent_mbox' = [mCurrent_mbox EXCEPT ![c] = m]
    /\ op' = [op EXCEPT ![c] = [act |-> "Select", mbox |-> m]]
    /\ step' = [step EXCEPT ![c] = "selecting"]
    /\ UNCHANGED <<holder, actions, mStartRecord, mCurrentID, mPendingSelect,
                   phase, mConns, refused>>

(* ... and if the mutex cannot then be had within cdmutex's time limit the *)
(* select fails and the protocol forgets the mailbox.                      *)
SelectTimedOut(c) ==
    /\ step[c] = "selecting"
    /\ holder # NoClient
    /\ mCurrent_mbox' = [mCurrent_mbox EXCEPT ![c] = NoMbox]
    /\ op' = [op EXCEPT ![c] = NoOp]
    /\ step' = [step EXCEPT ![c] = "idle"]
    /\ UNCHANGED <<holder, mRecordID, recorderVars, fileVars, phase, mConns, refused>>

(* ForgetMbox whose Deselect cannot get the mutex: no record, old ID kept. *)
ForgetTimedOut(c) ==
    /\ phase = "offline"
    /\ step[c] = "idle"
    /\ mCurrent_mbox[c] # NoMbox
    /\ holder # NoClient
    /\ mCurrent_mbox' = [mCurrent_mbox EXCEPT ![c] = NoMbox]
    /\ UNCHANGED <<holder, step, op, mRecordID, recorderVars, fileVars, phase,
                   mConns, refused>>

(* The connection is dropped: Logoff and Forceoff record nothing.          *)
Forceoff(c) ==
    /\ phase \in {"offline", "leaving"}
    /\ step[c] = "idle"
    /\ mRecordID[c] # 0
    /\ mRecordID' = [mRecordID EXCEPT ![c] = 0]
    /\ mCurrent_mbox' = [mCurrent_mbox EXCEPT ![c] = NoMbox]
    /\ UNCHANGED <<holder, step, op, recorderVars, fileVars, phase, mConns, refused>>

(* The operations a client may record now.                                 *)
Recordable(c) ==
    IF phase = "leaving"
    THEN {o \in Ops : o.act = "Deselect" /\ o.mbox = mCurrent_mbox[c]}
    ELSE {o \in Ops : \/ o.act \in Elsewhere
                      \/ /\ o.act \in MessageActs \cup {"Deselect"}
                         /\ o.mbox = mCurrent_mbox[c]}

(* Faulty: StartRecording without the mutex.                               *)
LockWithoutMutex(c, o) ==
    /\ holder' = c
    /\ op' = [op EXCEPT ![c] = o]
    /\ step' = [step EXCEPT ![c] = "started"]
    /\ mCurrentID' = mRecordID[c]
    /\ mStartRecord' = Len(actions)
    /\ UNCHANGED <<mRecordID, mCurrent_mbox, actions, mNextID, mPendingSelect,
                   fileVars, phase, mConns, refused>>

Lock(c, o) ==
    /\ holder = NoClient
    /\ holder' = c
    /\ op' = [op EXCEPT ![c] = o]
    /\ step' = [step EXCEPT ![c] = "started"]
    /\ mCurrentID' = mRecordID[c]
    /\ mStartRecord' = Len(actions)
    /\ UNCHANGED <<mRecordID, mCurrent_mbox, actions, mNextID, mPendingSelect,
                   fileVars, phase, mConns, refused>>

(* StActionRecorder's constructor: hold the mutex for the whole operation. *)
StartRecording(c) ==
    /\ phase \in {"offline", "leaving"}
    /\ Len(actions) < MaxActions
    /\ \/ step[c] = "selecting" /\ Lock(c, op[c])
       \/ step[c] = "idle" /\ \E o \in Recordable(c) : Lock(c, o)

Item(act, m) == [act |-> act, id |-> mCurrentID, mbox |-> m]
Pending      == mPendingSelect[mCurrentID] # NoMbox
DropPending  == mPendingSelect' = [mPendingSelect EXCEPT ![mCurrentID] = NoMbox]

(* CMailRecord::Select: remember the selection; push nothing yet.          *)
RecordSelect(m) ==
    /\ mPendingSelect' = IF Pending THEN mPendingSelect
                         ELSE [mPendingSelect EXCEPT ![mCurrentID] = m]
    /\ UNCHANGED <<actions, mRecordID, mCurrent_mbox>>

(* CMailRecord::Deselect, then the client gives up its session ID.         *)
RecordDeselect(c, m) ==
    /\ DropPending
    /\ actions' = IF Pending THEN actions
                  ELSE Append(actions, Item("Deselect", m))
    /\ mRecordID' = [mRecordID EXCEPT ![c] = 0]
    /\ mCurrent_mbox' = [mCurrent_mbox EXCEPT ![c] = NoMbox]

(* Create, Delete, Rename, Subscribe, Unsubscribe.                         *)
RecordMailboxAction(o) ==
    /\ actions' = Append(actions, Item(o.act, o.mbox))
    /\ UNCHANGED <<mRecordID, mCurrent_mbox, mPendingSelect>>

(* Faulty: PushSelect without looking for a pending select first.          *)
RecordMessageActionAnyway(o) ==
    /\ actions' = actions \o <<Item("Select", mPendingSelect[mCurrentID]),
                              Item(o.act, o.mbox)>>
    /\ DropPending
    /\ UNCHANGED <<mRecordID, mCurrent_mbox>>

(* SetFlags, CopyTo, AppendTo, Expunge: PushSelect first.                  *)
RecordMessageAction(o) ==
    /\ actions' =
         (IF Pending
          THEN Append(actions, Item("Select", mPendingSelect[mCurrentID]))
          ELSE actions) \o <<Item(o.act, o.mbox)>>
    /\ DropPending
    /\ UNCHANGED <<mRecordID, mCurrent_mbox>>

Record(c) ==
    /\ holder = c
    /\ step[c] = "started"
    /\ step' = [step EXCEPT ![c] = "recorded"]
    /\ \/ op[c].act = "Select" /\ RecordSelect(op[c].mbox)
       \/ op[c].act = "Deselect" /\ RecordDeselect(c, op[c].mbox)
       \/ op[c].act \in MailboxActs /\ RecordMailboxAction(op[c])
       \/ op[c].act \in MessageActs \cup {"Append"} /\ RecordMessageAction(op[c])
    /\ UNCHANGED <<holder, op, mStartRecord, mNextID, mCurrentID, fileVars,
                   phase, mConns, refused>>

(* Push out all new items, flush, and release the mutex.                   *)
StopRecording(c) ==
    /\ holder = c
    /\ step[c] = "recorded"
    /\ CASE NewItems = << >> ->
              UNCHANGED fileVars
         [] NewItems # << >> /\ mStream.open ->
              /\ disk' = [Synced EXCEPT !.items = @ \o NewItems]
              /\ dirty' = FALSE
              /\ UNCHANGED mStream
         [] OTHER ->
              mStream' = [mStream EXCEPT !.fail = TRUE] /\ UNCHANGED <<disk, dirty>>
    /\ mCurrentID' = 0
    /\ holder' = NoClient
    /\ step' = [step EXCEPT ![c] = "idle"]
    /\ op' = [op EXCEPT ![c] = NoOp]
    /\ UNCHANGED <<mRecordID, mCurrent_mbox, actions, mStartRecord, mNextID,
                   mPendingSelect, phase, mConns, refused>>

-----------------------------------------------------------------------------
(* Playback.  The account is going online: mail checks are halted, windows *)
(* are closed and nothing is recorded.                                     *)
Quiet == holder = NoClient /\ \A c \in Clients : step[c] = "idle"

StartPlayback ==
    /\ phase = "offline"
    /\ Quiet
    /\ Open
    /\ phase' = "playing"
    /\ UNCHANGED <<holder, clientVars, mStartRecord, mCurrentID, mPendingSelect,
                   mConns, refused>>

(* Selecting opens the mailbox on the server, and the local mailbox when   *)
(* there is one, which uses up a session ID; or the server refuses, the    *)
(* Select is gone and its session has no connection.                       *)
PlaySelect(a) ==
    /\ a.act = "Select"
    /\ \/ /\ mConns' = [mConns EXCEPT ![a.id] = a.mbox]
          /\ BumpID \/ UNCHANGED <<mNextID, fileVars>>
          /\ UNCHANGED refused
       \/ /\ refused' = refused \cup {a.id}
          /\ UNCHANGED <<mNextID, fileVars, mConns>>

PlayDeselect(a) ==
    /\ a.act = "Deselect"
    /\ mConns' = [mConns EXCEPT ![a.id] = NoMbox]
    /\ UNCHANGED <<mNextID, fileVars, refused>>

(* A message action without a connection is fatal: see PlaybackFailed.     *)
PlayOther(a) ==
    /\ \/ a.act \in Elsewhere
       \/ a.act \in MessageActs /\ mConns[a.id] # NoMbox
    /\ UNCHANGED <<mNextID, fileVars, mConns, refused>>

(* The first item is done, or refused, and leaves the queue.               *)
PlaybackItem ==
    /\ phase = "playing"
    /\ actions # << >>
    /\ actions' = Tail(actions)
    /\ LET a == Head(actions) IN PlaySelect(a) \/ PlayDeselect(a) \/ PlayOther(a)
    /\ UNCHANGED <<holder, clientVars, mStartRecord, mCurrentID, mPendingSelect,
                   phase>>

(* The queue is empty: reset, close the file ...                           *)
PlaybackDone ==
    /\ phase = "playing"
    /\ actions = << >>
    /\ mNextID' = 1
    /\ disk' = Synced
    /\ dirty' = FALSE
    /\ mStream' = [mStream EXCEPT !.open = FALSE]
    /\ phase' = "clearing"
    /\ mConns' = Nobody
    /\ refused' = {}
    /\ UNCHANGED <<holder, clientVars, actions, mStartRecord, mCurrentID,
                   mPendingSelect>>

(* Faulty: pending selects outlive the playback that resets the counter.   *)
ClearJournalKeepsPending ==
    /\ phase = "clearing"
    /\ disk' = NoFile
    /\ phase' = "leaving"
    /\ UNCHANGED <<holder, clientVars, recorderVars, mStream, dirty, mConns, refused>>

(* ... and delete it.  The account then leaves the disconnected state.     *)
ClearJournal ==
    /\ phase = "clearing"
    /\ disk' = NoFile
    /\ mPendingSelect' = Nobody
    /\ phase' = "leaving"
    /\ UNCHANGED <<holder, clientVars, actions, mStartRecord, mNextID, mCurrentID,
                   mStream, dirty, mConns, refused>>

(* Faulty: the item that failed is erased although it was not done.        *)
PlaybackFailedDropsItem ==
    /\ phase = "playing"
    /\ actions # << >>
    /\ actions' = Tail(actions)
    /\ phase' = "recovering"
    /\ UNCHANGED <<holder, clientVars, mStartRecord, mNextID, mCurrentID,
                   mPendingSelect, fileVars, mConns, refused>>

(* A fatal error (logging on included), or a second failure of one item.   *)
PlaybackFailed ==
    /\ phase = "playing"
    /\ actions # << >>
    /\ phase' = "recovering"
    /\ UNCHANGED <<holder, clientVars, recorderVars, fileVars, mConns, refused>>

(* Faulty: the open connections are forgotten, not recovered.              *)
RecoverSelectForgets(i) ==
    /\ phase = "recovering"
    /\ mConns[i] # NoMbox
    /\ mConns' = [mConns EXCEPT ![i] = NoMbox]
    /\ UNCHANGED <<holder, clientVars, recorderVars, fileVars, phase, refused>>

(* One turn of Playback_RecoverSelects: a connection still open gets its   *)
(* Select back before its first remaining action.                          *)
RecoverSelect(i) ==
    /\ phase = "recovering"
    /\ mConns[i] # NoMbox
    /\ mConns' = [mConns EXCEPT ![i] = NoMbox]
    /\ LET mine == {k \in DOMAIN actions : actions[k].id = i}
           first(k) == k \in mine /\ \A j \in mine : k <= j
           sel == [act |-> "Select", id |-> i, mbox |-> mConns[i]]
       IN  \/ /\ \A k \in DOMAIN actions : first(k) => actions[k].act = "Select"
              /\ UNCHANGED actions
           \/ \E k \in DOMAIN actions :
                /\ first(k)
                /\ actions[k].act # "Select"
                /\ actions' = SubSeq(actions, 1, k - 1) \o <<sel>>
                                \o SubSeq(actions, k, Len(actions))
    /\ UNCHANGED <<holder, clientVars, mStartRecord, mNextID, mCurrentID,
                   mPendingSelect, fileVars, phase, refused>>

(* Close and delete the existing file ...                                  *)
RemoveJournal ==
    /\ phase = "recovering"
    /\ mConns = Nobody
    /\ disk' = NoFile
    /\ dirty' = FALSE
    /\ mStream' = [mStream EXCEPT !.open = FALSE]
    /\ phase' = "removed"
    /\ UNCHANGED <<holder, clientVars, recorderVars, mConns, refused>>

(* ... write a new one with what is left, and close that.  The account     *)
(* stays offline; its mailbox list is read again, so that no mailbox is    *)
(* selected any more.                                                      *)
RewriteJournal ==
    /\ phase = "removed"
    /\ disk' = [next |-> mNextID, items |-> actions]
    /\ mPendingSelect' = Nobody
    /\ mCurrent_mbox' = [c \in Clients |-> NoMbox]
    /\ phase' = "offline"
    /\ UNCHANGED <<holder, step, op, mRecordID, actions, mStartRecord, mNextID,
                   mCurrentID, mStream, dirty, mConns, refused>>

-----------------------------------------------------------------------------
(* The account.                                                            *)

(* The local clients are replaced by remote ones.  From "offline" this is  *)
(* a connection without playback: the option is off, the account is not    *)
(* logged on, or it only leaves a forced disconnect.                       *)
GoOnline ==
    /\ phase \in {"offline", "leaving"}
    /\ Quiet
    /\ mRecordID' = [c \in Clients |-> 0]
    /\ mCurrent_mbox' = [c \in Clients |-> NoMbox]
    /\ phase' = "online"
    /\ UNCHANGED <<holder, step, op, recorderVars, fileVars, mConns, refused>>

GoOffline ==
    /\ phase = "online"
    /\ Open
    /\ phase' = "offline"
    /\ UNCHANGED <<holder, clientVars, mStartRecord, mCurrentID, mPendingSelect,
                   mConns, refused>>

(* What the file may hold after a crash: the buffered header may be lost,  *)
(* a StopRecording may have written some of its items (always after the    *)
(* header), a rewrite may have written some of its own.                    *)
CrashedDisks ==
    {disk}
    \cup (IF mStream.open THEN {Synced} ELSE {})
    \cup (IF mStream.open /\ holder # NoClient /\ step[holder] = "recorded"
          THEN {[Synced EXCEPT !.items = @ \o SubSeq(NewItems, 1, n)] :
                  n \in 0..Len(NewItems)}
          ELSE {})
    \cup (IF phase = "removed"
          THEN {[next |-> mNextID, items |-> SubSeq(actions, 1, n)] :
                  n \in 0..Len(actions)}
          ELSE {})

(* The process dies and with it everything in memory.                      *)
Crash ==
    /\ phase # "down"
    /\ disk' \in CrashedDisks
    /\ holder' = NoClient
    /\ step' = [c \in Clients |-> "idle"]
    /\ op' = [c \in Clients |-> NoOp]
    /\ mRecordID' = [c \in Clients |-> 0]
    /\ mCurrent_mbox' = [c \in Clients |-> NoMbox]
    /\ actions' = << >>
    /\ mStartRecord' = 0
    /\ mNextID' = 1
    /\ mCurrentID' = 0
    /\ mPendingSelect' = Nobody
    /\ mStream' = [open |-> FALSE, fail |-> FALSE]
    /\ dirty' = FALSE
    /\ phase' = "down"
    /\ mConns' = Nobody
    /\ UNCHANGED refused

(* A new process: the recorder's constructor, and Open if it starts        *)
(* disconnected (online, the recorder is opened by the next GoOffline).    *)
Restart ==
    /\ phase = "down"
    /\ \/ phase' = "offline" /\ Open
       \/ phase' = "online" /\ UNCHANGED <<actions, mNextID, fileVars>>
    /\ UNCHANGED <<holder, clientVars, mStartRecord, mCurrentID, mPendingSelect,
                   mConns, refused>>

-----------------------------------------------------------------------------
ClientStep(c) ==
    \/ \E m \in Mailboxes : SelectMbox(c, m)
    \/ SelectTimedOut(c)
    \/ ForgetTimedOut(c)
    \/ Forceoff(c)
    \/ StartRecording(c)
    \/ Record(c)
    \/ StopRecording(c)

Playback ==
    \/ StartPlayback
    \/ PlaybackItem
    \/ PlaybackDone
    \/ ClearJournal
    \/ PlaybackFailed
    \/ \E i \in IDs : RecoverSelect(i)
    \/ RemoveJournal
    \/ RewriteJournal

Next ==
    \/ \E c \in Clients : ClientStep(c)
    \/ Playback
    \/ GoOnline
    \/ GoOffline
    \/ Crash
    \/ Restart

Spec == Init /\ [][Next]_vars

-----------------------------------------------------------------------------
(* Every variable has its type.                                            *)
TypeOK ==
    /\ holder \in Clients \cup {NoClient}
    /\ step \in [Clients -> {"idle", "selecting", "started", "recorded"}]
    /\ op \in [Clients -> Ops \cup {NoOp}]
    /\ mRecordID \in [Clients -> IDs]
    /\ mCurrent_mbox \in [Clients -> Mailboxes \cup {NoMbox}]
    /\ actions \in Seq(CMailAction)
    /\ mStartRecord \in Nat
    /\ mNextID \in 1..MaxID
    /\ mCurrentID \in IDs
    /\ mPendingSelect \in [IDs -> Mailboxes \cup {NoMbox}]
    /\ mStream \in [open : BOOLEAN, fail : BOOLEAN]
    /\ dirty \in BOOLEAN
    /\ disk \in [next : IDs, items : Seq(CMailAction)]
    /\ phase \in Phases
    /\ mConns \in [IDs -> Mailboxes \cup {NoMbox}]
    /\ refused \subseteq IDs

(* While the account works offline with its journal open and nobody is in  *)
(* the middle of recording, the file holds exactly the queue: what each    *)
(* StopRecording pushed out, once, in the order of the critical sections   *)
(* of all clients (CActionRecorder::StopRecording, "push out all new       *)
(* items").                                                                *)
JournalComplete ==
    phase = "offline" /\ holder = NoClient /\ mStream.open
        => disk.items = actions

(* Two connections never record under one session ID, and an ID in use was *)
(* issued by the counter as it now stands (CActionRecorder::GetNextID).    *)
FreshIDs ==
    phase = "offline" =>
        \A c, d \in Clients :
            /\ mRecordID[c] < mNextID
            /\ mRecordID[c] = mRecordID[d] /\ c # d => mRecordID[c] = 0

(* The header in the file is past every session ID among the items in the  *)
(* file, so that a crash cannot make the next process issue an ID that the *)
(* journal already uses (GetNextID's write at offset 0, synced by the seek *)
(* in StopRecording).                                                      *)
HeaderAhead ==
    \A k \in DOMAIN disk.items : disk.items[k].id < disk.next

InSession(q, k, conns) ==
    LET between(j) == {n \in j + 1 .. k - 1 : /\ q[n].id = q[k].id
                                             /\ q[n].act \in {"Select", "Deselect"}}
    IN  \/ /\ conns[q[k].id] = q[k].mbox
           /\ between(0) = {}
        \/ \E j \in 1..k - 1 : /\ q[j].act = "Select"
                               /\ q[j].id = q[k].id
                               /\ q[j].mbox = q[k].mbox
                               /\ between(j) = {}

(* Every change to messages in the queue follows, in its own session and   *)
(* with no Deselect between, the Select of the mailbox it was made in; in  *)
(* a playback under way that Select may already be an open connection, and *)
(* a server that refused it leaves the session's changes without one.      *)
(* PushSelect, Deselect, the clearing of the pending selects and           *)
(* Playback_RecoverSelects together guarantee it: a change played in       *)
(* another session would be applied to another mailbox.                    *)
SessionsWhole ==
    \A k \in DOMAIN actions :
        actions[k].act \in MessageActs /\ actions[k].id \notin refused
            => InSession(actions, k, mConns)

(* The same of the file, which a crash turns into the next queue.          *)
SessionsWholeOnDisk ==
    \A k \in DOMAIN disk.items :
        disk.items[k].act \in MessageActs /\ disk.items[k].id \notin refused
            => InSession(disk.items, k, Nobody)

(* What is in the file stays there, whatever the clients do, whether a     *)
(* playback starts, and across crashes, until a playback has run to its    *)
(* end or is writing the file anew.                                        *)
JournalSurvives ==
    [][phase \notin {"clearing", "recovering", "removed"} =>
         /\ Len(disk.items) <= Len(disk'.items)
         /\ disk.items = SubSeq(disk'.items, 1, Len(disk.items))]_vars

(* The journal is the durable log of DurableJournal: every step of the     *)
(* code is a step of that specification or leaves its variables alone.     *)
Mode == CASE phase \in {"playing", "clearing"}   -> "playing"
          [] phase \in {"recovering", "removed"} -> "replacing"
          [] OTHER                               -> "recording"

Journal == INSTANCE DurableJournal WITH
    Entries <- CMailAction,
    Selects <- {a \in CMailAction : a.act = "Select"},
    log     <- disk.items,
    todo    <- IF Mode = "recording" THEN << >> ELSE actions,
    mode    <- Mode

JournalSpec == Journal!Spec

(* StopRecording's comment without a condition: whatever was recorded      *)
(* while offline is in the file.  Not so after a playback that failed,     *)
(* because it closes the file and nothing opens it again.                  *)
RecordedIsJournaled ==
    phase = "offline" /\ holder = NoClient => disk.items = actions
=============================================================================
