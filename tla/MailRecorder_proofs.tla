------------------------ MODULE MailRecorder_proofs ------------------------
(***************************************************************************)
(* Theorems about the journal of a disconnected account, for any set of    *)
(* connections and mailboxes and any bounds: what is in the file, that the *)
(* recorder implements the durable log of DurableJournal, that no session  *)
(* ID is used twice, and that every change is recorded, kept and written   *)
(* in the session of the mailbox it was made in.                           *)
(***************************************************************************)
EXTENDS MailRecorder, SequenceTheorems, WellFoundedInduction, TLAPS

-----------------------------------------------------------------------------
(* The inductive invariant, by parts.                                      *)

(* A client between its steps has an operation in hand.                    *)
OpOK == \A c \in Clients : step[c] # "idle" => op[c] \in Ops

(* The owner of the mutex is the one client inside StActionRecorder's scope. *)
MutexOK ==
    \A c \in Clients : holder = c <=> step[c] \in {"started", "recorded"}

(* Clients act only while the account is offline or leaving that state.    *)
BusyOK ==
    \A c \in Clients : step[c] # "idle" => phase \in {"offline", "leaving"}

(* Phases in which the file has been closed.                               *)
ClosedOK ==
    phase \in {"clearing", "removed", "leaving", "down"} => ~ mStream.open

(* mStartRecord marks where the operation under way began.                 *)
StartOK ==
    holder # NoClient =>
        /\ mStartRecord <= Len(actions)
        /\ step[holder] = "started" => mStartRecord = Len(actions)

(* The file is the queue, less what the owner of the mutex has pushed.     *)
Journaled ==
    mStream.open /\ phase \in {"offline", "online"} =>
        disk.items = IF holder = NoClient THEN actions
                     ELSE SubSeq(actions, 1, mStartRecord)

IInv == /\ TypeOK /\ OpOK /\ MutexOK /\ BusyOK /\ ClosedOK /\ StartOK
        /\ Journaled

-----------------------------------------------------------------------------
(* Sequences.                                                              *)

(* What follows the first n elements does not change them.                 *)
LEMMA PrefixOfConcat ==
    ASSUME NEW S, NEW s \in Seq(S), NEW t \in Seq(S), NEW n \in 0..Len(s)
    PROVE  SubSeq(s \o t, 1, n) = SubSeq(s, 1, n)
<1>1. CASE n = 0
    BY <1>1, SubSeqEmpty
<1>2. CASE n # 0
    BY <1>2, SubSeqOfConcat1, LenProperties
<1> QED BY <1>1, <1>2

(* A sequence is a prefix followed by the rest.                            *)
LEMMA PrefixAndRest ==
    ASSUME NEW S, NEW s \in Seq(S), NEW n \in 0..Len(s)
    PROVE  SubSeq(s, 1, n) \o SubSeq(s, n + 1, Len(s)) = s
<1>1. 1 \in 1 .. Len(s) + 1 /\ n \in 1 - 1 .. Len(s) /\ Len(s) \in n .. Len(s)
    BY LenProperties
<1>2. SubSeq(s, 1, n) \o SubSeq(s, n + 1, Len(s)) = SubSeq(s, 1, Len(s))
    BY <1>1, ConcatAdjacentSubSeq
<1> QED BY <1>2, SubSeqFull

(* Any stretch of a sequence has the sequence's element type.              *)
LEMMA StretchType ==
    ASSUME NEW S, NEW s \in Seq(S), NEW m \in Nat \ {0}, NEW n \in 0..Len(s)
    PROVE  SubSeq(s, m, n) \in Seq(S)
<1>1. \A i \in m..n : s[i] \in S
    BY ElementOfSeq, LenProperties
<1> QED BY <1>1, SubSeqProperties, LenProperties

-----------------------------------------------------------------------------
(* Types.                                                                  *)

LEMMA SyncedType ==
    ASSUME TypeOK
    PROVE  Synced \in [next : IDs, items : Seq(CMailAction)]
<1>1. mNextID \in IDs
    BY ConstantsAssumption DEF TypeOK, IDs
<1> QED BY <1>1 DEF TypeOK, Synced

(* BumpID keeps the types of what it changes, and neither opens nor closes *)
(* the file nor touches its items.                                         *)
LEMMA BumpIDType ==
    ASSUME TypeOK, BumpID
    PROVE  /\ mNextID' \in 1..MaxID
           /\ mStream' \in [open : BOOLEAN, fail : BOOLEAN]
           /\ dirty' \in BOOLEAN
           /\ disk' \in [next : IDs, items : Seq(CMailAction)]
           /\ mStream'.open = mStream.open
           /\ disk'.items = disk.items
<1>1. mNextID' \in 1..MaxID
    BY ConstantsAssumption DEF TypeOK, BumpID
<1>2. CASE mStream.open
    <2>1. Synced.items = disk.items
        BY DEF Synced, TypeOK
    <2> QED BY <1>1, <1>2, <2>1, SyncedType DEF BumpID, TypeOK
<1>3. CASE ~ mStream.open
    BY <1>1, <1>3 DEF BumpID, TypeOK
<1> QED BY <1>2, <1>3

(* After Open the file is open; if it was closed, the queue is the file's. *)
LEMMA OpenType ==
    ASSUME TypeOK, Open
    PROVE  /\ actions' \in Seq(CMailAction)
           /\ mNextID' \in 1..MaxID
           /\ mStream' \in [open : BOOLEAN, fail : BOOLEAN]
           /\ dirty' \in BOOLEAN
           /\ disk' \in [next : IDs, items : Seq(CMailAction)]
           /\ disk'.items = disk.items
           /\ mStream.open => actions' = actions
           /\ ~ mStream.open => actions' = disk'.items
<1>1. CASE mStream.open
    BY <1>1 DEF Open, TypeOK, fileVars
<1>2. CASE ~ mStream.open
    <2> DEFINE next == IF mStream.fail \/ disk.next = 0 THEN mNextID ELSE disk.next
    <2>1. next \in 1..MaxID
        BY ConstantsAssumption DEF TypeOK, IDs
    <2>2. next \in IDs
        BY <2>1 DEF IDs
    <2>3. /\ mNextID' = next
          /\ disk' = [disk EXCEPT !.next = next]
          /\ actions' = disk.items
          /\ mStream' = [open |-> TRUE, fail |-> FALSE]
          /\ dirty' = FALSE
        BY <1>2 DEF Open
    <2> HIDE DEF next
    <2>4. /\ disk' \in [next : IDs, items : Seq(CMailAction)]
          /\ disk'.items = disk.items
        BY <2>2, <2>3 DEF TypeOK
    <2> QED BY <1>2, <2>1, <2>3, <2>4 DEF TypeOK
<1> QED BY <1>1, <1>2

(* What is pushed is an action.                                            *)
LEMMA ItemType ==
    ASSUME TypeOK
    PROVE  /\ \A o \in Ops : Item(o.act, o.mbox) \in CMailAction
           /\ \A m \in Mailboxes : Item("Select", m) \in CMailAction
<1>1. ASSUME NEW o \in Ops
      PROVE  Item(o.act, o.mbox) \in CMailAction
    <2>1. \/ o.act \in OnMailbox /\ o.mbox \in Mailboxes
          \/ o.act \in Elsewhere /\ o.mbox \in {NoMbox}
        BY DEF Ops
    <2> QED BY <2>1 DEF TypeOK, Item, CMailAction
<1>2. \A m \in Mailboxes : Item("Select", m) \in CMailAction
    BY DEF TypeOK, Item, CMailAction, OnMailbox
<1> QED BY <1>1, <1>2

(* The new items are a stretch of the queue.                               *)
LEMMA NewItemsType ==
    ASSUME TypeOK, mStartRecord <= Len(actions)
    PROVE  /\ NewItems \in Seq(CMailAction)
           /\ \A n \in 0..Len(NewItems) : SubSeq(NewItems, 1, n) \in Seq(CMailAction)
<1>1. NewItems \in Seq(CMailAction)
    BY StretchType, LenProperties DEF TypeOK, NewItems
<1> QED BY <1>1, StretchType

(* The process forgets everything; the file keeps its type.                *)
LEMMA CrashedDisksType ==
    ASSUME TypeOK, StartOK
    PROVE  \A d \in CrashedDisks : d \in [next : IDs, items : Seq(CMailAction)]
<1> SUFFICES ASSUME NEW d \in CrashedDisks
             PROVE  d \in [next : IDs, items : Seq(CMailAction)]
    OBVIOUS
<1>1. CASE d \in {disk, Synced}
    BY <1>1, SyncedType DEF TypeOK
<1>2. CASE /\ holder # NoClient
           /\ \E n \in 0..Len(NewItems) :
                 d = [Synced EXCEPT !.items = @ \o SubSeq(NewItems, 1, n)]
    <2>1. PICK n \in 0..Len(NewItems) :
                 d = [Synced EXCEPT !.items = @ \o SubSeq(NewItems, 1, n)]
        BY <1>2
    <2>2. SubSeq(NewItems, 1, n) \in Seq(CMailAction)
        BY <1>2, NewItemsType DEF StartOK
    <2>3. Synced.items \o SubSeq(NewItems, 1, n) \in Seq(CMailAction)
        BY <2>2, SyncedType, ConcatProperties
    <2> QED BY <2>1, <2>3, SyncedType
<1>3. CASE \E n \in 0..Len(actions) :
                 d = [next |-> mNextID, items |-> SubSeq(actions, 1, n)]
    <2>1. mNextID \in IDs
        BY ConstantsAssumption DEF TypeOK, IDs
    <2> QED BY <1>3, <2>1, StretchType DEF TypeOK
<1> QED BY <1>1, <1>2, <1>3 DEF CrashedDisks

-----------------------------------------------------------------------------
(* Recording: each of the methods of CMailRecord keeps the types, and adds *)
(* to the queue at its end only.                                           *)
LEMMA RecordType ==
    ASSUME TypeOK, OpOK, NEW c \in Clients, Record(c)
    PROVE  /\ actions' \in Seq(CMailAction)
           /\ mPendingSelect' \in [IDs -> Mailboxes \cup {NoMbox}]
           /\ mRecordID' \in [Clients -> IDs]
           /\ mCurrent_mbox' \in [Clients -> Mailboxes \cup {NoMbox}]
           /\ \E new \in Seq(CMailAction) : actions' = actions \o new
<1> DEFINE m == op[c].mbox
<1>1. op[c] \in Ops
    BY DEF Record, OpOK
<1>2. m \in Mailboxes \cup {NoMbox}
    BY <1>1 DEF Ops
<1>3. 0 \in IDs /\ mCurrentID \in IDs /\ actions \in Seq(CMailAction)
    BY ConstantsAssumption DEF IDs, TypeOK
<1>4. Item(op[c].act, m) \in CMailAction
    BY <1>1, ItemType
<1>5. DropPending => mPendingSelect' \in [IDs -> Mailboxes \cup {NoMbox}]
    BY DEF DropPending, TypeOK
<1>6. \A e \in CMailAction : <<e>> \in Seq(CMailAction)
    OBVIOUS
<1>7. actions = actions \o << >> /\ << >> \in Seq(CMailAction)
    BY <1>3, ConcatEmptySeq
<1>8. CASE op[c].act = "Select" /\ RecordSelect(m)
    <2>1. mPendingSelect' \in [IDs -> Mailboxes \cup {NoMbox}]
        BY <1>2, <1>3, <1>8 DEF RecordSelect, TypeOK
    <2> QED BY <2>1, <1>3, <1>7, <1>8 DEF RecordSelect, TypeOK
<1>9. CASE op[c].act = "Deselect" /\ RecordDeselect(c, m)
    <2>1. Item("Deselect", m) \in CMailAction
        BY <1>4, <1>9
    <2>2. Append(actions, Item("Deselect", m)) = actions \o <<Item("Deselect", m)>>
        BY <2>1, <1>3, AppendIsConcat
    <2>3. /\ mRecordID' \in [Clients -> IDs]
          /\ mCurrent_mbox' \in [Clients -> Mailboxes \cup {NoMbox}]
        BY <1>3, <1>9 DEF RecordDeselect, TypeOK
    <2>4. \/ actions' = actions
          \/ actions' = actions \o <<Item("Deselect", m)>>
        BY <1>9, <2>2 DEF RecordDeselect
    <2>5. \E new \in Seq(CMailAction) : actions' = actions \o new
        BY <2>1, <2>4, <1>6, <1>7
    <2>6. actions' \in Seq(CMailAction)
        BY <2>5, <1>3, ConcatProperties
    <2>7. mPendingSelect' \in [IDs -> Mailboxes \cup {NoMbox}]
        BY <1>5, <1>9 DEF RecordDeselect
    <2> QED BY <2>3, <2>5, <2>6, <2>7
<1>10. CASE op[c].act \in MailboxActs /\ RecordMailboxAction(op[c])
    <2>1. actions' = actions \o <<Item(op[c].act, m)>>
        BY <1>3, <1>4, <1>10, AppendIsConcat DEF RecordMailboxAction
    <2>2. actions' \in Seq(CMailAction)
        BY <2>1, <1>3, <1>4, <1>6, ConcatProperties
    <2> QED BY <2>1, <2>2, <1>4, <1>6, <1>10 DEF RecordMailboxAction, TypeOK
<1>11. CASE op[c].act \in MessageActs \cup {"Append"} /\ RecordMessageAction(op[c])
    <2> DEFINE last == <<Item(op[c].act, m)>>
               sel  == Item("Select", mPendingSelect[mCurrentID])
    <2>1. last \in Seq(CMailAction)
        BY <1>4
    <2>2. CASE Pending
        <3>1. mPendingSelect[mCurrentID] \in Mailboxes
            BY <1>3, <2>2 DEF Pending, TypeOK
        <3>2. sel \in CMailAction
            BY <3>1, ItemType
        <3>3. actions' = (actions \o <<sel>>) \o last
            BY <1>3, <1>11, <2>2, <3>2, AppendIsConcat DEF RecordMessageAction
        <3>4. <<sel>> \in Seq(CMailAction) /\ <<sel>> \o last \in Seq(CMailAction)
            BY <2>1, <3>2, <1>6, ConcatProperties
        <3>5. actions' = actions \o (<<sel>> \o last)
            BY <1>3, <2>1, <3>3, <3>4, ConcatAssociative
        <3>6. \E new \in Seq(CMailAction) : actions' = actions \o new
            BY <3>4, <3>5
        <3> QED BY <3>6, <1>3, <1>5, <1>11, ConcatProperties
                DEF RecordMessageAction, TypeOK
    <2>3. CASE ~ Pending
        <3>1. actions' = actions \o last
            BY <1>11, <2>3 DEF RecordMessageAction
        <3>2. \E new \in Seq(CMailAction) : actions' = actions \o new
            BY <2>1, <3>1
        <3> QED BY <3>2, <1>3, <1>5, <1>11, ConcatProperties
                DEF RecordMessageAction, TypeOK
    <2> QED BY <2>2, <2>3
<1> QED BY <1>8, <1>9, <1>10, <1>11 DEF Record

(* Every step keeps the types.                                             *)
LEMMA TypeStep ==
    ASSUME IInv, [Next]_vars
    PROVE  TypeOK'
<1> USE DEF IInv
<1>0. 0 \in IDs /\ mNextID \in IDs /\ 1 \in 1..MaxID /\ << >> \in Seq(CMailAction)
    BY ConstantsAssumption DEF IDs, TypeOK
<1>1. ASSUME NEW c \in Clients, NEW m \in Mailboxes, SelectMbox(c, m)
      PROVE  TypeOK'
    <2>1. BumpID
        BY <1>1 DEF SelectMbox
    <2>2. [act |-> "Select", mbox |-> m] \in Ops
        BY DEF Ops, OnMailbox
    <2> QED BY <1>0, <1>1, <2>1, <2>2, BumpIDType DEF SelectMbox, TypeOK
<1>2. ASSUME NEW c \in Clients, SelectTimedOut(c)
      PROVE  TypeOK'
    BY <1>2 DEF SelectTimedOut, TypeOK, recorderVars, fileVars
<1>3. ASSUME NEW c \in Clients, ForgetTimedOut(c)
      PROVE  TypeOK'
    BY <1>3 DEF ForgetTimedOut, TypeOK, recorderVars, fileVars
<1>4. ASSUME NEW c \in Clients, Forceoff(c)
      PROVE  TypeOK'
    BY <1>0, <1>4 DEF Forceoff, TypeOK, recorderVars, fileVars
<1>5. ASSUME NEW c \in Clients, StartRecording(c)
      PROVE  TypeOK'
    <2>1. PICK o \in Ops : Lock(c, o)
        BY <1>5 DEF StartRecording, Recordable, OpOK
    <2>2. Len(actions) \in Nat
        BY LenProperties DEF TypeOK
    <2> QED BY <2>1, <2>2 DEF Lock, TypeOK, fileVars
<1>6. ASSUME NEW c \in Clients, Record(c)
      PROVE  TypeOK'
    BY <1>6, RecordType DEF Record, TypeOK, fileVars
<1>7. ASSUME NEW c \in Clients, StopRecording(c)
      PROVE  TypeOK'
    <2>1. NewItems \in Seq(CMailAction)
        BY <1>7, ConstantsAssumption, NewItemsType DEF StopRecording, StartOK
    <2>2. Synced.items \o NewItems \in Seq(CMailAction)
        BY <2>1, SyncedType, ConcatProperties
    <2>3. [Synced EXCEPT !.items = @ \o NewItems]
            \in [next : IDs, items : Seq(CMailAction)]
        BY <2>2, SyncedType
    <2>4. /\ disk' \in [next : IDs, items : Seq(CMailAction)]
          /\ dirty' \in BOOLEAN
          /\ mStream' \in [open : BOOLEAN, fail : BOOLEAN]
        <3>1. /\ disk \in [next : IDs, items : Seq(CMailAction)]
              /\ dirty \in BOOLEAN
              /\ mStream \in [open : BOOLEAN, fail : BOOLEAN]
            BY DEF TypeOK
        <3>2. [mStream EXCEPT !.fail = TRUE] \in [open : BOOLEAN, fail : BOOLEAN]
            BY <3>1
        <3> HIDE DEF IInv
        <3> QED BY <1>7, <2>3, <3>1, <3>2 DEF StopRecording, fileVars
    <2> QED BY <1>0, <1>7, <2>4 DEF StopRecording, TypeOK
<1>8. CASE StartPlayback
    BY <1>8, OpenType DEF StartPlayback, TypeOK, clientVars, Phases
<1>9. CASE PlaybackItem
    <2> DEFINE a == Head(actions)
    <2>1. a \in CMailAction /\ Tail(actions) \in Seq(CMailAction)
        BY <1>9, HeadTailProperties DEF PlaybackItem, TypeOK
    <2>2. CASE PlaySelect(a)
        <3>1. a.id \in IDs /\ a.mbox \in Mailboxes \cup {NoMbox}
            BY <2>1 DEF CMailAction
        <3>2. /\ mConns' \in [IDs -> Mailboxes \cup {NoMbox}]
              /\ refused' \subseteq IDs
            BY <2>2, <3>1 DEF PlaySelect, TypeOK
        <3>3. /\ mNextID' \in 1..MaxID
              /\ mStream' \in [open : BOOLEAN, fail : BOOLEAN]
              /\ dirty' \in BOOLEAN
              /\ disk' \in [next : IDs, items : Seq(CMailAction)]
            BY <2>2, BumpIDType DEF PlaySelect, TypeOK, fileVars
        <3> QED BY <1>9, <2>1, <3>2, <3>3 DEF PlaybackItem, TypeOK, clientVars
    <2>3. CASE PlayDeselect(a)
        <3>1. mConns' \in [IDs -> Mailboxes \cup {NoMbox}]
            BY <2>1, <2>3 DEF PlayDeselect, TypeOK, CMailAction
        <3> QED BY <1>9, <2>1, <2>3, <3>1
                DEF PlaybackItem, PlayDeselect, TypeOK, clientVars, fileVars
    <2>4. CASE PlayOther(a)
        BY <1>9, <2>1, <2>4 DEF PlaybackItem, PlayOther, TypeOK, clientVars, fileVars
    <2> QED BY <1>9, <2>2, <2>3, <2>4 DEF PlaybackItem
<1>10. CASE PlaybackDone
    BY <1>0, <1>10, SyncedType
       DEF PlaybackDone, TypeOK, clientVars, Nobody, Phases
<1>11. CASE ClearJournal
    BY <1>0, <1>11 DEF ClearJournal, TypeOK, clientVars, NoFile, Nobody, Phases
<1>12. CASE PlaybackFailed
    BY <1>12 DEF PlaybackFailed, TypeOK, clientVars, recorderVars, fileVars, Phases
<1>13. ASSUME NEW i \in IDs, RecoverSelect(i)
       PROVE  TypeOK'
    <2> DEFINE sel == [act |-> "Select", id |-> i, mbox |-> mConns[i]]
    <2>1. sel \in CMailAction
        BY <1>13 DEF RecoverSelect, TypeOK, CMailAction, OnMailbox
    <2>2. <<sel>> \in Seq(CMailAction)
        BY <2>1
    <2>3. \A k \in DOMAIN actions :
             SubSeq(actions, 1, k - 1) \o <<sel>> \o SubSeq(actions, k, Len(actions))
               \in Seq(CMailAction)
        <3> TAKE k \in DOMAIN actions
        <3>1. k \in 1..Len(actions) /\ k - 1 \in 0..Len(actions) /\ Len(actions) \in 0..Len(actions)
            BY LenProperties DEF TypeOK
        <3>2. SubSeq(actions, 1, k - 1) \in Seq(CMailAction)
            BY <3>1, StretchType DEF TypeOK
        <3>3. SubSeq(actions, k, Len(actions)) \in Seq(CMailAction)
            BY <3>1, StretchType DEF TypeOK
        <3> QED BY <2>2, <3>2, <3>3, ConcatProperties
    <2>4. \/ actions' = actions
          \/ \E k \in DOMAIN actions :
               actions' = SubSeq(actions, 1, k - 1) \o <<sel>>
                            \o SubSeq(actions, k, Len(actions))
        BY <1>13 DEF RecoverSelect
    <2>5. actions' \in Seq(CMailAction)
        <3>1. actions \in Seq(CMailAction)
            BY DEF TypeOK
        <3> HIDE DEF sel, IInv
        <3> QED BY <2>3, <2>4, <3>1
    <2> QED BY <1>13, <2>5 DEF RecoverSelect, TypeOK, clientVars, fileVars
<1>14. CASE RemoveJournal
    BY <1>0, <1>14 DEF RemoveJournal, TypeOK, clientVars, recorderVars, NoFile, Phases
<1>15. CASE RewriteJournal
    BY <1>0, <1>15 DEF RewriteJournal, TypeOK, Nobody, Phases
<1>16. CASE GoOnline
    BY <1>0, <1>16 DEF GoOnline, TypeOK, recorderVars, fileVars, Phases
<1>17. CASE GoOffline
    BY <1>17, OpenType DEF GoOffline, TypeOK, clientVars, Phases
<1>18. CASE Crash
    <2>1. disk' \in [next : IDs, items : Seq(CMailAction)]
        BY <1>18, CrashedDisksType DEF Crash
    <2> QED BY <1>0, <1>18, <2>1 DEF Crash, TypeOK, Nobody, Phases
<1>19. CASE Restart
    BY <1>19, OpenType DEF Restart, TypeOK, clientVars, fileVars, Phases
<1>20. CASE UNCHANGED vars
    BY <1>20 DEF vars, clientVars, recorderVars, fileVars, TypeOK
<1> QED
    BY <1>1, <1>2, <1>3, <1>4, <1>5, <1>6, <1>7, <1>8, <1>9, <1>10, <1>11, <1>12,
       <1>13, <1>14, <1>15, <1>16, <1>17, <1>18, <1>19, <1>20
    DEF Next, ClientStep, Playback

(* Every step keeps the control parts: one client at a time is inside the  *)
(* recorder, only while the account is offline or leaving that state, and  *)
(* the file is closed in the phases that have closed it.                   *)
LEMMA ControlStep ==
    ASSUME IInv, [Next]_vars
    PROVE  OpOK' /\ MutexOK' /\ BusyOK' /\ ClosedOK'
<1> USE ConstantsAssumption DEF IInv, OpOK, MutexOK, BusyOK, ClosedOK
<1>1. ASSUME NEW c \in Clients, NEW m \in Mailboxes, SelectMbox(c, m)
      PROVE  OpOK' /\ MutexOK' /\ BusyOK' /\ ClosedOK'
    <2>1. [act |-> "Select", mbox |-> m] \in Ops
        BY DEF Ops, OnMailbox
    <2> QED BY <1>1, <2>1 DEF SelectMbox, TypeOK
<1>2. ASSUME NEW c \in Clients, SelectTimedOut(c)
      PROVE  OpOK' /\ MutexOK' /\ BusyOK' /\ ClosedOK'
    BY <1>2 DEF SelectTimedOut, TypeOK, recorderVars, fileVars
<1>3. ASSUME NEW c \in Clients, ForgetTimedOut(c)
      PROVE  OpOK' /\ MutexOK' /\ BusyOK' /\ ClosedOK'
    BY <1>3 DEF ForgetTimedOut, TypeOK, recorderVars, fileVars
<1>4. ASSUME NEW c \in Clients, Forceoff(c)
      PROVE  OpOK' /\ MutexOK' /\ BusyOK' /\ ClosedOK'
    BY <1>4 DEF Forceoff, TypeOK, recorderVars, fileVars
<1>5. ASSUME NEW c \in Clients, StartRecording(c)
      PROVE  OpOK' /\ MutexOK' /\ BusyOK' /\ ClosedOK'
    <2>1. PICK o \in Ops : Lock(c, o)
        BY <1>5 DEF StartRecording, Recordable
    <2> QED BY <1>5, <2>1 DEF StartRecording, Lock, TypeOK, fileVars
<1>6. ASSUME NEW c \in Clients, Record(c)
      PROVE  OpOK' /\ MutexOK' /\ BusyOK' /\ ClosedOK'
    BY <1>6 DEF Record, TypeOK, fileVars
<1>7. ASSUME NEW c \in Clients, StopRecording(c)
      PROVE  OpOK' /\ MutexOK' /\ BusyOK' /\ ClosedOK'
    <2>1. mStream'.open = mStream.open
        BY <1>7 DEF StopRecording, TypeOK, fileVars
    <2> QED BY <1>7, <2>1 DEF StopRecording, TypeOK
<1>8. CASE Playback
    <2>1. PlaybackItem => mStream'.open = mStream.open
        BY BumpIDType DEF PlaybackItem, PlaySelect, PlayDeselect, PlayOther, fileVars
    <2> QED BY <1>8, <2>1
            DEF Playback, StartPlayback, PlaybackItem, PlaybackDone, ClearJournal,
                PlaybackFailed, RecoverSelect, RemoveJournal, RewriteJournal, Quiet,
                TypeOK, clientVars, recorderVars, fileVars
<1>9. CASE GoOnline
    BY <1>9 DEF GoOnline, Quiet, TypeOK, recorderVars, fileVars
<1>10. CASE GoOffline
    BY <1>10 DEF GoOffline, TypeOK, clientVars
<1>11. CASE Crash
    BY <1>11 DEF Crash, TypeOK
<1>12. CASE Restart
    BY <1>12 DEF Restart, TypeOK, clientVars, fileVars
<1>13. CASE UNCHANGED vars
    BY <1>13 DEF vars, clientVars, recorderVars, fileVars, TypeOK
<1> QED
    BY <1>1, <1>2, <1>3, <1>4, <1>5, <1>6, <1>7, <1>8, <1>9, <1>10, <1>11, <1>12,
       <1>13
    DEF Next, ClientStep

(* Every step keeps the mark and what it says of the file: the file is the *)
(* queue, less the items the owner of the mutex has not pushed out yet.    *)
LEMMA JournalStep ==
    ASSUME IInv, [Next]_vars
    PROVE  StartOK' /\ Journaled'
<1> USE ConstantsAssumption DEF IInv
<1>0. Len(actions) \in Nat /\ SubSeq(actions, 1, Len(actions)) = actions
    BY LenProperties, SubSeqFull DEF TypeOK
<1>1. ASSUME NEW c \in Clients, NEW m \in Mailboxes, SelectMbox(c, m)
      PROVE  StartOK' /\ Journaled'
    BY <1>1, BumpIDType DEF SelectMbox, StartOK, Journaled
<1>2. ASSUME NEW c \in Clients, SelectTimedOut(c)
      PROVE  StartOK' /\ Journaled'
    BY <1>2 DEF SelectTimedOut, StartOK, Journaled, MutexOK, TypeOK,
                recorderVars, fileVars
<1>3. ASSUME NEW c \in Clients, ForgetTimedOut(c) \/ Forceoff(c)
      PROVE  StartOK' /\ Journaled'
    BY <1>3 DEF ForgetTimedOut, Forceoff, StartOK, Journaled, recorderVars, fileVars
<1>4. ASSUME NEW c \in Clients, StartRecording(c)
      PROVE  StartOK' /\ Journaled'
    <2>1. PICK o \in Ops : Lock(c, o)
        BY <1>4 DEF StartRecording, Recordable, OpOK
    <2> QED BY <1>0, <2>1 DEF Lock, StartOK, Journaled, TypeOK, fileVars
<1>5. ASSUME NEW c \in Clients, Record(c)
      PROVE  StartOK' /\ Journaled'
    <2>1. PICK new \in Seq(CMailAction) : actions' = actions \o new
        BY <1>5, RecordType
    <2>2. Len(new) \in Nat /\ Len(actions') = Len(actions) + Len(new)
        BY <2>1, LenProperties, ConcatProperties DEF TypeOK
    <2>3. holder = c /\ holder' = c /\ step'[c] = "recorded" /\ mStartRecord' = mStartRecord
        BY <1>5 DEF Record, TypeOK
    <2>4. mStartRecord \in 0..Len(actions)
        <3>1. holder # NoClient
            BY <2>3
        <3>2. mStartRecord \in Nat /\ mStartRecord <= Len(actions)
            BY <3>1 DEF StartOK, TypeOK
        <3> QED BY <1>0, <3>2
    <2>5. SubSeq(actions', 1, mStartRecord) = SubSeq(actions, 1, mStartRecord)
        BY <2>1, <2>4, PrefixOfConcat DEF TypeOK
    <2>6. UNCHANGED <<phase, mStream, disk>>
        BY <1>5 DEF Record, fileVars
    <2>7. StartOK'
        <3>1. mStartRecord' <= Len(actions')
            BY <1>0, <2>2, <2>3, <2>4
        <3>2. step'[holder'] # "started"
            BY <2>3
        <3> QED BY <3>1, <3>2 DEF StartOK
    <2> QED BY <2>3, <2>5, <2>6, <2>7 DEF Journaled
<1>6. ASSUME NEW c \in Clients, StopRecording(c)
      PROVE  StartOK' /\ Journaled'
    <2>1. StartOK'
        BY <1>6 DEF StopRecording, StartOK
    <2>2. SUFFICES ASSUME mStream'.open, phase' \in {"offline", "online"}
                   PROVE  disk'.items = actions'
        BY <1>6, <2>1 DEF StopRecording, Journaled
    <2>3. mStream.open /\ phase' = phase /\ actions' = actions
        BY <1>6, <2>2 DEF StopRecording, TypeOK, fileVars
    <2>4. holder # NoClient /\ mStartRecord \in 0..Len(actions)
        BY <1>0, <1>6 DEF StopRecording, StartOK, TypeOK
    <2>5. disk.items = SubSeq(actions, 1, mStartRecord)
        BY <2>2, <2>3, <2>4 DEF Journaled
    <2>6. disk.items \o NewItems = actions
        BY <2>4, <2>5, PrefixAndRest DEF NewItems, TypeOK
    <2>7. CASE NewItems = << >>
        <3>1. disk.items \o << >> = disk.items
            BY ConcatEmptySeq DEF TypeOK
        <3> QED BY <1>6, <2>3, <2>6, <2>7, <3>1 DEF StopRecording, fileVars
    <2>8. CASE NewItems # << >>
        <3>1. disk' = [Synced EXCEPT !.items = @ \o NewItems]
            BY <1>6, <2>3, <2>8 DEF StopRecording
        <3>2. Synced.items = disk.items
            BY DEF Synced, TypeOK
        <3> QED BY <2>3, <2>6, <3>1, <3>2, SyncedType
    <2> QED BY <2>7, <2>8
<1>7. CASE Playback
    <2>1. holder' = NoClient
        BY <1>7 DEF Playback, StartPlayback, PlaybackItem, PlaybackDone, ClearJournal,
                    PlaybackFailed, RecoverSelect, RemoveJournal, RewriteJournal,
                    Quiet, BusyOK, MutexOK, TypeOK
    <2>2. CASE RewriteJournal
        BY <2>1, <2>2 DEF RewriteJournal, ClosedOK, StartOK, Journaled
    <2>3. CASE ~ RewriteJournal
        <3>1. phase' \notin {"offline", "online"}
            BY <1>7, <2>3 DEF Playback, StartPlayback, PlaybackItem, PlaybackDone,
               ClearJournal, PlaybackFailed, RecoverSelect, RemoveJournal
        <3> QED BY <2>1, <3>1 DEF StartOK, Journaled
    <2> QED BY <2>2, <2>3
<1>8. CASE GoOnline
    BY <1>8 DEF GoOnline, Quiet, ClosedOK, StartOK, Journaled, recorderVars, fileVars
<1>9. CASE GoOffline
    <2>1. holder = NoClient
        BY <1>9 DEF GoOffline, BusyOK, MutexOK, TypeOK
    <2> QED BY <1>9, <2>1, OpenType DEF GoOffline, StartOK, Journaled
<1>10. CASE Crash
    BY <1>10 DEF Crash, StartOK, Journaled
<1>11. CASE Restart
    <2>1. holder = NoClient /\ ~ mStream.open
        BY <1>11 DEF Restart, BusyOK, MutexOK, ClosedOK, TypeOK
    <2> QED BY <1>11, <2>1, OpenType DEF Restart, StartOK, Journaled, fileVars
<1>12. CASE UNCHANGED vars
    BY <1>12 DEF vars, clientVars, recorderVars, fileVars, StartOK, Journaled
<1> QED
    BY <1>1, <1>2, <1>3, <1>4, <1>5, <1>6, <1>7, <1>8, <1>9, <1>10, <1>11, <1>12
    DEF Next, ClientStep

-----------------------------------------------------------------------------
(* The theorems.                                                           *)

LEMMA InitIInv == Init => IInv
<1> SUFFICES ASSUME Init PROVE IInv
    OBVIOUS
<1>1. 0 \in IDs /\ 1 \in IDs /\ 1 \in 1..MaxID
    BY ConstantsAssumption DEF IDs
<1>2. TypeOK
    <2>1. << >> \in Seq(CMailAction)
        OBVIOUS
    <2>2. disk \in [next : IDs, items : Seq(CMailAction)]
        BY <1>1, <2>1 DEF Init
    <2>3. Nobody \in [IDs -> Mailboxes \cup {NoMbox}]
        BY DEF Nobody
    <2> QED BY <1>1, <2>1, <2>2, <2>3 DEF Init, TypeOK, Phases
<1>3. OpOK /\ MutexOK /\ BusyOK /\ ClosedOK /\ StartOK /\ Journaled
    BY ConstantsAssumption
       DEF Init, OpOK, MutexOK, BusyOK, ClosedOK, StartOK, Journaled
<1> QED BY <1>2, <1>3 DEF IInv

(* The inductive invariant holds throughout.                               *)
THEOREM Invariance == Spec => []IInv
<1>1. Init => IInv
    BY InitIInv
<1>2. IInv /\ [Next]_vars => IInv'
    BY TypeStep, ControlStep, JournalStep DEF IInv
<1> QED BY <1>1, <1>2, PTL DEF Spec

(* Every variable keeps its type, for any number of connections, mailboxes *)
(* and journal entries.                                                    *)
THEOREM TypeCorrect == Spec => []TypeOK
<1>1. IInv => TypeOK
    BY DEF IInv
<1> QED BY <1>1, Invariance, PTL

(* Offline, with the journal open and nobody recording, the file holds     *)
(* exactly the queue (CActionRecorder::StopRecording).                     *)
THEOREM JournalIsComplete == Spec => []JournalComplete
<1>1. IInv => JournalComplete
    BY DEF IInv, Journaled, JournalComplete
<1> QED BY <1>1, Invariance, PTL

-----------------------------------------------------------------------------
(* What the mapping needs besides the invariant of the recorder: what is   *)
(* empty in the middle of the two ways to end a playback, and that one     *)
(* operation adds at most a select and the item that needs it.             *)
Between ==
    /\ phase = "clearing" => actions = << >>
    /\ phase = "removed" => disk.items = << >>
    /\ holder # NoClient => Len(actions) <= mStartRecord + 2

(* A new recorder is in the middle of nothing.                             *)
LEMMA BetweenInitially == Init => Between
BY DEF Init, Between

(* Recording adds a select and an item at most.                            *)
LEMMA RecordAdds ==
    ASSUME TypeOK, OpOK, NEW c \in Clients, Record(c)
    PROVE  Len(actions') <= Len(actions) + 2
<1> DEFINE last == Item(op[c].act, op[c].mbox)
           sel == Item("Select", mPendingSelect[mCurrentID])
<1>1. op[c] \in Ops /\ actions \in Seq(CMailAction) /\ Len(actions) \in Nat
    BY LenProperties DEF Record, OpOK, TypeOK
<1>2. last \in CMailAction
    BY <1>1, ItemType
<1>3. Len(Append(actions, last)) = Len(actions) + 1
      /\ Len(actions \o <<last>>) = Len(actions) + 1
    BY <1>1, <1>2
<1>4. CASE actions' = Append(actions, sel) \o <<last>> /\ Pending
    <2>1. sel \in CMailAction
        BY <1>4, ItemType DEF Pending, TypeOK
    <2>2. Append(actions, sel) \in Seq(CMailAction) /\ Len(Append(actions, sel)) = Len(actions) + 1
        BY <1>1, <2>1
    <2> QED BY <1>1, <1>2, <1>4, <2>2
<1>5. \/ actions' = actions
      \/ op[c].act = "Deselect" /\ actions' = Append(actions, last)
      \/ actions' = Append(actions, last)
      \/ actions' = Append(actions, sel) \o <<last>> /\ Pending
      \/ actions' = actions \o <<last>>
    BY DEF Record, RecordSelect, RecordDeselect, RecordMailboxAction, RecordMessageAction
<1> HIDE DEF last, sel
<1> QED BY <1>1, <1>3, <1>4, <1>5

(* No step of the recorder breaks it.                                      *)
LEMMA BetweenStep ==
    ASSUME IInv, Between, [Next]_vars
    PROVE  Between'
<1> USE DEF Between
<1>0. TypeOK /\ OpOK /\ MutexOK /\ BusyOK /\ ClosedOK /\ Len(actions) \in Nat
    BY LenProperties DEF IInv, TypeOK
<1>1. ASSUME NEW c \in Clients, ClientStep(c)
      PROVE  Between'
    <2>1. phase' = phase /\ phase \notin {"clearing", "removed"}
        BY <1>0, <1>1 DEF ClientStep, SelectMbox, SelectTimedOut, ForgetTimedOut, Forceoff,
                    StartRecording, Lock, Record, StopRecording, BusyOK
    <2>2. CASE Record(c)
        <3>1. mStartRecord = Len(actions) /\ UNCHANGED <<holder, mStartRecord>>
            BY <2>2, ConstantsAssumption DEF Record, IInv, StartOK
        <3> QED BY <1>0, <2>1, <2>2, <3>1, RecordAdds
    <2>3. CASE StartRecording(c)
        <3>1. mStartRecord' = Len(actions) /\ actions' = actions
            BY <2>3 DEF StartRecording, Lock
        <3> QED BY <1>0, <2>1, <3>1
    <2>4. CASE StopRecording(c)
        BY <2>1, <2>4 DEF StopRecording
    <2>5. CASE /\ ~ Record(c) /\ ~ StartRecording(c) /\ ~ StopRecording(c)
        <3>1. UNCHANGED <<holder, actions, mStartRecord>>
            BY <1>1, <2>5 DEF ClientStep, SelectMbox, SelectTimedOut, ForgetTimedOut, Forceoff, recorderVars
        <3> QED BY <2>1, <3>1
    <2> QED BY <2>2, <2>3, <2>4, <2>5
<1>2. CASE Playback
    <2>1. holder' = NoClient
        BY <1>0, <1>2 DEF Playback, StartPlayback, PlaybackItem, PlaybackDone, ClearJournal,
                    PlaybackFailed, RecoverSelect, RemoveJournal, RewriteJournal,
                    Quiet, BusyOK, MutexOK, TypeOK
    <2>2. phase' = "clearing" => actions' = << >>
        BY <1>2 DEF Playback, StartPlayback, PlaybackItem, PlaybackDone, ClearJournal,
                    PlaybackFailed, RecoverSelect, RemoveJournal, RewriteJournal
    <2>3. phase' = "removed" => disk'.items = << >>
        <3>1. phase' = "removed" => disk' = NoFile
            BY <1>2 DEF Playback, StartPlayback, PlaybackItem, PlaybackDone, ClearJournal,
                    PlaybackFailed, RecoverSelect, RemoveJournal, RewriteJournal
        <3> QED BY <3>1 DEF NoFile
    <2> QED BY <2>1, <2>2, <2>3
<1>3. CASE GoOnline \/ GoOffline \/ Crash \/ Restart
    <2>1. phase' \in {"offline", "online", "down"} /\ holder' = NoClient
        BY <1>0, <1>3 DEF GoOnline, Quiet, GoOffline, Crash, Restart, BusyOK, MutexOK, TypeOK
    <2> QED BY <2>1
<1>4. CASE UNCHANGED vars
    BY <1>4 DEF vars, recorderVars, fileVars
<1> QED BY <1>1, <1>2, <1>3, <1>4 DEF Next

-----------------------------------------------------------------------------
(* The steps of the log.                                                   *)

(* Arithmetic of small lengths.                                            *)
LEMMA OneOrTwo ==
    ASSUME NEW n \in Nat, n # 0, NEW m \in Nat, m <= 2, n <= m
    PROVE  n \in 1..2
OBVIOUS

(* A length of at least one.                                               *)
LEMMA NotNone ==
    ASSUME NEW n \in 1..2
    PROVE  n # 0
OBVIOUS

(* The lengths of what stands before a position and from it on.            *)
LEMMA AroundPosition ==
    ASSUME NEW n \in Nat, NEW k \in 1..n, NEW h, h = k - 1, NEW r, r = n - k + 1
    PROVE  h + 1 = k /\ h + 1 + r = n + 1
OBVIOUS

(* What has been added to a sequence.                                      *)
LEMMA Added ==
    ASSUME NEW S, NEW s \in Seq(S), NEW t \in Seq(S), Len(t) # 0
    PROVE  SubSeq(s \o t, Len(s) + 1, Len(s \o t)) = t
<1>1. Len(s) \in Nat /\ Len(t) \in Nat /\ Len(s \o t) = Len(s) + Len(t)
    BY LenProperties, ConcatProperties
<1>2. SubSeq(s \o t, Len(s) + 1, Len(s) + Len(t))
        = SubSeq(t, Len(s) + 1 - Len(s), Len(s) + Len(t) - Len(s))
    BY <1>1, SubSeqOfConcat2
<1>3. SubSeq(t, 1, Len(t)) = t
    BY SubSeqFull
<1>4. Len(s) + 1 - Len(s) = 1 /\ Len(s) + Len(t) - Len(s) = Len(t)
    BY <1>1
<1> QED BY <1>1, <1>2, <1>3, <1>4

(* One element between two sequences.                                      *)
LEMMA Inserted ==
    ASSUME NEW S, NEW s \in Seq(S), NEW t \in Seq(S), NEW x \in S
    PROVE  /\ Len((s \o <<x>>) \o t) = Len(s) + 1 + Len(t)
           /\ ((s \o <<x>>) \o t)[Len(s) + 1] = x
<1>1. Len(s) \in Nat /\ Len(t) \in Nat
    BY LenProperties
<1>2. s \o <<x>> = Append(s, x) /\ Append(s, x) \in Seq(S)
    BY AppendIsConcat, AppendProperties
<1>3. Len(Append(s, x)) = Len(s) + 1 /\ Append(s, x)[Len(s) + 1] = x
    BY AppendProperties
<1>4. /\ Len(Append(s, x) \o t) = Len(s) + 1 + Len(t)
      /\ (Append(s, x) \o t)[Len(s) + 1] = Append(s, x)[Len(s) + 1]
    BY <1>1, <1>2, <1>3, ConcatProperties
<1> QED BY <1>2, <1>3, <1>4

(* Items at the end of the file are an operation's.                        *)
LEMMA Grows ==
    ASSUME TypeOK, NEW new \in Seq(CMailAction), Len(new) \in 1..2,
           disk'.items = disk.items \o new
    PROVE  Journal!Grow
<1>1. disk.items \in Seq(CMailAction)
    BY DEF TypeOK
<1>3. Len(new) # 0
    BY NotNone
<1>2. SubSeq(disk'.items, Len(disk.items) + 1, Len(disk'.items)) = new
    BY <1>1, <1>3, Added
<1> QED BY <1>2 DEF Journal!Grow

(* What a step may write behind the items of the file.                     *)
WritesMore ==
    \E new \in Seq(CMailAction) : Len(new) \in 1..2 /\ disk'.items = disk.items \o new

(* What an operation is about to write.                                    *)
LEMMA OperationItems ==
    ASSUME TypeOK, StartOK, Between, holder # NoClient
    PROVE  NewItems \in Seq(CMailAction) /\ Len(NewItems) \in Nat /\ Len(NewItems) <= 2
<1>1. /\ mStartRecord \in Nat /\ Len(actions) \in Nat /\ actions \in Seq(CMailAction)
      /\ mStartRecord <= Len(actions) /\ Len(actions) <= mStartRecord + 2
    BY LenProperties DEF StartOK, Between, TypeOK
<1>2. \A x \in mStartRecord + 1 .. Len(actions) : actions[x] \in CMailAction
    BY <1>1, ElementOfSeq
<1> QED BY <1>1, <1>2, SubSeqProperties, LenProperties DEF NewItems

(* A client writes nothing or the items of its operation.                  *)
LEMMA ClientWrites ==
    ASSUME IInv, Between, NEW c \in Clients, ClientStep(c), disk'.items # disk.items
    PROVE  WritesMore
<1>0. TypeOK /\ StartOK /\ disk.items \in Seq(CMailAction)
    BY DEF IInv, TypeOK
<1>1. StopRecording(c) /\ NewItems # << >> /\ mStream.open
    BY <1>0, BumpIDType
    DEF ClientStep, SelectMbox, SelectTimedOut, ForgetTimedOut, Forceoff,
        StartRecording, Lock, Record, StopRecording, fileVars
<1>2. disk'.items = disk.items \o NewItems
    <2>1. disk' = [Synced EXCEPT !.items = @ \o NewItems]
        BY <1>1 DEF StopRecording
    <2>2. Synced.items = disk.items
        BY <1>0 DEF Synced, TypeOK
    <2> QED BY <1>0, <2>1, <2>2, SyncedType
<1>3. holder # NoClient
    BY <1>1, ConstantsAssumption DEF StopRecording
<1>4. NewItems \in Seq(CMailAction) /\ Len(NewItems) \in Nat /\ Len(NewItems) <= 2
    BY <1>0, <1>3, OperationItems
<1>5. Len(NewItems) # 0
    BY <1>1, <1>4, EmptySeq
<1>6. Len(NewItems) \in 1..2
    <2>1. 2 \in Nat /\ 2 <= 2
        OBVIOUS
    <2> QED BY <1>4, <1>5, <2>1, OneOrTwo
<1> QED BY <1>2, <1>4, <1>6 DEF WritesMore

(* A crash in the middle of StopRecording leaves some of them.             *)
LEMMA CrashWrites ==
    ASSUME IInv, Between, holder # NoClient, step[holder] = "recorded",
           \E n \in 0..Len(NewItems) :
               disk' = [Synced EXCEPT !.items = @ \o SubSeq(NewItems, 1, n)]
    PROVE  disk'.items = disk.items \/ WritesMore
<1>0. TypeOK /\ StartOK /\ disk.items \in Seq(CMailAction)
    BY DEF IInv, TypeOK
<1>1. PICK n \in 0..Len(NewItems) :
             disk' = [Synced EXCEPT !.items = @ \o SubSeq(NewItems, 1, n)]
    OBVIOUS
<1>2. disk'.items = disk.items \o SubSeq(NewItems, 1, n)
    <2>1. Synced.items = disk.items
        BY <1>0 DEF Synced, TypeOK
    <2> QED BY <1>0, <1>1, <2>1, SyncedType
<1>4. NewItems \in Seq(CMailAction) /\ Len(NewItems) \in Nat /\ Len(NewItems) <= 2
    BY <1>0, OperationItems
<1>5. n \in Nat /\ n <= Len(NewItems)
    BY <1>1, <1>4
<1>6. SubSeq(NewItems, 1, n) \in Seq(CMailAction) /\ Len(SubSeq(NewItems, 1, n)) = n
    <2>1. \A x \in 1..n : NewItems[x] \in CMailAction
        BY <1>4, <1>5, ElementOfSeq
    <2> QED BY <1>4, <1>5, <2>1, SubSeqProperties
<1>7. CASE n = 0
    BY <1>0, <1>2, <1>6, <1>7, EmptySeq, ConcatEmptySeq
<1>8. CASE n # 0
    <2>1. n \in 1..2
        BY <1>4, <1>5, <1>8, OneOrTwo
    <2> QED BY <1>2, <1>6, <2>1 DEF WritesMore
<1> QED BY <1>7, <1>8

(* What was in the file is the beginning of what is there now.             *)
LEMMA KeepsPrefix ==
    ASSUME TypeOK, disk'.items = disk.items \/ WritesMore
    PROVE  /\ Len(disk.items) <= Len(disk'.items)
           /\ disk.items = SubSeq(disk'.items, 1, Len(disk.items))
<1>1. disk.items \in Seq(CMailAction) /\ Len(disk.items) \in Nat
    BY LenProperties DEF TypeOK
<1>2. CASE disk'.items = disk.items
    BY <1>1, <1>2, SubSeqFull
<1>3. ASSUME NEW new \in Seq(CMailAction), disk'.items = disk.items \o new
      PROVE  /\ Len(disk.items) <= Len(disk'.items)
             /\ disk.items = SubSeq(disk'.items, 1, Len(disk.items))
    <2>1. Len(new) \in Nat /\ Len(disk.items \o new) = Len(disk.items) + Len(new)
        BY <1>1, LenProperties, ConcatProperties
    <2>2. SubSeq(disk.items \o new, 1, Len(disk.items)) = SubSeq(disk.items, 1, Len(disk.items))
        BY <1>1, SubSeqOfConcat1
    <2>3. SubSeq(disk.items, 1, Len(disk.items)) = disk.items
        BY <1>1, SubSeqFull
    <2> QED BY <1>1, <1>3, <2>1, <2>2, <2>3
<1> QED BY <1>2, <1>3 DEF WritesMore

(* Opening the file does not change what is in it.                         *)
LEMMA Opens ==
    ASSUME IInv, Open, holder = NoClient, phase \in {"offline", "online"}
    PROVE  disk'.items = disk.items /\ actions' = disk.items
BY OpenType DEF IInv, Journaled

(* A select is put back into the queue.                                    *)
LEMMA Reopens ==
    ASSUME TypeOK, NEW i \in IDs, RecoverSelect(i), actions' # actions, phase' = phase
    PROVE  Journal!Reopen
<1> DEFINE sel == [act |-> "Select", id |-> i, mbox |-> mConns[i]]
<1>1. sel \in CMailAction /\ sel.act = "Select"
    BY DEF RecoverSelect, TypeOK, CMailAction, OnMailbox
<1>2. PICK k \in DOMAIN actions :
         actions' = SubSeq(actions, 1, k - 1) \o <<sel>> \o SubSeq(actions, k, Len(actions))
    BY DEF RecoverSelect
<1> HIDE DEF sel
<1> DEFINE head == SubSeq(actions, 1, k - 1)
           rest == SubSeq(actions, k, Len(actions))
<1>3. actions \in Seq(CMailAction) /\ Len(actions) \in Nat /\ k \in 1..Len(actions)
    BY LenProperties DEF TypeOK
<1>4. head \in Seq(CMailAction) /\ Len(head) = k - 1
    <2>1. \A x \in 1..k - 1 : actions[x] \in CMailAction
        BY <1>3, ElementOfSeq
    <2> QED BY <1>3, <2>1, SubSeqProperties
<1>5. rest \in Seq(CMailAction) /\ Len(rest) = Len(actions) - k + 1
    <2>1. \A x \in k..Len(actions) : actions[x] \in CMailAction
        BY <1>3, ElementOfSeq
    <2> QED BY <1>3, <2>1, SubSeqProperties
<1> HIDE DEF head, rest
<1>8. /\ Len((head \o <<sel>>) \o rest) = Len(actions) + 1
      /\ ((head \o <<sel>>) \o rest)[k] = sel
    <2>1. /\ Len((head \o <<sel>>) \o rest) = Len(head) + 1 + Len(rest)
          /\ ((head \o <<sel>>) \o rest)[Len(head) + 1] = sel
        BY <1>1, <1>4, <1>5, Inserted
    <2>2. Len(head) + 1 = k /\ Len(head) + 1 + Len(rest) = Len(actions) + 1
        BY <1>3, <1>4, <1>5, AroundPosition
    <2> QED BY <2>1, <2>2
<1>9. actions' = (head \o <<sel>>) \o rest
    BY <1>2 DEF head, rest
<1>10. /\ Len(actions') = Len(actions) + 1 /\ actions'[k] = sel
       /\ actions' = SubSeq(actions, 1, k - 1) \o <<actions'[k]>> \o SubSeq(actions, k, Len(actions))
    BY <1>8, <1>9 DEF head, rest
<1>11. phase = "recovering" /\ UNCHANGED disk /\ Mode = "replacing" /\ Mode' = "replacing"
    BY DEF RecoverSelect, fileVars, Mode
<1> QED BY <1>1, <1>10, <1>11 DEF Journal!Reopen

(* Every step of the recorder is one of the log, or none.                  *)
LEMMA JournalStepRefines ==
    ASSUME IInv, IInv', Between, [Next]_vars
    PROVE  [Journal!Next]_(Journal!vars)
<1> DEFINE Todo == IF Mode = "recording" THEN << >> ELSE actions
<1>0. /\ TypeOK /\ OpOK /\ MutexOK /\ BusyOK /\ ClosedOK /\ StartOK
      /\ Len(actions) \in Nat /\ disk.items \in Seq(CMailAction) /\ actions \in Seq(CMailAction)
    BY LenProperties DEF IInv, TypeOK
<1>s. UNCHANGED <<disk.items, Todo, Mode>> => UNCHANGED Journal!vars
    BY DEF Journal!vars
<1>r. Mode = "recording" /\ Mode' = "recording" /\ disk'.items = disk.items => UNCHANGED Journal!vars
    BY <1>s
<1>1. ASSUME NEW c \in Clients, ClientStep(c)
      PROVE  [Journal!Next]_(Journal!vars)
    <2>1. phase' = phase /\ phase \in {"offline", "leaving"}
        BY <1>0, <1>1 DEF ClientStep, SelectMbox, SelectTimedOut, ForgetTimedOut, Forceoff,
                    StartRecording, Lock, Record, StopRecording, BusyOK
    <2>2. Mode = "recording" /\ Mode' = "recording"
        BY <2>1 DEF Mode
    <2>3. CASE disk'.items = disk.items
        BY <1>r, <2>2, <2>3
    <2>4. CASE disk'.items # disk.items
        <3>6. Journal!Grow
            BY <1>0, <1>1, <2>4, ClientWrites, Grows DEF WritesMore
        <3>7. Journal!Record
            BY <2>2, <3>6 DEF Journal!Record
        <3> QED BY <3>7 DEF Journal!Next
    <2> QED BY <2>3, <2>4
<1>2. CASE StartPlayback
    <2>1. disk'.items = disk.items /\ actions' = disk.items
        BY <1>2, Opens DEF StartPlayback, Quiet
    <2>2. Mode = "recording" /\ Mode' = "playing"
        BY <1>2 DEF StartPlayback, Mode
    <2>3. Journal!Begin
        BY <2>1, <2>2 DEF Journal!Begin
    <2> QED BY <2>3 DEF Journal!Next
<1>3. CASE PlaybackItem
    <2>1. /\ phase = "playing" /\ phase' = "playing" /\ actions # << >> /\ actions' = Tail(actions)
          /\ disk'.items = disk.items
        BY <1>0, <1>3, BumpIDType DEF PlaybackItem, PlaySelect, PlayDeselect, PlayOther, fileVars
    <2>2. Mode = "playing" /\ Mode' = "playing"
        BY <2>1 DEF Mode
    <2>3. Journal!Play
        BY <2>1, <2>2 DEF Journal!Play
    <2> QED BY <2>3 DEF Journal!Next
<1>4. CASE PlaybackDone
    <2>1. /\ phase = "playing" /\ phase' = "clearing" /\ actions' = actions
          /\ disk'.items = disk.items
        BY <1>0, <1>4 DEF PlaybackDone, Synced, TypeOK
    <2>2. Mode = "playing" /\ Mode' = "playing"
        BY <2>1 DEF Mode
    <2> QED BY <1>s, <2>1, <2>2
<1>5. CASE ClearJournal
    <2>1. Mode = "playing" /\ Mode' = "recording" /\ actions = << >> /\ disk'.items = << >>
        BY <1>5 DEF ClearJournal, Mode, Between, NoFile
    <2>2. Journal!Finish
        BY <2>1 DEF Journal!Finish
    <2> QED BY <2>2 DEF Journal!Next
<1>6. CASE PlaybackFailed
    <2>1. /\ Mode = "playing" /\ Mode' = "replacing" /\ actions # << >>
          /\ actions' = actions /\ disk' = disk
        BY <1>6 DEF PlaybackFailed, Mode, recorderVars, fileVars
    <2>2. Journal!Fail
        BY <2>1 DEF Journal!Fail
    <2> QED BY <2>2 DEF Journal!Next
<1>7. ASSUME NEW i \in IDs, RecoverSelect(i)
      PROVE  [Journal!Next]_(Journal!vars)
    <2>1. phase' = phase /\ disk' = disk
        BY <1>7 DEF RecoverSelect, fileVars
    <2>2. CASE actions' = actions
        BY <1>s, <2>1, <2>2 DEF Mode
    <2>3. CASE actions' # actions
        BY <1>0, <1>7, <2>1, <2>3, Reopens DEF Journal!Next
    <2> QED BY <2>2, <2>3
<1>8. CASE RemoveJournal
    <2>1. /\ Mode = "replacing" /\ Mode' = "replacing" /\ actions' = actions
          /\ disk'.items = << >>
        BY <1>8 DEF RemoveJournal, Mode, recorderVars, NoFile
    <2>2. Journal!Erase
        BY <2>1 DEF Journal!Erase
    <2> QED BY <2>2 DEF Journal!Next
<1>9. CASE RewriteJournal
    <2>1. /\ Mode = "replacing" /\ Mode' = "recording" /\ disk'.items = actions
          /\ disk.items = << >>
        BY <1>9 DEF RewriteJournal, Mode, Between
    <2>2. Journal!Replace
        BY <2>1 DEF Journal!Replace
    <2> QED BY <2>2 DEF Journal!Next
<1>10. CASE GoOnline
    <2>1. Mode = "recording" /\ Mode' = "recording" /\ disk' = disk
        BY <1>10 DEF GoOnline, Mode, fileVars
    <2> QED BY <1>r, <2>1
<1>11. CASE GoOffline \/ Restart
    <2>1. Mode = "recording" /\ Mode' = "recording"
        BY <1>11 DEF GoOffline, Restart, Mode
    <2>2. disk'.items = disk.items
        BY <1>0, <1>11, OpenType DEF GoOffline, Restart, fileVars
    <2> QED BY <1>r, <2>1, <2>2
<1>12. CASE Crash
    <2>1. Mode' = "recording" /\ disk' \in CrashedDisks
        BY <1>12 DEF Crash, Mode
    <2>2. Synced.items = disk.items
        BY <1>0 DEF Synced, TypeOK
    <2>3. CASE disk'.items = disk.items
        BY <2>1, <2>3 DEF Journal!Crash, Journal!Next
    <2>4. CASE /\ mStream.open /\ holder # NoClient /\ step[holder] = "recorded"
               /\ \E n \in 0..Len(NewItems) :
                     disk' = [Synced EXCEPT !.items = @ \o SubSeq(NewItems, 1, n)]
        <3>1. Mode = "recording"
            <4>1. holder \in Clients /\ step[holder] # "idle"
                BY <1>0, <2>4 DEF TypeOK
            <4> QED BY <1>0, <4>1 DEF BusyOK, Mode
        <3>2. CASE WritesMore
            BY <1>0, <2>1, <3>1, <3>2, Grows DEF WritesMore, Journal!Crash, Journal!Next
        <3>3. CASE ~ WritesMore
            BY <2>3, <2>4, <3>3, CrashWrites
        <3> QED BY <3>2, <3>3
    <2>5. CASE phase = "removed" /\ \E n \in 0..Len(actions) :
                  disk' = [next |-> mNextID, items |-> SubSeq(actions, 1, n)]
        <3>1. PICK n \in 0..Len(actions) :
                  disk' = [next |-> mNextID, items |-> SubSeq(actions, 1, n)]
            BY <2>5
        <3>2. Mode = "replacing" /\ disk.items = << >> /\ disk'.items = SubSeq(actions, 1, n)
            BY <2>5, <3>1 DEF Mode, Between
        <3>3. CASE n = 0
            <4>1. disk'.items = disk.items
                BY <3>2, <3>3, SubSeqEmpty
            <4> QED BY <2>3, <4>1
        <3>4. CASE n # 0
            <4>1. n \in DOMAIN actions
                BY <1>0, <3>4, LenProperties
            <4> QED BY <2>1, <3>2, <4>1 DEF Journal!Crash, Journal!Next
        <3> QED BY <3>3, <3>4
    <2> QED BY <2>1, <2>2, <2>3, <2>4, <2>5 DEF CrashedDisks
<1>13. CASE UNCHANGED vars
    <2>1. UNCHANGED <<disk, actions, phase>>
        BY <1>13 DEF vars, recorderVars, fileVars
    <2> QED BY <1>s, <2>1 DEF Mode
<1> QED
    BY <1>1, <1>2, <1>3, <1>4, <1>5, <1>6, <1>7, <1>8, <1>9, <1>10, <1>11, <1>12, <1>13
    DEF Next, Playback

-----------------------------------------------------------------------------
(* Results.                                                                *)

(* What the code does to the journal, all clients, crashes and failures    *)
(* included, is what DurableJournal allows: entries are added at the end,  *)
(* played from the front, and leave the file only when all are played or   *)
(* by being replaced with those that were not.                             *)
THEOREM JournalIsDurable == Spec => JournalSpec
<1>1. Init => Journal!Init /\ Between
    BY BetweenInitially DEF Init, Journal!Init, Mode
<1>2. IInv /\ Between /\ [Next]_vars => Between'
    BY BetweenStep
<1>3. IInv /\ IInv' /\ Between /\ [Next]_vars => [Journal!Next]_(Journal!vars)
    BY JournalStepRefines
<1> QED BY <1>1, <1>2, <1>3, Invariance, PTL DEF Spec, JournalSpec, Journal!Spec

(* What is in the file stays there, in its place, whatever the clients do  *)
(* and across crashes, until a playback has run to its end or is writing   *)
(* the file anew.                                                          *)
THEOREM JournalIsKept == Spec => JournalSurvives
<1> DEFINE Kept == /\ Len(disk.items) <= Len(disk'.items)
                   /\ disk.items = SubSeq(disk'.items, 1, Len(disk.items))
<1>1. Init => Between
    BY BetweenInitially
<1>2. IInv /\ Between /\ [Next]_vars => Between'
    BY BetweenStep
<1>3. ASSUME IInv, Between, [Next]_vars, phase \notin {"clearing", "recovering", "removed"}
      PROVE  Kept
    <2>0. TypeOK /\ disk.items \in Seq(CMailAction)
        BY <1>3 DEF IInv, TypeOK
    <2>1. CASE disk'.items = disk.items
        BY <2>0, <2>1, KeepsPrefix
    <2>2. ASSUME NEW c \in Clients, ClientStep(c), disk'.items # disk.items
          PROVE  Kept
        BY <1>3, <2>0, <2>2, ClientWrites, KeepsPrefix
    <2>3. CASE Playback
        <3>1. disk'.items = disk.items
            BY <1>3, <2>0, <2>3, OpenType, BumpIDType
            DEF Playback, StartPlayback, PlaybackItem, PlaySelect, PlayDeselect, PlayOther,
                PlaybackDone, ClearJournal, PlaybackFailed, RecoverSelect, RemoveJournal,
                RewriteJournal, Synced, TypeOK, fileVars
        <3> QED BY <2>1, <3>1
    <2>4. CASE GoOnline \/ GoOffline \/ Restart
        <3>1. disk'.items = disk.items
            BY <2>0, <2>4, OpenType DEF GoOnline, GoOffline, Restart, fileVars
        <3> QED BY <2>1, <3>1
    <2>5. CASE Crash /\ disk'.items # disk.items
        <3>1. Synced.items = disk.items
            BY <2>0 DEF Synced, TypeOK
        <3>2. /\ holder # NoClient /\ step[holder] = "recorded"
              /\ \E n \in 0..Len(NewItems) :
                     disk' = [Synced EXCEPT !.items = @ \o SubSeq(NewItems, 1, n)]
            BY <1>3, <2>5, <3>1 DEF Crash, CrashedDisks
        <3> QED BY <1>3, <2>0, <3>2, CrashWrites, KeepsPrefix
    <2>6. CASE UNCHANGED vars
        BY <2>1, <2>6 DEF vars, fileVars
    <2> QED BY <1>3, <2>1, <2>2, <2>3, <2>4, <2>5, <2>6 DEF Next
<1> QED BY <1>1, <1>2, <1>3, Invariance, PTL DEF Spec, JournalSurvives

-----------------------------------------------------------------------------
(* The sessions.  First their IDs.  The counter is reset when a playback is*)
(* done: these are the phases in which the IDs there are belong to it.     *)
Live == phase \in {"offline", "playing", "recovering", "removed"}

ClientIDs ==
    /\ Live => \A c, d \in Clients :
                  /\ mRecordID[c] < mNextID
                  /\ mRecordID[c] = mRecordID[d] /\ c # d => mRecordID[c] = 0
    /\ phase \in {"online", "down"} => \A c \in Clients : mRecordID[c] = 0

CurrentID == Live /\ holder # NoClient => mCurrentID < mNextID

(* The IDs in sequence q are below n.                                      *)
Below(q, n) == \A k \in DOMAIN q : q[k].id < n

QueueIDs == Live \/ mStream.open => Below(actions, mNextID)

ConnIDs ==
    \A i \in IDs : mConns[i] # NoMbox =>
        phase \in {"playing", "recovering"} /\ i < mNextID

(* The header of an open file is the counter, or will be when the buffer   *)
(* is written; a closed file that may be opened without reading it has one *)
(* that is not past the counter.                                           *)
HeaderOK ==
    /\ mStream.open => /\ ~ mStream.fail
                       /\ disk.next <= mNextID
                       /\ ~ dirty => disk.next = mNextID
    /\ ~ mStream.open /\ (phase \in {"offline", "removed", "leaving"} \/ mStream.fail)
         => disk.next <= mNextID
    /\ ~ mStream.open /\ phase = "offline" /\ ~ mStream.fail
         => disk.next = mNextID
    /\ phase \in {"playing", "recovering"} => mStream.open

Header == HeaderOK /\ HeaderAhead

Counted == ClientIDs /\ CurrentID /\ QueueIDs /\ ConnIDs /\ Header

-----------------------------------------------------------------------------
(* Sequences of items.                                                     *)

(* IDs below one number are below a larger one.                            *)
LEMMA BelowMore ==
    ASSUME NEW q \in Seq(CMailAction), NEW m \in Nat, NEW n \in Nat, m <= n, Below(q, m)
    PROVE  Below(q, n)
<1>1. \A k \in DOMAIN q : q[k] \in CMailAction
    OBVIOUS
<1>2. \A k \in DOMAIN q : q[k].id \in Nat
    BY <1>1, ConstantsAssumption DEF CMailAction, IDs
<1> QED BY <1>2 DEF Below

(* IDs of two sequences.                                                   *)
LEMMA BelowConcat ==
    ASSUME NEW q \in Seq(CMailAction), NEW r \in Seq(CMailAction), NEW n \in Nat,
           Below(q, n), Below(r, n)
    PROVE  q \o r \in Seq(CMailAction) /\ Below(q \o r, n)
BY ConcatProperties DEF Below

(* The ID of one item.                                                     *)
LEMMA BelowOne ==
    ASSUME NEW a \in CMailAction, NEW n \in Nat, a.id < n
    PROVE  <<a>> \in Seq(CMailAction) /\ Below(<<a>>, n)
BY DEF Below

(* A stretch of a sequence.                                                *)
LEMMA BelowStretch ==
    ASSUME NEW q \in Seq(CMailAction), NEW n \in Nat, Below(q, n),
           NEW i \in Nat \ {0}, NEW j \in 0..Len(q)
    PROVE  SubSeq(q, i, j) \in Seq(CMailAction) /\ Below(SubSeq(q, i, j), n)
<1>1. SubSeq(q, i, j) \in Seq(CMailAction)
    BY StretchType
<1>2. ASSUME NEW k \in DOMAIN SubSeq(q, i, j)
      PROVE  SubSeq(q, i, j)[k].id < n
    <2>1. \A x \in i..j : q[x] \in CMailAction
        BY ElementOfSeq, LenProperties
    <2>2. k \in 1..(j + 1 - i) /\ SubSeq(q, i, j)[k] = q[i + k - 1]
        BY <1>2, <2>1, SubSeqProperties, LenProperties
    <2> QED BY <2>2, LenProperties DEF Below
<1> QED BY <1>1, <1>2 DEF Below

-----------------------------------------------------------------------------
(* The header.                                                             *)

(* What is a number.                                                       *)
LEMMA Numbers ==
    ASSUME TypeOK
    PROVE  /\ mNextID \in Nat /\ mNextID # 0 /\ disk.next \in Nat /\ mCurrentID \in Nat
           /\ disk.items \in Seq(CMailAction) /\ actions \in Seq(CMailAction)
           /\ \A c \in Clients : mRecordID[c] \in Nat
           /\ \A i \in IDs : i \in Nat
BY ConstantsAssumption DEF TypeOK, IDs

(* What is in the buffer is past the IDs in the file, too.                 *)
LEMMA SyncedAhead ==
    ASSUME TypeOK, Header, mStream.open
    PROVE  /\ Synced.next = mNextID /\ Synced.items = disk.items
           /\ Below(disk.items, mNextID)
<1>1. Below(disk.items, disk.next)
    BY DEF Header, HeaderAhead, Below
<1>2. Below(disk.items, mNextID)
    BY <1>1, Numbers, BelowMore DEF Header, HeaderOK
<1> QED BY <1>2 DEF Synced, Header, HeaderOK, TypeOK

(* A new ID: the file stays behind the counter.                            *)
LEMMA BumpHeader ==
    ASSUME TypeOK, Header, BumpID, UNCHANGED phase, mStream.open \/ phase = "offline"
    PROVE  Header' /\ mNextID' = mNextID + 1 /\ mStream'.open = mStream.open
<1>1. mNextID' = mNextID + 1 /\ mNextID \in Nat /\ disk.next \in Nat
    BY Numbers DEF BumpID
<1>2. CASE mStream.open
    <2>1. /\ dirty' = TRUE /\ UNCHANGED mStream
          /\ disk'.next = mNextID /\ disk'.items = disk.items
          /\ Below(disk.items, mNextID)
        BY <1>2, SyncedAhead DEF BumpID
    <2>2. HeaderOK'
        BY <1>1, <1>2, <2>1 DEF Header, HeaderOK
    <2>3. HeaderAhead'
        BY <2>1 DEF HeaderAhead, Below
    <2> QED BY <1>1, <2>1, <2>2, <2>3 DEF Header
<1>3. CASE ~ mStream.open
    <2>1. mStream' = [mStream EXCEPT !.fail = TRUE] /\ UNCHANGED disk
        BY <1>3 DEF BumpID
    <2>2. mStream'.fail = TRUE /\ mStream'.open = mStream.open
        BY <2>1 DEF TypeOK
    <2>3. HeaderOK'
        BY <1>1, <1>3, <2>1, <2>2 DEF Header, HeaderOK
    <2>4. HeaderAhead'
        BY <2>1 DEF Header, HeaderAhead
    <2> QED BY <1>1, <2>2, <2>3, <2>4 DEF Header
<1> QED BY <1>2, <1>3

(* Opening the file: the counter is past the queue, and not set back while *)
(* there are IDs.                                                          *)
LEMMA OpenHeader ==
    ASSUME TypeOK, Header, QueueIDs, Open, phase' \in {"offline", "playing"}
    PROVE  /\ Header' /\ QueueIDs' /\ mStream'.open
           /\ phase = "offline" => mNextID' = mNextID
<1>1. CASE mStream.open
    BY <1>1 DEF Open, fileVars, Header, HeaderOK, HeaderAhead, QueueIDs, Live
<1>2. CASE ~ mStream.open
    <2> DEFINE next == IF mStream.fail \/ disk.next = 0 THEN mNextID ELSE disk.next
    <2>1. /\ mNextID' = next
          /\ disk' = [disk EXCEPT !.next = next]
          /\ actions' = disk.items
          /\ mStream' = [open |-> TRUE, fail |-> FALSE]
          /\ ~ dirty'
        BY <1>2 DEF Open
    <2>2. next \in Nat /\ disk.next <= next
        BY <1>2, Numbers DEF Header, HeaderOK
    <2>3. phase = "offline" => next = mNextID
        BY <1>2, Numbers DEF Header, HeaderOK
    <2>4. Below(disk.items, next)
        <3>1. Below(disk.items, disk.next)
            BY DEF Header, HeaderAhead, Below
        <3> QED BY <2>2, <3>1, Numbers, BelowMore
    <2> HIDE DEF next
    <2>5. disk'.next = next /\ disk'.items = disk.items
        BY <2>1 DEF TypeOK
    <2>6. Header'
        BY <2>1, <2>2, <2>4, <2>5 DEF Header, HeaderOK, HeaderAhead, Below
    <2> QED BY <2>1, <2>3, <2>4, <2>6 DEF QueueIDs
<1> QED BY <1>1, <1>2

(* What an operation records has the ID of its connection's session.       *)
LEMMA RecordBelow ==
    ASSUME TypeOK, OpOK, NEW c \in Clients, Record(c), NEW n \in Nat,
           Below(actions, n), mCurrentID < n
    PROVE  Below(actions', n)
<1> DEFINE m == op[c].mbox
           last == <<Item(op[c].act, m)>>
           sel == <<Item("Select", mPendingSelect[mCurrentID])>>
<1>1. op[c] \in Ops
    BY DEF Record, OpOK
<1>2. Item(op[c].act, m) \in CMailAction /\ Item(op[c].act, m).id = mCurrentID
    BY <1>1, ItemType DEF Item
<1>3. last \in Seq(CMailAction) /\ Below(last, n)
    BY <1>2, BelowOne
<1>4. Below(actions \o last, n) /\ Append(actions, Item(op[c].act, m)) = actions \o last
    BY <1>2, <1>3, BelowConcat, AppendIsConcat, Numbers
<1>5. CASE op[c].act = "Select" /\ RecordSelect(m)
    BY <1>5 DEF RecordSelect
<1>6. CASE op[c].act = "Deselect" /\ RecordDeselect(c, m)
    BY <1>4, <1>6 DEF RecordDeselect
<1>7. CASE op[c].act \in MailboxActs /\ RecordMailboxAction(op[c])
    BY <1>4, <1>7 DEF RecordMailboxAction
<1>8. CASE op[c].act \in MessageActs \cup {"Append"} /\ RecordMessageAction(op[c])
    <2>1. CASE Pending
        <3>1. mPendingSelect[mCurrentID] \in Mailboxes
            BY <2>1 DEF Pending, TypeOK
        <3>2. /\ Item("Select", mPendingSelect[mCurrentID]) \in CMailAction
              /\ Item("Select", mPendingSelect[mCurrentID]).id = mCurrentID
            BY <3>1, ItemType DEF Item
        <3>3. sel \in Seq(CMailAction) /\ Below(sel, n)
            BY <3>2, BelowOne
        <3>4. actions' = (actions \o sel) \o last
            BY <1>8, <2>1, <3>2, AppendIsConcat, Numbers DEF RecordMessageAction
        <3>5. actions \o sel \in Seq(CMailAction) /\ Below(actions \o sel, n)
            BY <3>3, BelowConcat, Numbers
        <3> QED BY <1>3, <3>4, <3>5, BelowConcat
    <2>2. CASE ~ Pending
        BY <1>4, <1>8, <2>2 DEF RecordMessageAction
    <2> QED BY <2>1, <2>2
<1> QED BY <1>5, <1>6, <1>7, <1>8 DEF Record

-----------------------------------------------------------------------------
(* Every step.                                                             *)

(* A new recorder has used no ID.                                          *)
LEMMA CountedInitially == Init => Counted
BY ConstantsAssumption
   DEF Init, Counted, Live, ClientIDs, CurrentID, QueueIDs, Below, ConnIDs, Header,
       HeaderOK, HeaderAhead, Nobody

(* No step of the recorder loses count.                                    *)
LEMMA CountedStep ==
    ASSUME IInv, TypeOK', Counted, [Next]_vars
    PROVE  Counted'
<1> USE DEF Counted, Live, ClientIDs, CurrentID, ConnIDs
<1>0. /\ TypeOK /\ TypeOK' /\ OpOK /\ MutexOK /\ BusyOK /\ ClosedOK /\ StartOK
      /\ mNextID \in Nat /\ disk.next \in Nat
    BY Numbers DEF IInv
<1>1. ASSUME NEW c \in Clients, NEW m \in Mailboxes, SelectMbox(c, m)
      PROVE  Counted'
    <2>1. Header' /\ mNextID' = mNextID + 1 /\ mStream'.open = mStream.open
        BY <1>0, <1>1, BumpHeader DEF SelectMbox
    <2>2. QueueIDs'
        BY <1>0, <1>1, <2>1, Numbers, BelowMore DEF SelectMbox, QueueIDs
    <2>3. ClientIDs'
        BY <1>0, <1>1, <2>1, Numbers DEF SelectMbox, TypeOK
    <2> QED BY <1>0, <1>1, <2>1, <2>2, <2>3, Numbers DEF SelectMbox
<1>2. ASSUME NEW c \in Clients, SelectTimedOut(c) \/ ForgetTimedOut(c)
      PROVE  Counted'
    BY <1>2 DEF SelectTimedOut, ForgetTimedOut, recorderVars, fileVars, QueueIDs,
                Header, HeaderOK, HeaderAhead
<1>3. ASSUME NEW c \in Clients, Forceoff(c)
      PROVE  Counted'
    <2>1. /\ UNCHANGED <<holder, phase, mConns, recorderVars, fileVars>>
          /\ mRecordID' = [mRecordID EXCEPT ![c] = 0]
        BY <1>3 DEF Forceoff
    <2>2. ClientIDs'
        BY <1>0, <2>1 DEF recorderVars, TypeOK
    <2> QED BY <2>1, <2>2 DEF recorderVars, fileVars, QueueIDs, Header, HeaderOK, HeaderAhead
<1>4. ASSUME NEW c \in Clients, StartRecording(c)
      PROVE  Counted'
    <2>1. PICK o : Lock(c, o)
        BY <1>4 DEF StartRecording
    <2>2. UNCHANGED phase
        BY <2>1 DEF Lock
    <2> QED BY <2>1, <2>2 DEF Lock, fileVars, QueueIDs, Header, HeaderOK, HeaderAhead
<1>5. ASSUME NEW c \in Clients, Record(c)
      PROVE  Counted'
    <2>1. UNCHANGED <<holder, mNextID, mCurrentID, phase, mConns, fileVars>> /\ holder = c
        BY <1>5 DEF Record
    <2>2. QueueIDs'
        <3>1. CASE phase = "offline"
            <4>1. mCurrentID < mNextID /\ Below(actions, mNextID)
                BY <1>0, <2>1, <3>1, ConstantsAssumption DEF QueueIDs
            <4> QED BY <1>0, <1>5, <2>1, <4>1, RecordBelow DEF QueueIDs
        <3>2. CASE phase # "offline"
            <4>1. phase = "leaving" /\ ~ mStream.open
                BY <1>0, <1>5, <3>2 DEF Record, BusyOK, ClosedOK
            <4> QED BY <2>1, <4>1 DEF QueueIDs, fileVars
        <3> QED BY <3>1, <3>2
    <2>3. mRecordID' = mRecordID \/ mRecordID' = [mRecordID EXCEPT ![c] = 0]
        BY <1>5 DEF Record, RecordSelect, RecordDeselect, RecordMailboxAction, RecordMessageAction
    <2>4. ClientIDs'
        <3>1. CASE mRecordID' = mRecordID
            BY <2>1, <3>1
        <3>2. CASE mRecordID' = [mRecordID EXCEPT ![c] = 0]
            <4>1. \A d \in Clients : mRecordID'[d] = IF d = c THEN 0 ELSE mRecordID[d]
                BY <1>0, <3>2 DEF TypeOK
            <4>2. mNextID # 0
                BY <1>0, Numbers
            <4> QED BY <1>0, <2>1, <4>1, <4>2
        <3> QED BY <2>3, <3>1, <3>2
    <2> QED BY <2>1, <2>2, <2>4 DEF fileVars, Header, HeaderOK, HeaderAhead
<1>6. ASSUME NEW c \in Clients, StopRecording(c)
      PROVE  Counted'
    <2>1. /\ UNCHANGED <<mRecordID, actions, mNextID, phase, mConns>> /\ holder' = NoClient
          /\ holder = c /\ phase \in {"offline", "leaving"}
        BY <1>0, <1>6 DEF StopRecording, BusyOK
    <2>2. mStream'.open = mStream.open
        BY <1>0, <1>6 DEF StopRecording, TypeOK, fileVars
    <2>3. Header'
        <3>1. CASE NewItems = << >>
            BY <1>6, <2>1, <3>1 DEF StopRecording, fileVars, Header, HeaderOK, HeaderAhead
        <3>2. CASE NewItems # << >> /\ mStream.open
            <4>1. disk' = [Synced EXCEPT !.items = @ \o NewItems] /\ ~ dirty' /\ UNCHANGED mStream
                BY <1>6, <3>2 DEF StopRecording
            <4>2. /\ Synced.next = mNextID /\ Synced.items = disk.items
                  /\ Below(disk.items, mNextID)
                BY <1>0, <3>2, SyncedAhead
            <4>3. disk'.next = mNextID /\ disk'.items = disk.items \o NewItems
                BY <1>0, <4>1, <4>2, SyncedType
            <4>4. NewItems \in Seq(CMailAction) /\ Below(NewItems, mNextID)
                <5>1. mStartRecord <= Len(actions) /\ mStartRecord \in Nat
                    BY <1>0, <2>1, ConstantsAssumption DEF StartOK, TypeOK
                <5> QED BY <1>0, <3>2, <5>1, Numbers, LenProperties, BelowStretch
                        DEF NewItems, QueueIDs
            <4>5. Below(disk'.items, mNextID)
                BY <1>0, <4>2, <4>3, <4>4, Numbers, BelowConcat
            <4> QED BY <1>0, <2>1, <3>2, <4>1, <4>3, <4>5
                    DEF Header, HeaderOK, HeaderAhead, Below
        <3>3. CASE NewItems # << >> /\ ~ mStream.open
            <4>1. mStream'.fail /\ UNCHANGED <<disk, dirty>>
                BY <1>0, <1>6, <3>3 DEF StopRecording, TypeOK
            <4> QED BY <2>1, <2>2, <3>3, <4>1 DEF Header, HeaderOK, HeaderAhead
        <3> QED BY <3>1, <3>2, <3>3
    <2> QED BY <2>1, <2>2, <2>3 DEF QueueIDs
<1>7. CASE StartPlayback
    <2>1. Header' /\ QueueIDs' /\ mNextID' = mNextID
        BY <1>0, <1>7, OpenHeader DEF StartPlayback
    <2> QED BY <1>7, <2>1 DEF StartPlayback, Quiet, clientVars
<1>8. CASE PlaybackItem
    <2> DEFINE a == Head(actions)
    <2>1. /\ phase = "playing" /\ mStream.open /\ actions # << >> /\ actions' = Tail(actions)
          /\ UNCHANGED <<holder, clientVars, mCurrentID, phase>>
        BY <1>8 DEF PlaybackItem, Header, HeaderOK
    <2>2. a \in CMailAction /\ a.id < mNextID /\ Tail(actions) \in Seq(CMailAction)
          /\ Below(Tail(actions), mNextID)
        BY <1>0, <2>1, Numbers, HeadTailProperties, LenProperties DEF QueueIDs, Below
    <2>3. \/ BumpID \/ UNCHANGED <<mNextID, fileVars>>
        BY <1>8 DEF PlaybackItem, PlaySelect, PlayDeselect, PlayOther
    <2>4. Header' /\ mNextID' \in {mNextID, mNextID + 1} /\ mStream'.open = mStream.open
        <3>1. CASE BumpID
            BY <1>0, <2>1, <3>1, BumpHeader
        <3>2. CASE UNCHANGED <<mNextID, fileVars>>
            BY <2>1, <3>2 DEF fileVars, Header, HeaderOK, HeaderAhead
        <3> QED BY <2>3, <3>1, <3>2
    <2>5. QueueIDs'
        <3>1. mNextID' \in Nat /\ mNextID <= mNextID'
            BY <1>0, <2>4
        <3>2. Below(Tail(actions), mNextID')
            BY <1>0, <2>2, <3>1, BelowMore
        <3> QED BY <2>1, <3>2 DEF QueueIDs
    <2>6. \A i \in IDs : mConns'[i] # NoMbox => mConns[i] # NoMbox \/ i = a.id
        BY <1>0, <1>8 DEF PlaybackItem, PlaySelect, PlayDeselect, PlayOther, TypeOK
    <2>7. ConnIDs'
        BY <1>0, <2>1, <2>2, <2>4, <2>6, Numbers
    <2> QED BY <1>0, <2>1, <2>4, <2>5, <2>7, Numbers DEF clientVars
<1>9. CASE PlaybackDone
    <2>1. mStream.open /\ phase = "playing" /\ holder' = holder /\ mStream' = [mStream EXCEPT !.open = FALSE]
          /\ phase' = "clearing" /\ mConns' = Nobody /\ disk' = Synced
        BY <1>9 DEF PlaybackDone, Header, HeaderOK
    <2>2. ~ mStream'.open /\ ~ mStream'.fail
        BY <1>0, <2>1 DEF Header, HeaderOK, TypeOK
    <2>3. Header'
        BY <1>0, <2>1, <2>2, SyncedAhead DEF Header, HeaderOK, HeaderAhead, Below
    <2> QED BY <2>1, <2>2, <2>3 DEF QueueIDs, Nobody
<1>10. CASE ClearJournal
    BY <1>0, <1>10 DEF ClearJournal, ClosedOK, NoFile, QueueIDs, Header, HeaderOK, HeaderAhead, TypeOK
<1>11. CASE PlaybackFailed
    BY <1>11 DEF PlaybackFailed, clientVars, recorderVars, fileVars, QueueIDs, Header, HeaderOK, HeaderAhead
<1>12. ASSUME NEW i \in IDs, RecoverSelect(i)
       PROVE  Counted'
    <2> DEFINE sel == [act |-> "Select", id |-> i, mbox |-> mConns[i]]
    <2>1. /\ UNCHANGED <<holder, clientVars, mNextID, mCurrentID, fileVars, phase>>
          /\ mConns[i] # NoMbox /\ mConns' = [mConns EXCEPT ![i] = NoMbox] /\ phase = "recovering"
        BY <1>12 DEF RecoverSelect
    <2>2. sel \in CMailAction /\ i < mNextID /\ sel.id = i
        BY <1>0, <2>1 DEF TypeOK, CMailAction, OnMailbox
    <2>3. \/ actions' = actions
          \/ \E k \in DOMAIN actions :
               actions' = SubSeq(actions, 1, k - 1) \o <<sel>>
                            \o SubSeq(actions, k, Len(actions))
        BY <1>12 DEF RecoverSelect
    <2> HIDE DEF sel
    <2>4. Below(actions, mNextID)
        BY <2>1 DEF QueueIDs
    <2>5. Below(actions', mNextID)
        <3>1. ASSUME NEW k \in DOMAIN actions,
                     actions' = SubSeq(actions, 1, k - 1) \o <<sel>>
                                  \o SubSeq(actions, k, Len(actions))
              PROVE  Below(actions', mNextID)
            <4>1. k \in Nat \ {0} /\ k - 1 \in 0..Len(actions) /\ Len(actions) \in 0..Len(actions)
                  /\ 1 \in Nat \ {0}
                BY <1>0, Numbers, LenProperties
            <4>2. /\ SubSeq(actions, 1, k - 1) \in Seq(CMailAction)
                  /\ Below(SubSeq(actions, 1, k - 1), mNextID)
                BY <1>0, <2>4, <4>1, Numbers, BelowStretch
            <4>3. /\ SubSeq(actions, k, Len(actions)) \in Seq(CMailAction)
                  /\ Below(SubSeq(actions, k, Len(actions)), mNextID)
                BY <1>0, <2>4, <4>1, Numbers, BelowStretch
            <4>4. <<sel>> \in Seq(CMailAction) /\ Below(<<sel>>, mNextID)
                BY <1>0, <2>2, BelowOne
            <4>5. /\ SubSeq(actions, 1, k - 1) \o <<sel>> \in Seq(CMailAction)
                  /\ Below(SubSeq(actions, 1, k - 1) \o <<sel>>, mNextID)
                BY <1>0, <4>2, <4>4, BelowConcat
            <4> QED BY <1>0, <3>1, <4>3, <4>5, BelowConcat
        <3> QED BY <2>3, <2>4, <3>1
    <2>6. ConnIDs'
        BY <1>0, <2>1 DEF TypeOK
    <2> QED BY <2>1, <2>5, <2>6 DEF clientVars, fileVars, QueueIDs, Header, HeaderOK, HeaderAhead
<1>13. CASE RemoveJournal
    <2>1. disk'.next = 0 /\ disk'.items = << >> /\ ~ mStream'.open
        BY <1>0, <1>13 DEF RemoveJournal, NoFile, TypeOK
    <2> QED BY <1>0, <1>13, <2>1 DEF RemoveJournal, clientVars, recorderVars, QueueIDs,
                           Header, HeaderOK, HeaderAhead, Nobody
<1>14. CASE RewriteJournal
    <2>1. disk'.next = mNextID /\ disk'.items = actions /\ ~ mStream.open
        BY <1>0, <1>14 DEF RewriteJournal, ClosedOK
    <2> QED BY <1>0, <1>14, <2>1 DEF RewriteJournal, QueueIDs, Below, Header, HeaderOK, HeaderAhead
<1>15. CASE GoOnline
    BY <1>0, <1>15 DEF GoOnline, Quiet, recorderVars, fileVars, QueueIDs, Header, HeaderOK, HeaderAhead
<1>16. CASE GoOffline
    <2>1. Header' /\ QueueIDs'
        BY <1>0, <1>16, OpenHeader DEF GoOffline
    <2>2. holder = NoClient
        BY <1>0, <1>16 DEF GoOffline, BusyOK, MutexOK, TypeOK
    <2>3. mNextID' \in Nat /\ mNextID' # 0
        BY <1>0, ConstantsAssumption DEF TypeOK
    <2> QED BY <1>0, <1>16, <2>1, <2>2, <2>3 DEF GoOffline, clientVars
<1>17. CASE Crash
    <2>1. \A d \in CrashedDisks : Below(d.items, d.next)
        <3> SUFFICES ASSUME NEW d \in CrashedDisks PROVE Below(d.items, d.next)
            OBVIOUS
        <3>1. CASE d = disk
            BY <3>1 DEF Below, Header, HeaderAhead
        <3>2. CASE d = Synced /\ mStream.open
            BY <1>0, <3>2, SyncedAhead
        <3>3. CASE /\ mStream.open /\ holder # NoClient
                   /\ \E n \in 0..Len(NewItems) :
                         d = [Synced EXCEPT !.items = @ \o SubSeq(NewItems, 1, n)]
            <4>1. PICK n \in 0..Len(NewItems) :
                         d = [Synced EXCEPT !.items = @ \o SubSeq(NewItems, 1, n)]
                BY <3>3
            <4>2. /\ Synced.next = mNextID /\ Synced.items = disk.items
                  /\ Below(disk.items, mNextID)
                BY <1>0, <3>3, SyncedAhead
            <4>3. d.next = mNextID /\ d.items = disk.items \o SubSeq(NewItems, 1, n)
                BY <1>0, <4>1, <4>2, SyncedType
            <4>4. NewItems \in Seq(CMailAction) /\ Below(NewItems, mNextID)
                <5>1. /\ mStartRecord <= Len(actions) /\ mStartRecord \in Nat
                      /\ Below(actions, mNextID)
                    BY <1>0, <3>3 DEF StartOK, TypeOK, QueueIDs
                <5> QED BY <1>0, <5>1, Numbers, LenProperties, BelowStretch
                        DEF NewItems, QueueIDs
            <4>5. /\ SubSeq(NewItems, 1, n) \in Seq(CMailAction)
                  /\ Below(SubSeq(NewItems, 1, n), mNextID)
                BY <1>0, <4>4, BelowStretch
            <4> QED BY <1>0, <4>2, <4>3, <4>5, Numbers, BelowConcat
        <3>4. CASE phase = "removed" /\ \E n \in 0..Len(actions) :
                        d = [next |-> mNextID, items |-> SubSeq(actions, 1, n)]
            BY <1>0, <3>4, Numbers, BelowStretch DEF QueueIDs
        <3> QED BY <3>1, <3>2, <3>3, <3>4 DEF CrashedDisks
    <2> QED BY <1>0, <1>17, <2>1 DEF Crash, QueueIDs, Below, Header, HeaderOK, HeaderAhead, Nobody
<1>18. CASE Restart
    <2>1. holder = NoClient /\ ~ mStream.open /\ phase = "down"
        BY <1>0, <1>18 DEF Restart, BusyOK, MutexOK, ClosedOK, TypeOK
    <2>2. CASE phase' = "offline" /\ Open
        <3>1. Header' /\ QueueIDs'
            BY <1>0, <2>2, OpenHeader
        <3>2. mNextID' \in Nat /\ mNextID' # 0
            BY <1>0, ConstantsAssumption DEF TypeOK
        <3> QED BY <1>0, <1>18, <2>1, <2>2, <3>1, <3>2, Numbers DEF Restart, clientVars
    <2>3. CASE phase' = "online" /\ UNCHANGED <<actions, mNextID, fileVars>>
        BY <1>18, <2>1, <2>3 DEF Restart, clientVars, fileVars, QueueIDs, Header, HeaderOK, HeaderAhead
    <2> QED BY <1>18, <2>2, <2>3 DEF Restart
<1>19. CASE UNCHANGED vars
    BY <1>19 DEF vars, clientVars, recorderVars, fileVars, QueueIDs, Header, HeaderOK, HeaderAhead
<1> QED
    BY <1>1, <1>2, <1>3, <1>4, <1>5, <1>6, <1>7, <1>8, <1>9, <1>10, <1>11, <1>12,
       <1>13, <1>14, <1>15, <1>16, <1>17, <1>18, <1>19
    DEF Next, ClientStep, Playback

-----------------------------------------------------------------------------
(* Results.                                                                *)

(* The counter is past every ID in the queue, in the connections and in    *)
(* the file, whenever the file is the account's journal.                   *)
THEOREM IDsAreCounted == Spec => []Counted
<1>1. Init => Counted
    BY CountedInitially
<1>2. IInv /\ IInv' /\ Counted /\ [Next]_vars => Counted'
    BY CountedStep DEF IInv
<1> QED BY <1>1, <1>2, Invariance, PTL DEF Spec

(* Two connections never record under one session ID, and none under one   *)
(* that the counter may issue again (CActionRecorder::GetNextID).          *)
THEOREM IDsAreFresh == Spec => []FreshIDs
<1>1. Counted => FreshIDs
    BY DEF Counted, ClientIDs, Live, FreshIDs
<1> QED BY <1>1, IDsAreCounted, PTL

(* Whenever the process dies, the header it leaves in the file is past     *)
(* every session ID in it (GetNextID, StopRecording).                      *)
THEOREM HeaderIsAhead == Spec => []HeaderAhead
<1>1. Counted => HeaderAhead
    BY DEF Counted, Header
<1> QED BY <1>1, IDsAreCounted, PTL

-----------------------------------------------------------------------------
(* Sessions in a sequence of items.                                        *)

(* Item a opens or closes session i.                                       *)
Marks(a, i) == a.id = i /\ a.act \in {"Select", "Deselect"}

(* Before position k, session i has been opened on m and not closed since. *)
Opened(q, k, i, m) ==
    \E j \in DOMAIN q :
        /\ j < k
        /\ q[j].act = "Select" /\ q[j].id = i /\ q[j].mbox = m
        /\ \A n \in DOMAIN q : j < n /\ n < k => ~ Marks(q[n], i)

Unmarked(q, k, i) == \A n \in DOMAIN q : n < k => ~ Marks(q[n], i)

(* A change is in its session; or the session's Select has been played and *)
(* left a connection, or was refused and left none.                        *)
Placed(q, k, conns, ref) ==
    \/ Opened(q, k, q[k].id, q[k].mbox)
    \/ /\ Unmarked(q, k, q[k].id)
       /\ \/ conns[q[k].id] = q[k].mbox
          \/ q[k].id \in ref /\ conns[q[k].id] = NoMbox

Whole(q, conns, ref) ==
    \A k \in DOMAIN q : q[k].act \in MessageActs => Placed(q, k, conns, ref)

HasSelect(q, i) == \E k \in DOMAIN q : q[k].act = "Select" /\ q[k].id = i

Once(q) ==
    \A j, k \in DOMAIN q :
        q[j].act = "Select" /\ q[k].act = "Select" /\ q[j].id = q[k].id => j = k

-----------------------------------------------------------------------------
(* The invariant, by parts.                                                *)

Journals ==
    /\ Whole(actions, mConns, refused) /\ Once(actions)
    /\ Whole(disk.items, Nobody, refused) /\ Once(disk.items)
    /\ \A i \in IDs : mConns[i] # NoMbox => ~ HasSelect(actions, i)

(* The pending selects.                                                    *)
Awaiting ==
    /\ phase \in {"leaving", "down"} => mPendingSelect = Nobody
    /\ phase \in {"offline", "online"} =>
         \A i \in IDs : mPendingSelect[i] # NoMbox =>
             /\ i < mNextID
             /\ ~ HasSelect(actions, i)
             /\ ~ mStream.open => mStream.fail /\ disk.next <= i

(* A connection between taking a session ID and recording its Select.      *)
Selecting(c) == op[c].act = "Select" /\ step[c] \in {"selecting", "started"}

SelectingOK(c) ==
    LET r == mRecordID[c]
    IN  /\ phase = "offline"
        /\ op[c].mbox = mCurrent_mbox[c]
        /\ mPendingSelect[r] = NoMbox
        /\ ~ HasSelect(actions, r)
        /\ ~ mStream.open => mStream.fail /\ disk.next <= r

(* A connection with a mailbox selected has said so, or is about to.       *)
SelectedOK(c) ==
    LET r == mRecordID[c]
        m == mCurrent_mbox[c]
    IN  IF mPendingSelect[r] # NoMbox THEN mPendingSelect[r] = m
        ELSE Opened(actions, Len(actions) + 1, r, m)

ClientOK(c) ==
    /\ mCurrent_mbox[c] # NoMbox => mRecordID[c] # 0
    /\ phase \in {"online", "down"} => mCurrent_mbox[c] = NoMbox
    /\ step[c] = "selecting" => op[c].act = "Select"
    /\ step[c] = "started" => mCurrentID = mRecordID[c]
    /\ step[c] = "started" /\ op[c].act \in MessageActs =>
         phase = "offline" /\ op[c].mbox = mCurrent_mbox[c]
    /\ step[c] = "started" /\ phase = "leaving" => op[c].act = "Deselect"
    /\ Selecting(c) => SelectingOK(c)
    /\ phase = "offline" /\ mCurrent_mbox[c] # NoMbox /\ ~ Selecting(c) => SelectedOK(c)

Done == Len(disk.items) - Len(actions)

(* A playback has worked its way through the file, and needed a connection *)
(* for every change.                                                       *)
PlayedOK ==
    phase = "playing" =>
        /\ Done >= 0
        /\ \A k \in DOMAIN actions : actions[k] = disk.items[Done + k]
        /\ \A i \in IDs : mConns[i] # NoMbox =>
              \E j \in 1..Done : disk.items[j].act = "Select" /\ disk.items[j].id = i
        /\ \A k \in 1..Done : disk.items[k].act \in MessageActs =>
              Opened(disk.items, k, disk.items[k].id, disk.items[k].mbox)

InSessions == Journals /\ Awaiting /\ (\A c \in Clients : ClientOK(c)) /\ PlayedOK

-----------------------------------------------------------------------------
(* One more item.                                                          *)
Grown(q, t, n, a) ==
    /\ DOMAIN q = 1..n /\ DOMAIN t = 1..n + 1
    /\ (\A x \in 1..n : t[x] = q[x]) /\ t[n + 1] = a

(* Append adds one item.                                                   *)
LEMMA AppendGrows ==
    ASSUME NEW q \in Seq(CMailAction), NEW a \in CMailAction
    PROVE  Grown(q, Append(q, a), Len(q), a) /\ Len(q) \in Nat
           /\ Append(q, a) \in Seq(CMailAction) /\ Len(Append(q, a)) = Len(q) + 1
<1>1. /\ Append(q, a) \in Seq(CMailAction) /\ Len(Append(q, a)) = Len(q) + 1
      /\ \A x \in 1..Len(q) : Append(q, a)[x] = q[x]
      /\ Append(q, a)[Len(q) + 1] = a
    BY AppendProperties
<1>2. Len(q) \in Nat /\ DOMAIN q = 1..Len(q) /\ DOMAIN Append(q, a) = 1..Len(Append(q, a))
    BY <1>1, LenProperties
<1> QED BY <1>1, <1>2 DEF Grown

(* What is before it does not change.                                      *)
LEMMA GrownOpened ==
    ASSUME NEW q, NEW t, NEW n \in Nat, NEW a, Grown(q, t, n, a),
           NEW k \in 1..n + 1, NEW i, NEW m
    PROVE  /\ Opened(q, k, i, m) => Opened(t, k, i, m)
           /\ Unmarked(q, k, i) => Unmarked(t, k, i)
<1>1. Opened(q, k, i, m) => Opened(t, k, i, m)
    BY DEF Grown, Opened
<1>2. Unmarked(q, k, i) => Unmarked(t, k, i)
    BY DEF Grown, Unmarked
<1> QED BY <1>1, <1>2

(* A Select whose session had none is still the only one.                  *)
LEMMA GrownOnce ==
    ASSUME NEW q, NEW t, NEW n \in Nat, NEW a, Grown(q, t, n, a), Once(q),
           a.act = "Select" => ~ HasSelect(q, a.id)
    PROVE  Once(t)
BY DEF Grown, Once, HasSelect

(* The sessions that have a Select after an item is added.                 *)
LEMMA GrownSelect ==
    ASSUME NEW q, NEW t, NEW n \in Nat, NEW a, Grown(q, t, n, a), NEW i
    PROVE  HasSelect(t, i) <=> HasSelect(q, i) \/ (a.act = "Select" /\ a.id = i)
BY DEF Grown, HasSelect

(* A whole queue stays whole when the new item is in its place.            *)
LEMMA GrownWhole ==
    ASSUME NEW q, NEW t, NEW n \in Nat, NEW a, Grown(q, t, n, a), NEW conns, NEW ref,
           Whole(q, conns, ref),
           a.act \in MessageActs => Opened(q, n + 1, a.id, a.mbox)
    PROVE  Whole(t, conns, ref)
<1> SUFFICES ASSUME NEW k \in DOMAIN t, t[k].act \in MessageActs
             PROVE  Placed(t, k, conns, ref)
    BY DEF Whole
<1>1. k \in 1..n + 1 /\ DOMAIN q = 1..n
    BY DEF Grown
<1>2. CASE k = n + 1
    <2>1. t[k] = a
        BY <1>2 DEF Grown
    <2> QED BY <1>1, <1>2, <2>1, GrownOpened DEF Placed
<1>3. CASE k # n + 1
    <2>1. k \in DOMAIN q /\ t[k] = q[k]
        BY <1>1, <1>3 DEF Grown
    <2>2. Placed(q, k, conns, ref)
        BY <2>1 DEF Whole
    <2>3. /\ Opened(q, k, q[k].id, q[k].mbox) => Opened(t, k, q[k].id, q[k].mbox)
          /\ Unmarked(q, k, q[k].id) => Unmarked(t, k, q[k].id)
        BY <1>1, GrownOpened
    <2> QED BY <2>1, <2>2, <2>3 DEF Placed
<1> QED BY <1>2, <1>3

(* A session stays open unless the item marks it, and a Select opens one.  *)
LEMMA GrownEnd ==
    ASSUME NEW q, NEW t, NEW n \in Nat, NEW a, Grown(q, t, n, a), NEW i, NEW m
    PROVE  /\ Opened(q, n + 1, i, m) /\ ~ Marks(a, i) => Opened(t, n + 2, i, m)
           /\ a.act = "Select" /\ a.id = i /\ a.mbox = m => Opened(t, n + 2, i, m)
<1>1. ASSUME Opened(q, n + 1, i, m), ~ Marks(a, i)
      PROVE  Opened(t, n + 2, i, m)
    BY <1>1 DEF Grown, Opened
<1>2. ASSUME a.act = "Select", a.id = i, a.mbox = m
      PROVE  Opened(t, n + 2, i, m)
    <2>1. n + 1 \in DOMAIN t /\ n + 1 < n + 2 /\ t[n + 1] = a
        BY DEF Grown
    <2>2. \A x \in DOMAIN t : ~ (n + 1 < x /\ x < n + 2)
        BY DEF Grown
    <2> QED BY <1>2, <2>1, <2>2 DEF Opened
<1> QED BY <1>1, <1>2

-----------------------------------------------------------------------------
(* The beginning of a sequence.                                            *)
Begins(s, q, n, l) ==
    /\ DOMAIN s = 1..n /\ DOMAIN q = 1..l /\ n <= l
    /\ \A x \in 1..n : s[x] = q[x]

(* A prefix of a sequence has its first items.                             *)
LEMMA PrefixBegins ==
    ASSUME NEW q \in Seq(CMailAction), NEW n \in 0..Len(q)
    PROVE  Begins(SubSeq(q, 1, n), q, n, Len(q)) /\ Len(q) \in Nat /\ n \in Nat
<1>1. Len(q) \in Nat /\ DOMAIN q = 1..Len(q)
    BY LenProperties
<1>2. n \in Nat /\ n <= Len(q)
    BY <1>1
<1>3. \A x \in 1..n : q[x] \in CMailAction
    BY <1>1, <1>2, ElementOfSeq
<1>4. /\ SubSeq(q, 1, n) \in Seq(CMailAction) /\ Len(SubSeq(q, 1, n)) = n
      /\ \A x \in 1..n : SubSeq(q, 1, n)[x] = q[x]
    BY <1>1, <1>2, <1>3, SubSeqProperties
<1>5. DOMAIN SubSeq(q, 1, n) = 1..n
    BY <1>4, LenProperties
<1> QED BY <1>1, <1>2, <1>4, <1>5 DEF Begins

(* A prefix of a whole queue without connections is whole.                 *)
LEMMA BeginsWhole ==
    ASSUME NEW s, NEW q, NEW n \in Nat, NEW l \in Nat, Begins(s, q, n, l),
           NEW conns, NEW ref, Whole(q, conns, ref), Once(q)
    PROVE  Whole(s, conns, ref) /\ Once(s)
<1>1. Once(s)
    BY DEF Begins, Once
<1>2. ASSUME NEW k \in DOMAIN s, s[k].act \in MessageActs
      PROVE  Placed(s, k, conns, ref)
    <2>1. k \in DOMAIN q /\ s[k] = q[k]
        BY DEF Begins
    <2>2. Placed(q, k, conns, ref)
        BY <1>2, <2>1 DEF Whole
    <2>3. Opened(q, k, q[k].id, q[k].mbox) => Opened(s, k, q[k].id, q[k].mbox)
        BY DEF Begins, Opened
    <2>4. Unmarked(q, k, q[k].id) => Unmarked(s, k, q[k].id)
        BY DEF Begins, Unmarked
    <2> QED BY <2>1, <2>2, <2>3, <2>4 DEF Placed
<1> QED BY <1>1, <1>2 DEF Whole

-----------------------------------------------------------------------------
(* The first item is taken away.                                           *)
Shrunk(q, t, n, a) ==
    /\ DOMAIN q = 1..n + 1 /\ DOMAIN t = 1..n
    /\ (\A x \in 1..n : t[x] = q[x + 1]) /\ q[1] = a

(* The tail of a sequence has its items but the first.                     *)
LEMMA TailShrinks ==
    ASSUME NEW q \in Seq(CMailAction), q # << >>
    PROVE  \E n \in Nat : /\ Shrunk(q, Tail(q), n, Head(q))
                          /\ Len(q) = n + 1 /\ Len(Tail(q)) = n
<1>1. Len(q) \in Nat /\ Len(q) # 0 /\ DOMAIN q = 1..Len(q)
    BY LenProperties, EmptySeq
<1>2. /\ Head(q) = q[1] /\ Tail(q) \in Seq(CMailAction) /\ Len(Tail(q)) = Len(q) - 1
      /\ \A x \in 1..Len(q) - 1 : Tail(q)[x] = q[x + 1]
    BY HeadTailProperties
<1>3. DOMAIN Tail(q) = 1..Len(q) - 1
    BY <1>2, LenProperties
<1> DEFINE n == Len(q) - 1
<1>4. n \in Nat /\ n + 1 = Len(q)
    BY <1>1
<1> HIDE DEF n
<1>5. Len(q) - 1 = n
    BY DEF n
<1> QED BY <1>1, <1>2, <1>3, <1>4, <1>5 DEF Shrunk

(* The Select that leaves the queue was the only one of its session.       *)
LEMMA ShrunkOnce ==
    ASSUME NEW q, NEW t, NEW n \in Nat, NEW a, Shrunk(q, t, n, a), Once(q)
    PROVE  /\ Once(t)
           /\ \A i : ~ HasSelect(q, i) => ~ HasSelect(t, i)
           /\ a.act = "Select" => ~ HasSelect(t, a.id)
<1>1. Once(t)
    <2> SUFFICES ASSUME NEW j \in 1..n, NEW k \in 1..n,
                        t[j].act = "Select", t[k].act = "Select", t[j].id = t[k].id
                 PROVE  j = k
        BY DEF Once, Shrunk
    <2>1. /\ j + 1 \in DOMAIN q /\ k + 1 \in DOMAIN q
          /\ t[j] = q[j + 1] /\ t[k] = q[k + 1]
        BY DEF Shrunk
    <2>2. j + 1 = k + 1
        BY <2>1 DEF Once
    <2> QED BY <2>2
<1>2. ASSUME NEW i, HasSelect(t, i)
      PROVE  HasSelect(q, i) /\ (a.act = "Select" => a.id # i)
    <2>1. PICK k \in 1..n : t[k].act = "Select" /\ t[k].id = i
        BY <1>2 DEF HasSelect, Shrunk
    <2>2. k + 1 \in DOMAIN q /\ 1 \in DOMAIN q /\ t[k] = q[k + 1] /\ q[1] = a /\ k + 1 # 1
        BY DEF Shrunk
    <2> QED BY <2>1, <2>2 DEF Once, HasSelect
<1> QED BY <1>1, <1>2

(* A session is opened by what is left, by the item taken away, or by      *)
(* nothing there.                                                          *)
LEMMA ShrunkOpened ==
    ASSUME NEW q, NEW t, NEW n \in Nat, NEW a, Shrunk(q, t, n, a),
           NEW k \in 1..n, NEW i, NEW m
    PROVE  /\ Opened(q, k + 1, i, m) =>
                 \/ Opened(t, k, i, m)
                 \/ a.act = "Select" /\ a.id = i /\ a.mbox = m /\ Unmarked(t, k, i)
           /\ Unmarked(q, k + 1, i) => Unmarked(t, k, i) /\ ~ Marks(a, i)
<1>1. ASSUME Unmarked(q, k + 1, i)
      PROVE  Unmarked(t, k, i) /\ ~ Marks(a, i)
    <2>1. ASSUME NEW x \in DOMAIN t, x < k
          PROVE  ~ Marks(t[x], i)
        <3>1. x + 1 \in DOMAIN q /\ x + 1 < k + 1 /\ t[x] = q[x + 1]
            BY <2>1 DEF Shrunk
        <3> QED BY <1>1, <3>1 DEF Unmarked
    <2>2. 1 \in DOMAIN q /\ 1 < k + 1 /\ q[1] = a
        BY DEF Shrunk
    <2> QED BY <1>1, <2>1, <2>2 DEF Unmarked
<1>2. ASSUME Opened(q, k + 1, i, m)
      PROVE  \/ Opened(t, k, i, m)
             \/ a.act = "Select" /\ a.id = i /\ a.mbox = m /\ Unmarked(t, k, i)
    <2>1. PICK j \in DOMAIN q :
            /\ j < k + 1
            /\ q[j].act = "Select" /\ q[j].id = i /\ q[j].mbox = m
            /\ \A x \in DOMAIN q : j < x /\ x < k + 1 => ~ Marks(q[x], i)
        BY <1>2 DEF Opened
    <2>2. j \in 1..n + 1
        BY DEF Shrunk
    <2>3. ASSUME NEW x \in DOMAIN t, j - 1 < x, x < k
          PROVE  ~ Marks(t[x], i)
        <3>1. x + 1 \in DOMAIN q /\ j < x + 1 /\ x + 1 < k + 1 /\ t[x] = q[x + 1]
            BY <2>2, <2>3 DEF Shrunk
        <3> QED BY <2>1, <3>1
    <2>4. CASE j = 1
        <3>1. q[j] = a /\ \A x \in DOMAIN t : j - 1 < x
            BY <2>4 DEF Shrunk
        <3> QED BY <2>1, <2>3, <3>1 DEF Unmarked
    <2>5. CASE j # 1
        <3>1. j - 1 \in DOMAIN t /\ t[j - 1] = q[j] /\ j - 1 < k
            BY <2>1, <2>2, <2>5 DEF Shrunk
        <3> QED BY <2>1, <2>3, <3>1 DEF Opened
    <2> QED BY <2>4, <2>5
<1> QED BY <1>1, <1>2

(* The first item is played: a Select leaves a connection, or was refused  *)
(* and leaves none; what is no mark leaves connections as they are.        *)
LEMMA ShrunkWhole ==
    ASSUME NEW q, NEW t, NEW n \in Nat, NEW a, Shrunk(q, t, n, a),
           \A k \in DOMAIN q : q[k].id \in IDs,
           NEW conns, NEW ref, Whole(q, conns, ref), NEW conns2, NEW ref2,
           ref \subseteq ref2,
           \A i \in IDs : ~ Marks(a, i) => conns2[i] = conns[i],
           a.act = "Select" => \/ conns2[a.id] = a.mbox
                               \/ a.id \in ref2 /\ conns2[a.id] = NoMbox
    PROVE  Whole(t, conns2, ref2)
<1> SUFFICES ASSUME NEW k \in 1..n, t[k].act \in MessageActs
             PROVE  Placed(t, k, conns2, ref2)
    BY DEF Whole, Shrunk
<1>1. k + 1 \in DOMAIN q /\ t[k] = q[k + 1]
    BY DEF Shrunk
<1> DEFINE i == t[k].id
           m == t[k].mbox
<1>2. i \in IDs /\ q[k + 1].id = i /\ q[k + 1].mbox = m
    BY <1>1
<1>3. Placed(q, k + 1, conns, ref)
    BY <1>1 DEF Whole
<1>6. /\ Opened(q, k + 1, i, m) =>
            \/ Opened(t, k, i, m)
            \/ a.act = "Select" /\ a.id = i /\ a.mbox = m /\ Unmarked(t, k, i)
      /\ Unmarked(q, k + 1, i) => Unmarked(t, k, i) /\ ~ Marks(a, i)
    BY ShrunkOpened
<1>4. CASE Opened(q, k + 1, i, m)
    BY <1>4, <1>6 DEF Placed
<1>5. CASE Unmarked(q, k + 1, i)
    <2>1. Unmarked(t, k, i) /\ ~ Marks(a, i)
        BY <1>5, <1>6
    <2>2. Opened(q, k + 1, i, m) => Opened(t, k, i, m)
        BY <1>6, <2>1 DEF Marks
    <2>3. conns2[i] = conns[i]
        BY <1>2, <2>1
    <2> QED BY <1>2, <1>3, <2>1, <2>2, <2>3 DEF Placed
<1> QED BY <1>2, <1>3, <1>4, <1>5 DEF Placed

-----------------------------------------------------------------------------
(* An item is put in at position p.                                        *)
Widened(q, t, n, p, a) ==
    /\ DOMAIN q = 1..n /\ DOMAIN t = 1..n + 1 /\ p \in 1..n
    /\ \A x \in 1..p - 1 : t[x] = q[x]
    /\ t[p] = a
    /\ \A x \in p..n : t[x + 1] = q[x]

(* A prefix, an item and the rest is an item put in.                       *)
LEMMA InsertWidens ==
    ASSUME NEW q \in Seq(CMailAction), NEW a \in CMailAction, NEW p \in DOMAIN q
    PROVE  /\ Widened(q, SubSeq(q, 1, p - 1) \o <<a>> \o SubSeq(q, p, Len(q)), Len(q), p, a)
           /\ Len(q) \in Nat
<1> DEFINE n == Len(q)
           head == SubSeq(q, 1, p - 1)
           rest == SubSeq(q, p, n)
<1>1. n \in Nat /\ DOMAIN q = 1..n /\ p \in 1..n
    BY LenProperties
<1>2. \A x \in 1..n : q[x] \in CMailAction
    BY <1>1, ElementOfSeq
<1>3. /\ head \in Seq(CMailAction) /\ Len(head) = p - 1
      /\ \A x \in 1..p - 1 : head[x] = q[x]
    BY <1>1, <1>2, SubSeqProperties
<1>4. /\ rest \in Seq(CMailAction) /\ Len(rest) = n - p + 1
      /\ \A x \in 1..n - p + 1 : rest[x] = q[p + x - 1]
    BY <1>1, <1>2, SubSeqProperties
<1> HIDE DEF head, rest
<1> DEFINE front == Append(head, a)
<1>5. /\ front \in Seq(CMailAction) /\ Len(front) = p /\ front[p] = a
      /\ \A x \in 1..p - 1 : front[x] = q[x]
    BY <1>1, <1>3, AppendProperties
<1>6. head \o <<a>> = front
    BY <1>3, AppendIsConcat
<1> HIDE DEF front
<1>15. /\ Len(front \o rest) = Len(front) + Len(rest)
       /\ \A x \in 1..Len(front) + Len(rest) :
            (front \o rest)[x] = IF x <= Len(front) THEN front[x] ELSE rest[x - Len(front)]
    BY <1>4, <1>5, ConcatProperties
<1>7. /\ Len(front \o rest) = p + (n - p + 1)
      /\ \A x \in 1..p + (n - p + 1) :
            (front \o rest)[x] = IF x <= p THEN front[x] ELSE rest[x - p]
    BY <1>4, <1>5, <1>15
<1>8. front \o rest \in Seq(CMailAction)
    BY <1>4, <1>5, ConcatProperties
<1>9. DOMAIN (front \o rest) = 1..n + 1
    <2>1. p + (n - p + 1) = n + 1
        BY <1>1
    <2> QED BY <1>7, <1>8, <2>1, LenProperties
<1>10. p + (n - p + 1) = n + 1
    BY <1>1
<1>16. \A x \in 1..n + 1 :
           (front \o rest)[x] = IF x <= p THEN front[x] ELSE rest[x - p]
    BY <1>7, <1>10
<1>11. \A x \in 1..p - 1 : (front \o rest)[x] = q[x]
    BY <1>1, <1>5, <1>7, <1>10
<1>12. (front \o rest)[p] = a
    BY <1>1, <1>5, <1>7, <1>10
<1>13. ASSUME NEW x \in p..n
       PROVE  (front \o rest)[x + 1] = q[x]
    <2>1. PICK y \in Nat : y = x + 1
        BY <1>1
    <2>2. y \in 1..n + 1 /\ ~ (y <= p) /\ y - p \in 1..n - p + 1 /\ p + (y - p) - 1 = x
        BY <1>1, <2>1
    <2>3. (front \o rest)[y] = rest[y - p]
        BY <1>16, <2>2
    <2>4. rest[y - p] = q[x]
        BY <1>4, <2>2
    <2> QED BY <2>1, <2>3, <2>4
<1>14. Widened(q, front \o rest, n, p, a)
    BY <1>1, <1>9, <1>11, <1>12, <1>13 DEF Widened
<1> QED BY <1>1, <1>6, <1>14 DEF head, rest

(* The sessions that have a Select after an item is put in.                *)
LEMMA WidenedSelect ==
    ASSUME NEW q, NEW t, NEW n \in Nat, NEW p, NEW a, Widened(q, t, n, p, a), NEW i
    PROVE  HasSelect(t, i) <=> HasSelect(q, i) \/ (a.act = "Select" /\ a.id = i)
<1>1. ASSUME HasSelect(q, i)
      PROVE  HasSelect(t, i)
    <2>1. PICK x \in 1..n : q[x].act = "Select" /\ q[x].id = i
        BY <1>1 DEF HasSelect, Widened
    <2>2. CASE x < p
        <3>1. x \in DOMAIN t /\ t[x] = q[x]
            BY <2>2 DEF Widened
        <3> QED BY <2>1, <3>1 DEF HasSelect
    <2>3. CASE ~ (x < p)
        <3>1. x + 1 \in DOMAIN t /\ t[x + 1] = q[x]
            BY <2>3 DEF Widened
        <3> QED BY <2>1, <3>1 DEF HasSelect
    <2> QED BY <2>2, <2>3
<1>2. ASSUME a.act = "Select", a.id = i
      PROVE  HasSelect(t, i)
    <2>1. p \in DOMAIN t /\ t[p] = a
        BY DEF Widened
    <2> QED BY <1>2, <2>1 DEF HasSelect
<1>3. ASSUME HasSelect(t, i)
      PROVE  HasSelect(q, i) \/ (a.act = "Select" /\ a.id = i)
    <2>1. PICK x \in 1..n + 1 : t[x].act = "Select" /\ t[x].id = i
        BY <1>3 DEF HasSelect, Widened
    <2>2. CASE x < p
        <3>1. x \in DOMAIN q /\ t[x] = q[x]
            BY <2>2 DEF Widened
        <3> QED BY <2>1, <3>1 DEF HasSelect
    <2>3. CASE x = p
        BY <2>1, <2>3 DEF Widened
    <2>4. CASE x > p
        <3>1. x - 1 \in DOMAIN q /\ t[x] = q[x - 1]
            <4>1. x - 1 \in p..n /\ (x - 1) + 1 = x
                BY <2>4 DEF Widened
            <4> QED BY <4>1 DEF Widened
        <3> QED BY <2>1, <3>1 DEF HasSelect
    <2>5. x < p \/ x = p \/ x > p
        BY DEF Widened
    <2> QED BY <2>2, <2>3, <2>4, <2>5
<1> QED BY <1>1, <1>2, <1>3

(* A Select put in where its session had none is the only one.             *)
LEMMA WidenedOnce ==
    ASSUME NEW q, NEW t, NEW n \in Nat, NEW p, NEW a, Widened(q, t, n, p, a), Once(q),
           ~ HasSelect(q, a.id)
    PROVE  Once(t)
<1> DEFINE old(x) == IF x < p THEN x ELSE x - 1
<1>1. ASSUME NEW x \in 1..n + 1, x # p
      PROVE  old(x) \in DOMAIN q /\ t[x] = q[old(x)]
    <2>1. CASE x < p
        BY <1>1, <2>1 DEF Widened
    <2>2. CASE x > p
        <3>1. x - 1 \in p..n /\ (x - 1) + 1 = x /\ ~ (x < p)
            BY <1>1, <2>2 DEF Widened
        <3> QED BY <3>1 DEF Widened
    <2> QED BY <1>1, <2>1, <2>2 DEF Widened
<1> SUFFICES ASSUME NEW j \in 1..n + 1, NEW k \in 1..n + 1,
                    t[j].act = "Select", t[k].act = "Select", t[j].id = t[k].id
             PROVE  j = k
    BY DEF Once, Widened
<1>2. CASE j # p /\ k # p
    <2>1. old(j) = old(k)
        BY <1>1, <1>2 DEF Once
    <2> QED BY <1>2, <2>1 DEF Widened
<1>3. CASE j = p /\ k # p
    <2>1. t[j] = a
        BY <1>3 DEF Widened
    <2> QED BY <1>1, <1>3, <2>1 DEF HasSelect
<1>4. CASE j # p /\ k = p
    <2>1. t[k] = a
        BY <1>4 DEF Widened
    <2> QED BY <1>1, <1>4, <2>1 DEF HasSelect
<1> QED BY <1>2, <1>3, <1>4

(* A Select before the first item of a session whose connection goes.      *)
LEMMA WidenedWhole ==
    ASSUME NEW q, NEW t, NEW n \in Nat, NEW p, NEW a, Widened(q, t, n, p, a),
           NEW conns, NEW conns2, NEW ref, Whole(q, conns, ref),
           a.act = "Select", a.mbox = conns[a.id], a.mbox # NoMbox,
           ~ HasSelect(q, a.id),
           \A k \in DOMAIN q : k < p => q[k].id # a.id,
           \A k \in DOMAIN q : q[k].id # a.id => conns2[q[k].id] = conns[q[k].id]
    PROVE  Whole(t, conns2, ref)
<1> SUFFICES ASSUME NEW k \in 1..n + 1, t[k].act \in MessageActs
             PROVE  Placed(t, k, conns2, ref)
    BY DEF Whole, Widened
<1>0. p \in 1..n /\ DOMAIN q = 1..n /\ DOMAIN t = 1..n + 1 /\ t[p] = a
    BY DEF Widened
<1>1. k # p
    BY <1>0, ConstantsAssumption DEF Structural
<1>2. CASE k < p
    <2>1. k \in DOMAIN q /\ t[k] = q[k] /\ q[k].id # a.id
        BY <1>0, <1>2 DEF Widened
    <2>2. Placed(q, k, conns, ref)
        BY <2>1 DEF Whole
    <2>3. Opened(q, k, q[k].id, q[k].mbox) => Opened(t, k, q[k].id, q[k].mbox)
        BY <1>2 DEF Widened, Opened
    <2>4. Unmarked(q, k, q[k].id) => Unmarked(t, k, q[k].id)
        BY <1>2 DEF Widened, Unmarked
    <2> QED BY <2>1, <2>2, <2>3, <2>4 DEF Placed
<1>3. CASE k > p
    <2> DEFINE h == k - 1
               i == q[h].id
               m == q[h].mbox
    <2>1. h \in p..n /\ h + 1 = k /\ t[k] = q[h] /\ h \in DOMAIN q
        <3>1. h \in p..n /\ h + 1 = k
            BY <1>0, <1>3
        <3> QED BY <1>0, <3>1 DEF Widened
    <2>2. Placed(q, h, conns, ref)
        BY <2>1 DEF Whole
    <2> HIDE DEF h
    <2>3. ASSUME NEW x \in DOMAIN t, x < k, x # p, NEW j
          PROVE  \E y \in DOMAIN q : /\ t[x] = q[y] /\ y < h
                                     /\ x < p => y = x
                                     /\ x > p => y = x - 1
        <3>1. CASE x < p
            <4>1. x \in DOMAIN q /\ t[x] = q[x] /\ x < h /\ ~ (x > p)
                BY <1>0, <2>1, <3>1 DEF Widened
            <4> QED BY <4>1
        <3>2. CASE x > p
            <4>1. x - 1 \in p..n /\ (x - 1) + 1 = x /\ x - 1 < h /\ ~ (x < p)
                BY <1>0, <2>1, <2>3, <3>2
            <4>2. x - 1 \in DOMAIN q /\ t[x] = q[x - 1]
                BY <1>0, <4>1 DEF Widened
            <4> QED BY <4>1, <4>2
        <3> QED BY <1>0, <2>3, <3>1, <3>2
    <2>4. CASE i = a.id
        <3>1. ~ Opened(q, h, i, m)
            BY <2>4 DEF Opened, HasSelect
        <3>2. Unmarked(q, h, i) /\ (conns[i] = m \/ conns[i] = NoMbox)
            BY <2>2, <3>1 DEF Placed
        <3>3. a.mbox = m
            BY <2>4, <3>2
        <3>4. \A x \in DOMAIN t : p < x /\ x < k => ~ Marks(t[x], i)
            BY <1>0, <2>1, <2>3, <3>2 DEF Unmarked
        <3>5. p \in DOMAIN t /\ p < k
            BY <1>0, <1>3
        <3> QED BY <1>0, <2>1, <2>4, <3>3, <3>4, <3>5 DEF Placed, Opened
    <2>5. CASE i # a.id
        <3>0. ~ Marks(a, i) /\ conns2[i] = conns[i]
            BY <2>1, <2>5 DEF Marks
        <3>1. ASSUME Unmarked(q, h, i)
              PROVE  Unmarked(t, k, i)
            <4>1. ASSUME NEW x \in DOMAIN t, x < k
                  PROVE  ~ Marks(t[x], i)
                <5>1. CASE x = p
                    BY <1>0, <3>0, <5>1
                <5>2. CASE x # p
                    BY <2>3, <3>1, <4>1, <5>2 DEF Unmarked
                <5> QED BY <5>1, <5>2
            <4> QED BY <4>1 DEF Unmarked
        <3>2. ASSUME Opened(q, h, i, m)
              PROVE  Opened(t, k, i, m)
            <4>1. PICK j \in 1..n :
                    /\ j < h
                    /\ q[j].act = "Select" /\ q[j].id = i /\ q[j].mbox = m
                    /\ \A x \in DOMAIN q : j < x /\ x < h => ~ Marks(q[x], i)
                BY <1>0, <3>2 DEF Opened
            <4> DEFINE g == IF j < p THEN j ELSE j + 1
            <4>2. g \in DOMAIN t /\ t[g] = q[j] /\ g < k
                <5>1. CASE j < p
                    BY <1>0, <1>3, <2>1, <4>1, <5>1 DEF Widened
                <5>2. CASE ~ (j < p)
                    <6>1. j \in p..n /\ j + 1 \in 1..n + 1 /\ j + 1 < k
                        BY <1>0, <2>1, <4>1, <5>2
                    <6> QED BY <1>0, <5>2, <6>1 DEF Widened
                <5> QED BY <5>1, <5>2
            <4>3. ASSUME NEW x \in DOMAIN t, g < x, x < k
                  PROVE  ~ Marks(t[x], i)
                <5>1. CASE x = p
                    BY <1>0, <3>0, <5>1
                <5>2. CASE x # p
                    <6>1. PICK y \in DOMAIN q : /\ t[x] = q[y] /\ y < h
                                                /\ x < p => y = x
                                                /\ x > p => y = x - 1
                        BY <2>3, <4>3, <5>2
                    <6>2. j < y
                        BY <1>0, <4>3, <5>2, <6>1
                    <6> QED BY <4>1, <6>1, <6>2
                <5> QED BY <5>1, <5>2
            <4> HIDE DEF g
            <4> QED BY <4>1, <4>2, <4>3 DEF Opened
        <3> QED BY <2>1, <2>2, <3>0, <3>1, <3>2 DEF Placed
    <2> QED BY <2>4, <2>5
<1>4. k < p \/ k = p \/ k > p
    BY <1>0
<1> QED BY <1>1, <1>2, <1>3, <1>4

(* A connection goes that nothing left belongs to.                         *)
LEMMA SameWhole ==
    ASSUME NEW q, NEW conns, NEW conns2, NEW ref, Whole(q, conns, ref),
           \A k \in DOMAIN q : conns2[q[k].id] = conns[q[k].id]
    PROVE  Whole(q, conns2, ref)
BY DEF Whole, Placed

(* The least of some numbers.                                              *)
LEMMA Least ==
    ASSUME NEW T \in SUBSET Nat, T # {}
    PROVE  \E x \in T : \A y \in T : x <= y
<1> DEFINE R == {ss \in Nat \X Nat : ss[1] < ss[2]}
<1>1. IsWellFoundedOn(R, Nat)
    BY NatLessThanWellFounded DEF OpToRel
<1> HIDE DEF R
<1>2. \E x \in T : \A y \in T : ~ (<<y, x>> \in R)
    BY <1>1, WFMin
<1>3. \A x, y \in Nat : ~ (<<y, x>> \in R) => x <= y
    BY DEF R
<1> QED BY <1>2, <1>3

(* A change that is placed, with no refusal and no connection in the way,  *)
(* is in its session as SessionsWhole means it.                            *)
LEMMA PlacedInSession ==
    ASSUME NEW q, NEW n \in Nat, DOMAIN q = 1..n, NEW k \in 1..n, NEW conns, NEW ref,
           Placed(q, k, conns, ref), q[k].id \notin ref
    PROVE  InSession(q, k, conns)
<1> DEFINE i == q[k].id
           m == q[k].mbox
           between(j) == {x \in j + 1 .. k - 1 :
                            q[x].id = q[k].id /\ q[x].act \in {"Select", "Deselect"}}
<1>1. CASE Opened(q, k, i, m)
    <2>1. PICK j \in 1..n :
            /\ j < k
            /\ q[j].act = "Select" /\ q[j].id = i /\ q[j].mbox = m
            /\ \A x \in DOMAIN q : j < x /\ x < k => ~ Marks(q[x], i)
        BY <1>1 DEF Opened
    <2>2. j \in 1..k - 1
        BY <2>1
    <2>3. between(j) = {}
        <3> SUFFICES ASSUME NEW x \in between(j) PROVE FALSE
            OBVIOUS
        <3>1. x \in DOMAIN q /\ j < x /\ x < k
            BY <2>2
        <3> QED BY <2>1, <3>1 DEF Marks
    <2> QED BY <2>1, <2>2, <2>3 DEF InSession
<1>2. CASE Unmarked(q, k, i) /\ conns[i] = m
    <2>1. between(0) = {}
        <3> SUFFICES ASSUME NEW x \in between(0) PROVE FALSE
            OBVIOUS
        <3>1. x \in DOMAIN q /\ x < k
            OBVIOUS
        <3> QED BY <1>2, <3>1 DEF Marks, Unmarked
    <2> QED BY <1>2, <2>1 DEF InSession
<1> QED BY <1>1, <1>2 DEF Placed

-----------------------------------------------------------------------------
(* Recording.                                                              *)

(* One item is pushed.                                                     *)
LEMMA Pushed ==
    ASSUME NEW q \in Seq(CMailAction), NEW a \in CMailAction, NEW conns, NEW ref,
           Whole(q, conns, ref), Once(q),
           a.act \in MessageActs => Opened(q, Len(q) + 1, a.id, a.mbox),
           a.act = "Select" => ~ HasSelect(q, a.id)
    PROVE  /\ Append(q, a) \in Seq(CMailAction)
           /\ Whole(Append(q, a), conns, ref) /\ Once(Append(q, a))
           /\ \A i : HasSelect(Append(q, a), i) =>
                       HasSelect(q, i) \/ (a.act = "Select" /\ a.id = i)
           /\ \A i, m : Opened(q, Len(q) + 1, i, m) /\ ~ Marks(a, i) =>
                          Opened(Append(q, a), Len(Append(q, a)) + 1, i, m)
           /\ a.act = "Select" => Opened(Append(q, a), Len(Append(q, a)) + 1, a.id, a.mbox)
<1> DEFINE t == Append(q, a)
           n == Len(q)
<1>1. Grown(q, t, n, a) /\ n \in Nat /\ t \in Seq(CMailAction) /\ Len(t) = n + 1
    BY AppendGrows
<1> HIDE DEF t, n
<1>2. n = Len(q)
    BY DEF n
<1>3. Whole(t, conns, ref) /\ Once(t)
    BY <1>1, <1>2, GrownWhole, GrownOnce
<1>4. \A i : HasSelect(t, i) => HasSelect(q, i) \/ (a.act = "Select" /\ a.id = i)
    BY <1>1, GrownSelect
<1>5. Len(t) + 1 = n + 2
    BY <1>1
<1>6. \A i, m : Opened(q, n + 1, i, m) /\ ~ Marks(a, i) => Opened(t, n + 2, i, m)
    BY <1>1, GrownEnd
<1>7. a.act = "Select" => Opened(t, n + 2, a.id, a.mbox)
    BY <1>1, GrownEnd
<1> QED BY <1>1, <1>2, <1>3, <1>4, <1>5, <1>6, <1>7 DEF t

(* What recording does to the queue, to the other sessions in it and to    *)
(* the connection's own.                                                   *)
LEMMA RecordQueue ==
    ASSUME IInv, InSessions, NEW c \in Clients, Record(c)
    PROVE  LET r == mCurrentID
               m == mCurrent_mbox[c]
           IN  /\ Whole(actions', mConns, refused) /\ Once(actions')
               /\ \A i : HasSelect(actions', i) =>
                    HasSelect(actions, i) \/ (i = r /\ mPendingSelect'[r] = NoMbox)
               /\ \A i, b : i # r /\ Opened(actions, Len(actions) + 1, i, b) =>
                    Opened(actions', Len(actions') + 1, i, b)
               /\ phase = "offline" /\ mCurrent_mbox'[c] # NoMbox =>
                    IF mPendingSelect'[r] # NoMbox THEN mPendingSelect'[r] = m
                    ELSE Opened(actions', Len(actions') + 1, r, m)
<1> DEFINE r == mCurrentID
           m == mCurrent_mbox[c]
           o == op[c]
           last == Item(o.act, o.mbox)
           sel == Item("Select", mPendingSelect[r])
<1>1. /\ TypeOK /\ actions \in Seq(CMailAction) /\ r \in IDs /\ o \in Ops
      /\ step[c] = "started" /\ phase \in {"offline", "leaving"}
    BY DEF IInv, TypeOK, Record, OpOK, BusyOK
<1>2. /\ ClientOK(c) /\ r = mRecordID[c]
      /\ Whole(actions, mConns, refused) /\ Once(actions)
    BY <1>1 DEF InSessions, Journals, ClientOK
<1>3. o.act # "Select" /\ phase = "offline" /\ m # NoMbox => SelectedOK(c)
    BY <1>2 DEF ClientOK, Selecting
<1>4. /\ last \in CMailAction /\ last.act = o.act /\ last.id = r /\ last.mbox = o.mbox
    BY <1>1, ItemType DEF Item
<1>5. Pending => /\ sel \in CMailAction /\ sel.act = "Select" /\ sel.id = r
                 /\ sel.mbox = mPendingSelect[r] /\ mPendingSelect[r] # NoMbox
    BY <1>1, ItemType DEF Item, Pending, TypeOK
<1>6. DropPending => mPendingSelect'[r] = NoMbox
    BY <1>1 DEF DropPending, TypeOK
<1>7. "Select" \notin MessageActs \cup MailboxActs /\ "Deselect" \notin MessageActs \cup MailboxActs
      /\ "Append" \notin MessageActs \cup MailboxActs
    BY ConstantsAssumption DEF Structural
<1>8. CASE o.act = "Select" /\ RecordSelect(o.mbox)
    <2>1. SelectingOK(c)
        BY <1>1, <1>2, <1>8 DEF ClientOK, Selecting
    <2>2. ~ Pending
        BY <1>2, <2>1 DEF SelectingOK, Pending
    <2>3. /\ actions' = actions /\ mCurrent_mbox' = mCurrent_mbox
          /\ mPendingSelect'[r] = o.mbox
        BY <1>1, <1>8, <2>2 DEF RecordSelect, TypeOK
    <2>4. o.mbox = m
        BY <2>1 DEF SelectingOK
    <2> QED BY <1>1, <1>2, <2>3, <2>4
<1>9. CASE o.act = "Deselect" /\ RecordDeselect(c, o.mbox)
    <2>1. mCurrent_mbox'[c] = NoMbox
        BY <1>1, <1>9 DEF RecordDeselect, TypeOK
    <2>2. CASE actions' = actions
        BY <1>2, <2>1, <2>2
    <2>3. CASE actions' = Append(actions, last)
        <3>1. last.act \notin MessageActs /\ last.act # "Select"
            BY <1>4, <1>7, <1>9
        <3> HIDE DEF last
        <3> QED BY <1>1, <1>2, <1>4, <2>1, <2>3, <3>1, Pushed DEF Marks
    <2> QED BY <1>9, <2>2, <2>3 DEF RecordDeselect
<1>10. CASE o.act \in MailboxActs /\ RecordMailboxAction(o)
    <2>1. actions' = Append(actions, last) /\ UNCHANGED <<mPendingSelect, mCurrent_mbox>>
        BY <1>10 DEF RecordMailboxAction
    <2>2. /\ last.act \notin MessageActs
          /\ last.act # "Select" /\ last.act # "Deselect" /\ o.act # "Select"
        BY <1>4, <1>7, <1>10, ConstantsAssumption
    <2> HIDE DEF last
    <2>3. /\ Whole(actions', mConns, refused) /\ Once(actions')
          /\ \A i : HasSelect(actions', i) => HasSelect(actions, i)
          /\ \A i, b : Opened(actions, Len(actions) + 1, i, b) =>
                         Opened(actions', Len(actions') + 1, i, b)
        BY <1>1, <1>2, <1>4, <2>1, <2>2, Pushed DEF Marks
    <2> QED BY <1>2, <1>3, <2>1, <2>2, <2>3 DEF SelectedOK
<1>11. CASE o.act \in MessageActs \cup {"Append"} /\ RecordMessageAction(o)
    <2>1. mPendingSelect'[r] = NoMbox /\ mCurrent_mbox' = mCurrent_mbox
        BY <1>6, <1>11 DEF RecordMessageAction
    <2>2. phase = "offline" /\ (o.act \in MessageActs => o.mbox = m /\ m # NoMbox)
        <3>1. o.act # "Deselect" /\ o.act # "Select"
            BY <1>7, <1>11
        <3>2. o.act \in MessageActs => o.mbox \in Mailboxes
            BY <1>1, ConstantsAssumption DEF Ops, OnMailbox, Elsewhere, Structural
        <3> QED BY <1>1, <1>2, <3>1, <3>2, ConstantsAssumption DEF ClientOK
    <2>3. last.act # "Select" /\ ~ Marks(last, r) /\ o.act # "Select"
        BY <1>4, <1>7, <1>11 DEF Marks
    <2>4. CASE ~ Pending
        <3>1. actions' = Append(actions, last)
            BY <1>1, <1>4, <1>11, <2>4, AppendIsConcat DEF RecordMessageAction
        <3>2. m # NoMbox => Opened(actions, Len(actions) + 1, r, m)
            BY <1>2, <1>3, <2>2, <2>3, <2>4 DEF SelectedOK, Pending
        <3> HIDE DEF last
        <3>3. last.act \in MessageActs => Opened(actions, Len(actions) + 1, last.id, last.mbox)
            BY <1>4, <2>2, <3>2
        <3>4. /\ Whole(actions', mConns, refused) /\ Once(actions')
              /\ \A i : HasSelect(actions', i) => HasSelect(actions, i)
              /\ \A i, b : Opened(actions, Len(actions) + 1, i, b) /\ ~ Marks(last, i) =>
                             Opened(actions', Len(actions') + 1, i, b)
            BY <1>1, <1>2, <1>4, <2>3, <3>1, <3>3, Pushed
        <3> QED BY <1>4, <2>1, <2>3, <3>2, <3>4 DEF Marks
    <2>5. CASE Pending
        <3> DEFINE q == Append(actions, sel)
        <3>1. sel \in CMailAction /\ ~ HasSelect(actions, sel.id)
            BY <1>1, <1>5, <2>2, <2>5 DEF InSessions, Awaiting
        <3> HIDE DEF sel
        <3>2. /\ q \in Seq(CMailAction)
              /\ Whole(q, mConns, refused) /\ Once(q)
              /\ \A i : HasSelect(q, i) => HasSelect(actions, i) \/ (sel.act = "Select" /\ sel.id = i)
              /\ \A i, b : Opened(actions, Len(actions) + 1, i, b) /\ ~ Marks(sel, i) =>
                             Opened(q, Len(q) + 1, i, b)
              /\ sel.act = "Select" => Opened(q, Len(q) + 1, sel.id, sel.mbox)
            BY <1>1, <1>2, <1>5, <1>7, <2>5, <3>1, Pushed
        <3>3. actions' = Append(q, last)
            <4>1. actions' = q \o <<last>>
                BY <1>11, <2>5 DEF RecordMessageAction, sel
            <4> QED BY <1>4, <3>2, <4>1, AppendIsConcat
        <3>4. m # NoMbox => mPendingSelect[r] = m
            BY <1>2, <1>3, <1>5, <2>2, <2>3, <2>5 DEF SelectedOK
        <3>5. m # NoMbox => Opened(q, Len(q) + 1, r, m)
            BY <1>5, <2>5, <3>2, <3>4
        <3> HIDE DEF q, last
        <3>6. last.act \in MessageActs => Opened(q, Len(q) + 1, last.id, last.mbox)
            BY <1>4, <2>2, <3>5
        <3>7. /\ Whole(actions', mConns, refused) /\ Once(actions')
              /\ \A i : HasSelect(actions', i) => HasSelect(q, i)
              /\ \A i, b : Opened(q, Len(q) + 1, i, b) /\ ~ Marks(last, i) =>
                             Opened(actions', Len(actions') + 1, i, b)
            BY <1>4, <2>3, <3>2, <3>3, <3>6, Pushed
        <3>8. \A i : HasSelect(actions', i) => HasSelect(actions, i) \/ i = r
            BY <1>5, <2>5, <3>2, <3>7
        <3>9. \A i, b : i # r /\ Opened(actions, Len(actions) + 1, i, b) =>
                          Opened(actions', Len(actions') + 1, i, b)
            BY <1>4, <1>5, <2>5, <3>2, <3>7 DEF Marks
        <3>10. m # NoMbox => Opened(actions', Len(actions') + 1, r, m)
            BY <2>3, <3>5, <3>7
        <3> QED BY <2>1, <3>7, <3>8, <3>9, <3>10
    <2> QED BY <2>4, <2>5
<1> QED BY <1>8, <1>9, <1>10, <1>11 DEF Record

-----------------------------------------------------------------------------
(* The steps.                                                              *)

(* Outside a playback nothing is connected.                                *)
LEMMA NoConnections ==
    ASSUME TypeOK, ConnIDs, phase \notin {"playing", "recovering"}
    PROVE  mConns = Nobody
BY DEF TypeOK, ConnIDs, Nobody

(* Nobody waits when all selects are recorded or forgotten.                *)
LEMMA NobodyWaits == \A i \in IDs : Nobody[i] = NoMbox
BY DEF Nobody

(* There is nothing wrong with no items.                                   *)
LEMMA EmptyWhole ==
    \A conns, ref : Whole(<< >>, conns, ref) /\ Once(<< >>)
                    /\ \A i : ~ HasSelect(<< >>, i)
BY DEF Whole, Once, HasSelect

(* Connections that are idle, and may have something selected only when    *)
(* they cannot record.                                                     *)
LEMMA IdleClients ==
    ASSUME \A c \in Clients : step'[c] = "idle",
           \A c \in Clients : mCurrent_mbox'[c] # NoMbox =>
               mRecordID'[c] # 0 /\ phase' \notin {"offline", "online", "down"}
    PROVE  \A c \in Clients : ClientOK(c)'
BY DEF ClientOK, Selecting

(* A new ID: the counter grows, the items stay, a closed stream fails.     *)
LEMMA BumpIDKeeps ==
    ASSUME TypeOK, BumpID
    PROVE  /\ mNextID' = mNextID + 1 /\ mNextID \in IDs /\ mNextID # 0
           /\ disk'.items = disk.items /\ mStream'.open = mStream.open
           /\ ~ mStream.open => mStream'.fail /\ disk' = disk
<1>1. mNextID \in IDs /\ mNextID # 0
    BY ConstantsAssumption DEF TypeOK, IDs
<1>2. ~ mStream.open => mStream'.fail /\ disk' = disk
    BY DEF BumpID, TypeOK
<1> QED BY <1>1, <1>2, BumpIDType DEF BumpID

(* Opening the file: the queue is what is in it.                           *)
LEMMA OpenKeeps ==
    ASSUME IInv, Open, holder = NoClient, phase \in {"offline", "online"}
    PROVE  disk'.items = disk.items /\ actions' = disk.items
BY OpenType DEF IInv, Journaled

(* SelectMbox.                                                             *)
LEMMA SelectMboxSessions ==
    ASSUME IInv, Counted, InSessions, NEW c \in Clients, NEW m \in Mailboxes, SelectMbox(c, m)
    PROVE  InSessions'
<1>0. /\ TypeOK /\ phase = "offline" /\ phase' = phase /\ step[c] = "idle" /\ holder = NoClient
      /\ UNCHANGED <<holder, actions, mPendingSelect, mConns, refused, mCurrentID>>
    BY DEF SelectMbox, IInv
<1>1. /\ mNextID' = mNextID + 1 /\ mNextID \in IDs /\ mNextID # 0
      /\ disk'.items = disk.items /\ mStream'.open = mStream.open
      /\ ~ mStream.open => mStream'.fail /\ disk' = disk
    BY <1>0, BumpIDKeeps DEF SelectMbox
<1>2. Journals'
    BY <1>0, <1>1 DEF InSessions, Journals
<1>3. Awaiting'
    BY <1>0, <1>1, Numbers DEF InSessions, Awaiting
<1>4. PlayedOK'
    BY <1>0 DEF PlayedOK
<1>5. ASSUME NEW d \in Clients
      PROVE  ClientOK(d)'
    <2>1. CASE d = c
        <3>1. /\ mRecordID'[c] = mNextID /\ mCurrent_mbox'[c] = m /\ step'[c] = "selecting"
              /\ op'[c] = [act |-> "Select", mbox |-> m]
            BY <1>0 DEF SelectMbox, TypeOK
        <3>2. mPendingSelect[mNextID] = NoMbox
            BY <1>0, <1>1, Numbers DEF InSessions, Awaiting
        <3>3. ~ HasSelect(actions, mNextID)
            BY <1>0, <1>1, Numbers DEF Counted, QueueIDs, Live, Below, HasSelect
        <3>4. ~ mStream.open => disk.next <= mNextID
            BY <1>0 DEF Counted, Header, HeaderOK
        <3>5. SelectingOK(c)'
            BY <1>0, <1>1, <3>1, <3>2, <3>3, <3>4 DEF SelectingOK
        <3> QED BY <1>0, <1>1, <2>1, <3>1, <3>5 DEF ClientOK, Selecting
    <2>2. CASE d # c
        <3>1. /\ mRecordID'[d] = mRecordID[d] /\ mCurrent_mbox'[d] = mCurrent_mbox[d]
              /\ step'[d] = step[d] /\ op'[d] = op[d]
            BY <1>0, <2>2 DEF SelectMbox, TypeOK
        <3>2. ClientOK(d)
            BY DEF InSessions
        <3>3. SelectingOK(d) => SelectingOK(d)'
            BY <1>0, <1>1, <3>1 DEF SelectingOK
        <3>4. SelectedOK(d) => SelectedOK(d)'
            BY <1>0, <3>1 DEF SelectedOK
        <3> QED BY <1>0, <3>1, <3>2, <3>3, <3>4 DEF ClientOK, Selecting
    <2> QED BY <2>1, <2>2
<1> QED BY <1>2, <1>3, <1>4, <1>5 DEF InSessions

(* Steps of a connection on its own: nothing recorded changes.             *)
LEMMA AloneSessions ==
    ASSUME IInv, InSessions, NEW c \in Clients,
           SelectTimedOut(c) \/ ForgetTimedOut(c) \/ Forceoff(c)
    PROVE  InSessions'
<1>0. /\ TypeOK /\ UNCHANGED <<holder, recorderVars, fileVars, phase, mConns, refused>>
      /\ phase \in {"offline", "leaving"} \/ step[c] # "idle"
    BY DEF IInv, SelectTimedOut, ForgetTimedOut, Forceoff
<1>1. phase \in {"offline", "leaving"}
    BY <1>0 DEF IInv, BusyOK
<1>2. Journals' /\ Awaiting' /\ PlayedOK'
    BY <1>0, <1>1 DEF InSessions, Journals, Awaiting, PlayedOK, recorderVars, fileVars
<1>3. ASSUME NEW d \in Clients
      PROVE  ClientOK(d)'
    <2>1. ClientOK(d)
        BY DEF InSessions
    <2>2. CASE d = c
        <3>1. mCurrent_mbox'[c] = NoMbox /\ step'[c] = "idle"
            BY <1>0 DEF SelectTimedOut, ForgetTimedOut, Forceoff, TypeOK
        <3> QED BY <1>0, <1>1, <2>2, <3>1 DEF ClientOK, Selecting
    <2>3. CASE d # c
        <3>1. /\ mRecordID'[d] = mRecordID[d] /\ mCurrent_mbox'[d] = mCurrent_mbox[d]
              /\ step'[d] = step[d] /\ op'[d] = op[d]
            BY <1>0, <2>3 DEF SelectTimedOut, ForgetTimedOut, Forceoff, TypeOK
        <3>2. SelectingOK(d) => SelectingOK(d)'
            BY <1>0, <3>1 DEF SelectingOK, recorderVars, fileVars
        <3>3. SelectedOK(d) => SelectedOK(d)'
            BY <1>0, <3>1 DEF SelectedOK, recorderVars
        <3> QED BY <1>0, <2>1, <3>1, <3>2, <3>3 DEF ClientOK, Selecting, recorderVars
    <2> QED BY <2>2, <2>3
<1> QED BY <1>2, <1>3 DEF InSessions

(* StartRecording.                                                         *)
LEMMA StartRecordingSessions ==
    ASSUME IInv, InSessions, NEW c \in Clients, StartRecording(c)
    PROVE  InSessions'
<1>1. PICK o : /\ Lock(c, o) /\ phase \in {"offline", "leaving"}
               /\ \/ step[c] = "selecting" /\ o = op[c]
                  \/ step[c] = "idle" /\ o \in Recordable(c)
    BY DEF StartRecording
<1>2. /\ TypeOK /\ holder = NoClient /\ mCurrentID' = mRecordID[c]
      /\ op' = [op EXCEPT ![c] = o] /\ step' = [step EXCEPT ![c] = "started"]
      /\ UNCHANGED <<mRecordID, mCurrent_mbox, actions, mNextID, mPendingSelect,
                     fileVars, phase, mConns, refused>>
    BY <1>1 DEF Lock, IInv
<1>3. Journals' /\ Awaiting' /\ PlayedOK'
    BY <1>1, <1>2 DEF InSessions, Journals, Awaiting, PlayedOK, fileVars
<1>4. ASSUME NEW d \in Clients
      PROVE  ClientOK(d)'
    <2>1. ClientOK(d) /\ step[d] # "started"
        BY <1>2, ConstantsAssumption DEF InSessions, IInv, MutexOK
    <2>2. SelectingOK(d) /\ op'[d].mbox = op[d].mbox => SelectingOK(d)'
        BY <1>2 DEF SelectingOK, fileVars
    <2>3. SelectedOK(d) => SelectedOK(d)'
        BY <1>2 DEF SelectedOK
    <2>4. CASE d # c
        <3>1. step'[d] = step[d] /\ op'[d] = op[d]
            BY <1>2, <2>4 DEF TypeOK
        <3> QED BY <1>2, <2>1, <2>2, <2>3, <3>1 DEF ClientOK, Selecting
    <2>5. CASE d = c
        <3>1. step'[c] = "started" /\ op'[c] = o
            BY <1>2 DEF TypeOK
        <3>2. CASE step[c] = "selecting" /\ o = op[c]
            <4>1. op[c].act = "Select" /\ SelectingOK(c)
                BY <2>1, <2>5, <3>2 DEF ClientOK, Selecting
            <4>2. phase = "offline" /\ "Select" \notin MessageActs
                BY <4>1, ConstantsAssumption DEF SelectingOK, Structural
            <4> QED BY <1>2, <2>1, <2>2, <2>5, <3>1, <3>2, <4>1, <4>2 DEF ClientOK, Selecting
        <3>3. CASE step[c] = "idle" /\ o \in Recordable(c)
            <4>1. /\ o.act # "Select"
                  /\ phase = "leaving" => o.act = "Deselect"
                  /\ o.act \in MessageActs => phase = "offline" /\ o.mbox = mCurrent_mbox[c]
                BY <1>1, <3>3, ConstantsAssumption DEF Recordable, Structural, Elsewhere
            <4> QED BY <1>2, <2>1, <2>3, <2>5, <3>1, <3>3, <4>1 DEF ClientOK, Selecting
        <3> QED BY <1>1, <3>2, <3>3
    <2> QED BY <2>4, <2>5
<1> QED BY <1>3, <1>4 DEF InSessions

(* Record.                                                                 *)
LEMMA RecordSessions ==
    ASSUME IInv, Counted, InSessions, NEW c \in Clients, Record(c)
    PROVE  InSessions'
<1> DEFINE r == mCurrentID
           m == mCurrent_mbox[c]
<1>0. /\ TypeOK /\ holder = c /\ step[c] = "started" /\ step' = [step EXCEPT ![c] = "recorded"]
      /\ UNCHANGED <<holder, op, mNextID, mCurrentID, fileVars, phase, mConns, refused>>
      /\ phase \in {"offline", "leaving"} /\ r \in IDs
      /\ r = mRecordID[c]
    BY DEF Record, IInv, BusyOK, InSessions, ClientOK, TypeOK
<1>1. /\ Whole(actions', mConns, refused) /\ Once(actions')
      /\ \A i : HasSelect(actions', i) =>
           HasSelect(actions, i) \/ (i = r /\ mPendingSelect'[r] = NoMbox)
      /\ \A i, b : i # r /\ Opened(actions, Len(actions) + 1, i, b) =>
           Opened(actions', Len(actions') + 1, i, b)
      /\ phase = "offline" /\ mCurrent_mbox'[c] # NoMbox =>
           IF mPendingSelect'[r] # NoMbox THEN mPendingSelect'[r] = m
           ELSE Opened(actions', Len(actions') + 1, r, m)
    BY RecordQueue
<1>2. mConns = Nobody
    BY <1>0, NoConnections DEF Counted
<1>3. Journals'
    BY <1>0, <1>1, <1>2, NobodyWaits DEF InSessions, Journals, fileVars
<1>4. \A i \in IDs : i # r => mPendingSelect'[i] = mPendingSelect[i]
    BY <1>0 DEF Record, RecordSelect, RecordDeselect, RecordMailboxAction,
                RecordMessageAction, DropPending, TypeOK
<1>5. \A d \in Clients : d # c => /\ mRecordID'[d] = mRecordID[d]
                                  /\ mCurrent_mbox'[d] = mCurrent_mbox[d]
                                  /\ step'[d] = step[d]
    BY <1>0 DEF Record, RecordSelect, RecordDeselect, RecordMailboxAction,
                RecordMessageAction, TypeOK
<1>6. step'[c] = "recorded"
    BY <1>0 DEF TypeOK
<1>7. mCurrent_mbox'[c] # NoMbox => mCurrent_mbox'[c] = m /\ mRecordID'[c] = mRecordID[c]
    BY <1>0 DEF Record, RecordSelect, RecordDeselect, RecordMailboxAction,
                RecordMessageAction, TypeOK
<1>8. CASE phase = "leaving"
    <2>1. op[c].act = "Deselect"
        BY <1>0, <1>8 DEF InSessions, ClientOK
    <2>2. mPendingSelect'[r] = NoMbox /\ mPendingSelect' = [mPendingSelect EXCEPT ![r] = NoMbox]
        BY <1>0, <2>1, ConstantsAssumption DEF Record, RecordDeselect, DropPending, TypeOK, Structural
    <2>3. mPendingSelect = Nobody
        BY <1>8 DEF InSessions, Awaiting
    <2>4. mPendingSelect' = Nobody
        BY <1>0, <2>2, <2>3 DEF Nobody
    <2>5. Awaiting' /\ PlayedOK'
        BY <1>0, <1>8, <2>4 DEF Awaiting, PlayedOK
    <2>6. ASSUME NEW d \in Clients
          PROVE  ClientOK(d)'
        <3>1. ClientOK(d) /\ ~ SelectingOK(d)
            BY <1>8 DEF InSessions, SelectingOK
        <3>2. CASE d = c
            BY <1>0, <1>6, <1>7, <1>8, <3>1, <3>2 DEF ClientOK, Selecting
        <3>3. CASE d # c
            BY <1>0, <1>5, <1>8, <3>1, <3>3 DEF ClientOK, Selecting
        <3> QED BY <3>2, <3>3
    <2> QED BY <1>3, <2>5, <2>6 DEF InSessions
<1>9. CASE phase = "offline"
    <2>1. r < mNextID
        BY <1>0, <1>9, ConstantsAssumption DEF Counted, CurrentID, Live
    <2>2. Awaiting'
        <3> SUFFICES ASSUME NEW i \in IDs, mPendingSelect'[i] # NoMbox
                     PROVE  /\ i < mNextID
                            /\ ~ HasSelect(actions', i)
                            /\ ~ mStream.open => mStream.fail /\ disk.next <= i
            BY <1>0, <1>9 DEF Awaiting, fileVars
        <3>1. CASE mPendingSelect[i] # NoMbox
            BY <1>1, <1>9, <3>1 DEF InSessions, Awaiting
        <3>2. CASE mPendingSelect[i] = NoMbox
            <4>1. i = r
                BY <1>4, <3>2
            <4>2. op[c].act = "Select"
                BY <1>0, <3>2, <4>1 DEF Record, RecordDeselect, RecordMailboxAction,
                                        RecordMessageAction, DropPending, TypeOK
            <4>3. SelectingOK(c)
                BY <1>0, <4>2 DEF InSessions, ClientOK, Selecting
            <4> QED BY <1>0, <1>1, <2>1, <4>1, <4>3 DEF SelectingOK
        <3> QED BY <3>1, <3>2
    <2>3. PlayedOK'
        BY <1>0, <1>9 DEF PlayedOK
    <2>4. ASSUME NEW d \in Clients
          PROVE  ClientOK(d)'
        <3>1. ClientOK(d)
            BY DEF InSessions
        <3>2. CASE d = c
            <4>1. mCurrent_mbox'[c] # NoMbox => SelectedOK(c)'
                BY <1>0, <1>1, <1>7, <1>9 DEF SelectedOK
            <4> QED BY <1>0, <1>6, <1>7, <1>9, <3>1, <3>2, <4>1 DEF ClientOK, Selecting
        <3>3. CASE d # c
            <4>1. step[d] # "started"
                BY <1>0, <3>3 DEF IInv, MutexOK
            <4>2. CASE mCurrent_mbox[d] = NoMbox
                <5>1. ~ Selecting(d)
                    <6>1. Selecting(d) => op[d] \in Ops /\ op[d].mbox = NoMbox
                        BY <3>1, <4>2 DEF ClientOK, SelectingOK, Selecting, IInv, OpOK
                    <6> QED BY <6>1, ConstantsAssumption
                            DEF Selecting, Ops, OnMailbox, Elsewhere, Structural
                <5> QED BY <1>0, <1>5, <1>9, <3>1, <3>3, <4>1, <4>2, <5>1 DEF ClientOK, Selecting
            <4>3. CASE mCurrent_mbox[d] # NoMbox
                <5>1. mRecordID[d] # r /\ mRecordID[d] \in IDs
                    BY <1>0, <1>9, <3>1, <3>3, <4>3
                       DEF ClientOK, Counted, ClientIDs, Live, TypeOK
                <5>2. SelectingOK(d) => SelectingOK(d)'
                    BY <1>0, <1>1, <1>4, <1>5, <3>3, <5>1 DEF SelectingOK, fileVars
                <5>3. SelectedOK(d) => SelectedOK(d)'
                    BY <1>0, <1>1, <1>4, <1>5, <3>3, <5>1 DEF SelectedOK
                <5> QED BY <1>0, <1>5, <1>9, <3>1, <3>3, <4>1, <5>2, <5>3 DEF ClientOK, Selecting
            <4> QED BY <4>2, <4>3
        <3> QED BY <3>2, <3>3
    <2> QED BY <1>3, <2>2, <2>3, <2>4 DEF InSessions
<1> QED BY <1>0, <1>8, <1>9

(* StopRecording.                                                          *)
LEMMA StopRecordingSessions ==
    ASSUME IInv, IInv', Counted, InSessions, NEW c \in Clients, StopRecording(c)
    PROVE  InSessions'
<1>0. /\ TypeOK /\ holder = c /\ step[c] = "recorded" /\ holder' = NoClient
      /\ UNCHANGED <<mRecordID, mCurrent_mbox, actions, mNextID, mPendingSelect,
                     phase, mConns, refused>>
      /\ phase \in {"offline", "leaving"}
    BY DEF StopRecording, IInv, BusyOK
<1>1. /\ mStream'.open = mStream.open
      /\ ~ mStream.open => disk' = disk /\ (mStream.fail => mStream'.fail)
    BY <1>0 DEF StopRecording, TypeOK, fileVars
<1>2. mConns = Nobody
    BY <1>0, NoConnections DEF Counted
<1>3. disk'.items = disk.items \/ disk'.items = actions
    <2>1. CASE mStream.open
        <3>1. phase = "offline"
            BY <1>0, <2>1 DEF IInv, ClosedOK
        <3> QED BY <1>0, <1>1, <2>1, <3>1 DEF IInv, Journaled
    <2> QED BY <1>1, <2>1
<1>4. Journals'
    BY <1>0, <1>2, <1>3 DEF InSessions, Journals
<1>5. Awaiting' /\ PlayedOK'
    BY <1>0, <1>1 DEF InSessions, Awaiting, PlayedOK
<1>6. ASSUME NEW d \in Clients
      PROVE  ClientOK(d)'
    <2>1. ClientOK(d)
        BY DEF InSessions
    <2>2. SelectedOK(d) => SelectedOK(d)'
        BY <1>0 DEF SelectedOK
    <2>3. CASE d = c
        <3>1. step'[c] = "idle"
            BY <1>0 DEF StopRecording, TypeOK
        <3> QED BY <1>0, <2>1, <2>2, <2>3, <3>1 DEF ClientOK, Selecting
    <2>4. CASE d # c
        <3>1. step'[d] = step[d] /\ op'[d] = op[d] /\ step[d] # "started"
            BY <1>0, <2>4 DEF StopRecording, TypeOK, IInv, MutexOK
        <3>2. SelectingOK(d) => SelectingOK(d)'
            BY <1>0, <1>1, <3>1 DEF SelectingOK
        <3> QED BY <1>0, <2>1, <2>2, <3>1, <3>2 DEF ClientOK, Selecting
    <2> QED BY <2>3, <2>4
<1> QED BY <1>4, <1>5, <1>6 DEF InSessions

(* A prefix and the beginning of the rest.                                 *)
LEMMA PrefixAndMore ==
    ASSUME NEW S, NEW s \in Seq(S), NEW m \in 0..Len(s), NEW n \in 0..Len(s) - m
    PROVE  SubSeq(s, 1, m) \o SubSeq(SubSeq(s, m + 1, Len(s)), 1, n) = SubSeq(s, 1, m + n)
<1> DEFINE l == Len(s)
<1>1. l \in Nat /\ m \in Nat /\ n \in Nat /\ m <= l /\ m + n <= l
    BY LenProperties
<1>2. CASE n = 0
    <2>1. SubSeq(SubSeq(s, m + 1, l), 1, n) = << >>
        BY <1>2, SubSeqEmpty
    <2>2. SubSeq(s, 1, m) \in Seq(S)
        BY StretchType
    <2>3. SubSeq(s, 1, m) \o << >> = SubSeq(s, 1, m)
        BY <2>2, ConcatEmptySeq
    <2>4. m + n = m
        BY <1>1, <1>2
    <2> QED BY <2>1, <2>3, <2>4
<1>3. CASE n # 0
    <2>1. /\ m + 1 \in 1..l /\ l \in 1..l
          /\ 1 \in 1..l - (m + 1) + 1 /\ n \in 1..l - (m + 1) + 1
        BY <1>1, <1>3
    <2>2. SubSeq(SubSeq(s, m + 1, l), 1, n) = SubSeq(s, (m + 1) + 1 - 1, (m + 1) + n - 1)
        BY <2>1, SubSeqOfSubSeq
    <2>3. (m + 1) + 1 - 1 = m + 1 /\ (m + 1) + n - 1 = m + n
        BY <1>1
    <2>4. 1 \in 1..l + 1 /\ m \in 1 - 1..l /\ m + n \in m..l
        BY <1>1
    <2>5. SubSeq(s, 1, m) \o SubSeq(s, m + 1, m + n) = SubSeq(s, 1, m + n)
        BY <2>4, ConcatAdjacentSubSeq
    <2> QED BY <2>2, <2>3, <2>5
<1> QED BY <1>2, <1>3

(* StartPlayback.                                                          *)
LEMMA StartPlaybackSessions ==
    ASSUME IInv, Counted, InSessions, StartPlayback
    PROVE  InSessions'
<1>0. /\ TypeOK /\ phase = "offline" /\ phase' = "playing" /\ Quiet
      /\ UNCHANGED <<holder, clientVars, mPendingSelect, mConns, refused>>
    BY DEF StartPlayback, IInv
<1>1. disk'.items = disk.items /\ actions' = disk.items
    BY <1>0, OpenKeeps DEF StartPlayback, Quiet
<1>2. mConns = Nobody /\ \A i \in IDs : mConns[i] = NoMbox
    BY <1>0, NoConnections, NobodyWaits DEF Counted
<1>3. Journals'
    BY <1>0, <1>1, <1>2 DEF InSessions, Journals
<1>4. Awaiting'
    BY <1>0 DEF Awaiting
<1>5. PlayedOK'
    <2>1. Done' = 0
        <3>1. Len(disk.items) \in Nat
            BY <1>0, LenProperties DEF TypeOK
        <3> QED BY <1>1, <3>1 DEF Done
    <2>2. \A k \in DOMAIN actions' : actions'[k] = disk'.items[0 + k]
        <3>1. DOMAIN disk.items = 1..Len(disk.items) /\ Len(disk.items) \in Nat
            BY <1>0, LenProperties DEF TypeOK
        <3> QED BY <1>1, <3>1
    <2> QED BY <1>0, <1>2, <2>1, <2>2 DEF PlayedOK
<1>6. \A c \in Clients : ClientOK(c)'
    BY <1>0, IdleClients DEF InSessions, ClientOK, Quiet, clientVars
<1> QED BY <1>3, <1>4, <1>5, <1>6 DEF InSessions

(* PlaybackItem.                                                           *)
LEMMA PlaybackItemSessions ==
    ASSUME IInv, InSessions, PlaybackItem
    PROVE  InSessions'
<1> DEFINE a == Head(actions)
<1>0. /\ TypeOK /\ phase = "playing" /\ phase' = "playing" /\ actions # << >>
      /\ actions' = Tail(actions)
      /\ UNCHANGED <<holder, clientVars, mCurrentID, mPendingSelect>>
      /\ PlaySelect(a) \/ PlayDeselect(a) \/ PlayOther(a)
    BY DEF PlaybackItem, IInv
<1>1. /\ actions \in Seq(CMailAction) /\ disk.items \in Seq(CMailAction)
      /\ Len(disk.items) \in Nat /\ DOMAIN disk.items = 1..Len(disk.items)
    BY <1>0, LenProperties DEF TypeOK
<1>2. PICK n \in Nat : /\ Shrunk(actions, Tail(actions), n, a)
                       /\ Len(actions) = n + 1 /\ Len(Tail(actions)) = n
    BY <1>0, <1>1, TailShrinks
<1>3. a \in CMailAction /\ a.id \in IDs
    <2>1. a \in CMailAction
        BY <1>0, <1>1, HeadTailProperties
    <2> QED BY <2>1 DEF CMailAction
<1>4. \A k \in DOMAIN actions : actions[k].id \in IDs
    BY <1>1, ElementOfSeq, LenProperties DEF CMailAction
<1>5. disk'.items = disk.items
    BY <1>0, BumpIDType DEF PlaySelect, PlayDeselect, PlayOther, fileVars
<1>6. refused \subseteq refused'
    BY <1>0 DEF PlaySelect, PlayDeselect, PlayOther
<1>7. \A i \in IDs : mConns'[i] # mConns[i] => Marks(a, i)
    BY <1>0, <1>3 DEF PlaySelect, PlayDeselect, PlayOther, Marks, TypeOK
<1>8. a.act = "Select" => ~ (mConns[a.id] # NoMbox)
    <2>1. a.act = "Select" => HasSelect(actions, a.id)
        <3>1. 1 \in DOMAIN actions /\ actions[1] = a
            BY <1>2 DEF Shrunk
        <3> QED BY <3>1 DEF HasSelect
    <2> QED BY <1>3, <2>1 DEF InSessions, Journals
<1>9. a.act = "Select" => \/ mConns'[a.id] = a.mbox
                          \/ a.id \in refused' /\ mConns'[a.id] = NoMbox
    <2>1. CASE a.act = "Select"
        <3>1. PlaySelect(a)
            BY <1>0, <2>1, ConstantsAssumption DEF PlayDeselect, PlayOther, Elsewhere, Structural
        <3>2. mConns[a.id] = NoMbox /\ a.id \in DOMAIN mConns /\ a.id \in refused \cup {a.id}
            BY <1>0, <1>3, <1>8, <2>1 DEF TypeOK
        <3>3. \/ mConns' = [mConns EXCEPT ![a.id] = a.mbox]
              \/ refused' = refused \cup {a.id} /\ mConns' = mConns
            BY <3>1 DEF PlaySelect
        <3> HIDE DEF a
        <3> QED BY <3>2, <3>3
    <2> QED BY <2>1
<1>10. \A i \in IDs : mConns'[i] # NoMbox /\ mConns[i] = NoMbox => a.act = "Select" /\ a.id = i
    BY <1>0, <1>3 DEF PlaySelect, PlayDeselect, PlayOther, TypeOK
<1> DEFINE t == Tail(actions)
<1> HIDE DEF t, a
<1>11. Whole(t, mConns', refused')
    <2>1. \A i \in IDs : ~ Marks(a, i) => mConns'[i] = mConns[i]
        BY <1>7
    <2>2. Whole(actions, mConns, refused) /\ Shrunk(actions, t, n, a)
        BY <1>2 DEF InSessions, Journals, t
    <2> QED BY <1>4, <1>6, <1>9, <2>1, <2>2, ShrunkWhole
<1>12. /\ Once(t)
       /\ \A i : ~ HasSelect(actions, i) => ~ HasSelect(t, i)
       /\ a.act = "Select" => ~ HasSelect(t, a.id)
    BY <1>2, ShrunkOnce DEF InSessions, Journals, t
<1>13. Whole(disk.items, Nobody, refused')
    BY <1>6 DEF InSessions, Journals, Whole, Placed
<1>14. Journals'
    BY <1>0, <1>5, <1>10, <1>11, <1>12, <1>13 DEF InSessions, Journals, t
<1>15. Awaiting'
    BY <1>0 DEF Awaiting
<1>16. PlayedOK'
    <2> DEFINE d == Len(disk.items) - (n + 1)
    <2>1. Done = d /\ Done' = d + 1 /\ d \in Int /\ Len(disk.items) - n = d + 1
        BY <1>0, <1>1, <1>2, <1>5 DEF Done
    <2>2. /\ d >= 0
          /\ \A k \in 1..n + 1 : actions[k] = disk.items[d + k]
          /\ \A i \in IDs : mConns[i] # NoMbox =>
                \E j \in 1..d : disk.items[j].act = "Select" /\ disk.items[j].id = i
          /\ \A k \in 1..d : disk.items[k].act \in MessageActs =>
                Opened(disk.items, k, disk.items[k].id, disk.items[k].mbox)
        BY <1>0, <1>2, <2>1 DEF InSessions, PlayedOK, Shrunk
    <2> HIDE DEF d
    <2>3. a = disk.items[d + 1]
        <3>1. 1 \in 1..n + 1 /\ actions[1] = a
            BY <1>2 DEF Shrunk
        <3> QED BY <2>2, <3>1
    <2>4. ASSUME NEW k \in 1..n
          PROVE  t[k] = disk.items[(d + 1) + k]
        <3>1. k + 1 \in 1..n + 1 /\ t[k] = actions[k + 1] /\ d + (k + 1) = (d + 1) + k
            BY <1>2, <2>1 DEF Shrunk, t
        <3> QED BY <2>2, <3>1
    <2>5. ASSUME NEW i \in IDs, mConns'[i] # NoMbox
          PROVE  \E j \in 1..d + 1 : disk.items[j].act = "Select" /\ disk.items[j].id = i
        <3>1. CASE mConns[i] # NoMbox
            <4>1. PICK j \in 1..d : disk.items[j].act = "Select" /\ disk.items[j].id = i
                BY <2>2, <3>1
            <4>2. j \in 1..d + 1
                BY <2>1
            <4> QED BY <4>1, <4>2
        <3>2. CASE mConns[i] = NoMbox
            <4>1. a.act = "Select" /\ a.id = i
                BY <1>10, <2>5, <3>2
            <4>2. d + 1 \in 1..d + 1
                BY <2>1, <2>2
            <4> QED BY <2>3, <4>1, <4>2
        <3> QED BY <3>1, <3>2
    <2>6. ASSUME NEW k \in 1..d + 1, disk.items[k].act \in MessageActs
          PROVE  Opened(disk.items, k, disk.items[k].id, disk.items[k].mbox)
        <3>1. CASE k \in 1..d
            BY <2>2, <2>6, <3>1
        <3>2. CASE k = d + 1
            <4>1. a.act \in MessageActs /\ a = disk.items[k]
                BY <2>3, <2>6, <3>2
            <4>2. mConns[a.id] # NoMbox
                BY <1>0, <4>1, ConstantsAssumption
                   DEF PlaySelect, PlayDeselect, PlayOther, Elsewhere, Structural
            <4>3. PICK j \in 1..d : disk.items[j].act = "Select" /\ disk.items[j].id = a.id
                BY <1>3, <2>2, <4>2
            <4>4. k \in DOMAIN disk.items /\ j \in DOMAIN disk.items /\ j < k
                BY <1>1, <2>1, <2>2, <3>2
            <4>5. ~ Unmarked(disk.items, k, a.id)
                BY <4>3, <4>4 DEF Unmarked, Marks
            <4>6. Placed(disk.items, k, Nobody, refused)
                BY <2>6, <4>4 DEF InSessions, Journals, Whole
            <4> QED BY <4>1, <4>5, <4>6 DEF Placed
        <3> QED BY <2>1, <2>2, <3>1, <3>2
    <2>7. actions' = t /\ DOMAIN t = 1..n /\ d + 1 >= 0
        BY <1>0, <1>2, <2>1, <2>2 DEF Shrunk, t
    <2> QED BY <1>5, <2>1, <2>4, <2>5, <2>6, <2>7 DEF PlayedOK
<1>17. \A c \in Clients : ClientOK(c)'
    BY <1>0, IdleClients DEF InSessions, ClientOK, clientVars, IInv, BusyOK
<1> QED BY <1>14, <1>15, <1>16, <1>17 DEF InSessions

(* PlaybackDone and ClearJournal.                                          *)
LEMMA PlaybackEndsSessions ==
    ASSUME IInv, Counted, InSessions, PlaybackDone \/ ClearJournal
    PROVE  InSessions'
<1>0. TypeOK /\ disk.items \in Seq(CMailAction)
    BY DEF IInv, TypeOK
<1>1. CASE PlaybackDone
    <2>1. /\ phase = "playing" /\ phase' = "clearing" /\ actions = << >> /\ actions' = << >>
          /\ disk'.items = disk.items /\ mConns' = Nobody /\ refused' = {}
          /\ UNCHANGED <<clientVars, holder>>
        BY <1>0, <1>1 DEF PlaybackDone, Synced, TypeOK
    <2>2. Whole(disk.items, Nobody, {})
        <3>1. DOMAIN disk.items = 1..Len(disk.items) /\ Len(disk.items) \in Nat /\ Len(<< >>) = 0
            BY <1>0, LenProperties
        <3>2. Done = Len(disk.items)
            BY <2>1, <3>1 DEF Done
        <3> QED BY <2>1, <3>1, <3>2 DEF InSessions, PlayedOK, Whole, Placed
    <2>3. Journals' /\ Awaiting' /\ PlayedOK'
        BY <2>1, <2>2, EmptyWhole DEF InSessions, Journals, Awaiting, PlayedOK
    <2>4. \A c \in Clients : ClientOK(c)'
        BY <2>1, IdleClients DEF InSessions, ClientOK, clientVars, IInv, BusyOK
    <2> QED BY <2>3, <2>4 DEF InSessions
<1>2. CASE ClearJournal
    <2>1. /\ phase = "clearing" /\ phase' = "leaving" /\ disk' = NoFile /\ mPendingSelect' = Nobody
          /\ UNCHANGED <<clientVars, actions, mConns, refused>>
        BY <1>2 DEF ClearJournal
    <2>2. disk'.items = << >>
        BY <2>1 DEF NoFile
    <2>3. Journals' /\ Awaiting' /\ PlayedOK'
        BY <2>1, <2>2, EmptyWhole DEF InSessions, Journals, Awaiting, PlayedOK
    <2>4. \A c \in Clients : ClientOK(c)'
        BY <2>1, IdleClients DEF InSessions, ClientOK, clientVars, IInv, BusyOK
    <2> QED BY <2>3, <2>4 DEF InSessions
<1> QED BY <1>1, <1>2

(* RecoverSelect.                                                          *)
LEMMA RecoverSelectSessions ==
    ASSUME IInv, InSessions, NEW i \in IDs, RecoverSelect(i)
    PROVE  InSessions'
<1> DEFINE mine == {k \in DOMAIN actions : actions[k].id = i}
           first(k) == k \in mine /\ \A j \in mine : k <= j
           sel == [act |-> "Select", id |-> i, mbox |-> mConns[i]]
<1>0. /\ TypeOK /\ phase = "recovering" /\ phase' = phase /\ mConns[i] # NoMbox
      /\ mConns' = [mConns EXCEPT ![i] = NoMbox]
      /\ UNCHANGED <<clientVars, disk, refused>>
    BY DEF RecoverSelect, IInv, fileVars
<1>1. \/ /\ \A k \in DOMAIN actions : first(k) => actions[k].act = "Select"
         /\ UNCHANGED actions
      \/ \E k \in DOMAIN actions :
           /\ first(k)
           /\ actions' = SubSeq(actions, 1, k - 1) \o <<sel>>
                           \o SubSeq(actions, k, Len(actions))
    BY DEF RecoverSelect
<1>2. /\ actions \in Seq(CMailAction) /\ Len(actions) \in Nat
      /\ DOMAIN actions = 1..Len(actions)
      /\ \A k \in DOMAIN actions : actions[k] \in CMailAction
    BY <1>0, LenProperties, ElementOfSeq DEF TypeOK
<1>3. mConns'[i] = NoMbox /\ \A j \in IDs : j # i => mConns'[j] = mConns[j]
    BY <1>0 DEF TypeOK
<1>4. /\ Whole(actions, mConns, refused) /\ Once(actions)
      /\ ~ HasSelect(actions, i)
      /\ \A j \in IDs : mConns[j] # NoMbox => ~ HasSelect(actions, j)
    BY <1>0 DEF InSessions, Journals
<1>5. \A k \in DOMAIN actions : actions[k].id # i => mConns'[actions[k].id] = mConns[actions[k].id]
    BY <1>2, <1>3 DEF CMailAction
<1>6. CASE /\ \A k \in DOMAIN actions : first(k) => actions[k].act = "Select"
           /\ UNCHANGED actions
    <2>1. mine = {}
        <3> SUFFICES ASSUME mine # {} PROVE FALSE
            OBVIOUS
        <3>1. mine \in SUBSET Nat
            BY <1>2
        <3>2. PICK k \in mine : \A j \in mine : k <= j
            BY <3>1, Least
        <3> QED BY <1>4, <1>6, <3>2 DEF HasSelect
    <2>2. Whole(actions, mConns', refused)
        BY <1>4, <1>5, <2>1, SameWhole
    <2> QED BY <1>0, <1>3, <1>4, <1>6, <2>2, IdleClients
            DEF InSessions, Journals, Awaiting, PlayedOK, ClientOK, clientVars, IInv, BusyOK
<1>7. CASE \E k \in DOMAIN actions :
             /\ first(k)
             /\ actions' = SubSeq(actions, 1, k - 1) \o <<sel>>
                             \o SubSeq(actions, k, Len(actions))
    <2>1. PICK p \in DOMAIN actions :
             /\ first(p)
             /\ actions' = SubSeq(actions, 1, p - 1) \o <<sel>>
                             \o SubSeq(actions, p, Len(actions))
        BY <1>7
    <2>2. sel \in CMailAction /\ sel.act = "Select" /\ sel.id = i /\ sel.mbox = mConns[i]
        BY <1>0 DEF TypeOK, CMailAction, OnMailbox
    <2>3. \A k \in DOMAIN actions : k < p => actions[k].id # i
        BY <1>2, <2>1
    <2> DEFINE n == Len(actions)
    <2> HIDE DEF sel, first, mine, n
    <2>4. Widened(actions, actions', n, p, sel) /\ n \in Nat
        BY <1>2, <2>1, <2>2, InsertWidens DEF n
    <2>5. Whole(actions', mConns', refused)
        <3>1. /\ sel.act = "Select" /\ sel.mbox = mConns[sel.id] /\ sel.mbox # NoMbox
              /\ ~ HasSelect(actions, sel.id)
            BY <1>0, <1>4, <2>2
        <3>2. /\ \A k \in DOMAIN actions : k < p => actions[k].id # sel.id
              /\ \A k \in DOMAIN actions :
                    actions[k].id # sel.id => mConns'[actions[k].id] = mConns[actions[k].id]
            BY <1>5, <2>2, <2>3
        <3> QED BY <1>4, <2>4, <3>1, <3>2, WidenedWhole
    <2>6. Once(actions')
        BY <1>4, <2>2, <2>4, WidenedOnce
    <2>7. \A j \in IDs : j # i /\ HasSelect(actions', j) => HasSelect(actions, j)
        BY <2>2, <2>4, WidenedSelect
    <2>8. Journals'
        BY <1>0, <1>3, <1>4, <2>5, <2>6, <2>7 DEF InSessions, Journals
    <2> QED BY <1>0, <2>8, IdleClients
            DEF InSessions, Awaiting, PlayedOK, ClientOK, clientVars, IInv, BusyOK
<1> QED BY <1>1, <1>6, <1>7

(* PlaybackFailed, RemoveJournal and RewriteJournal.                       *)
LEMMA RecoverySessions ==
    ASSUME IInv, Counted, InSessions, PlaybackFailed \/ RemoveJournal \/ RewriteJournal
    PROVE  InSessions'
<1>0. TypeOK
    BY DEF IInv
<1>1. CASE PlaybackFailed
    BY <1>1, IdleClients DEF PlaybackFailed, InSessions, Journals, Awaiting, PlayedOK, ClientOK,
                clientVars, recorderVars, fileVars, IInv, BusyOK
<1>2. CASE RemoveJournal
    <2>1. disk'.items = << >>
        BY <1>2 DEF RemoveJournal, NoFile
    <2> QED BY <1>2, <2>1, EmptyWhole, IdleClients
            DEF RemoveJournal, InSessions, Journals, Awaiting, PlayedOK, ClientOK,
                clientVars, recorderVars, IInv, BusyOK
<1>3. CASE RewriteJournal
    <2>1. /\ phase = "removed" /\ phase' = "offline" /\ disk'.items = actions /\ actions' = actions
          /\ mPendingSelect' = Nobody /\ mCurrent_mbox' = [c \in Clients |-> NoMbox]
          /\ UNCHANGED <<mConns, refused, step>>
        BY <1>3 DEF RewriteJournal
    <2>2. mConns = Nobody
        BY <1>0, <2>1, NoConnections DEF Counted
    <2>3. Journals'
        BY <2>1, <2>2 DEF InSessions, Journals
    <2>4. Awaiting' /\ PlayedOK'
        BY <2>1, NobodyWaits DEF Awaiting, PlayedOK
    <2>5. \A c \in Clients : ClientOK(c)'
        BY <2>1, IdleClients DEF IInv, BusyOK
    <2> QED BY <2>3, <2>4, <2>5 DEF InSessions
<1> QED BY <1>1, <1>2, <1>3

(* GoOnline, GoOffline and Restart.                                        *)
LEMMA AccountSessions ==
    ASSUME IInv, Counted, InSessions, GoOnline \/ GoOffline \/ Restart
    PROVE  InSessions'
<1>0. TypeOK
    BY DEF IInv
<1>1. CASE GoOnline
    <2>1. /\ phase \in {"offline", "leaving"} /\ phase' = "online" /\ Quiet
          /\ mCurrent_mbox' = [c \in Clients |-> NoMbox]
          /\ UNCHANGED <<step, actions, mNextID, mPendingSelect, fileVars, mConns, refused>>
        BY <1>1 DEF GoOnline, recorderVars
    <2>2. Journals' /\ PlayedOK'
        BY <2>1 DEF InSessions, Journals, PlayedOK, fileVars
    <2>3. Awaiting'
        BY <2>1, NobodyWaits DEF InSessions, Awaiting, fileVars
    <2>4. \A c \in Clients : ClientOK(c)'
        BY <2>1, IdleClients DEF Quiet
    <2> QED BY <2>2, <2>3, <2>4 DEF InSessions
<1>2. ASSUME phase \in {"online", "down"}, phase' \in {"offline", "online"},
             UNCHANGED <<clientVars, mPendingSelect, mConns, refused>>
      PROVE  mConns = Nobody /\ PlayedOK' /\ \A c \in Clients : ClientOK(c)'
    <2>1. mConns = Nobody
        BY <1>0, <1>2, NoConnections DEF Counted
    <2>2. \A c \in Clients : step[c] = "idle" /\ mCurrent_mbox[c] = NoMbox
        BY <1>2 DEF IInv, BusyOK, InSessions, ClientOK
    <2> QED BY <1>2, <2>1, <2>2, IdleClients DEF PlayedOK, clientVars
<1>3. CASE GoOffline
    <2>1. /\ phase = "online" /\ phase' = "offline" /\ Open
          /\ UNCHANGED <<clientVars, mPendingSelect, mConns, refused>>
        BY <1>3 DEF GoOffline
    <2>2. CASE mStream.open
        <3>1. UNCHANGED <<actions, mNextID, fileVars>>
            BY <2>1, <2>2 DEF Open
        <3>2. Journals' /\ Awaiting'
            BY <2>1, <3>1 DEF InSessions, Journals, Awaiting, fileVars
        <3> QED BY <1>2, <2>1, <3>2 DEF InSessions
    <2>3. CASE ~ mStream.open
        <3>1. /\ disk'.items = disk.items /\ actions' = disk.items /\ mStream'.open
              /\ mStream.fail => mNextID' = mNextID
            <4>1. disk'.items = disk.items /\ actions' = disk.items
                BY <1>0, <2>1, <2>3, OpenType
            <4>2. /\ mStream' = [open |-> TRUE, fail |-> FALSE]
                  /\ mStream.fail => mNextID' = mNextID
                BY <2>1, <2>3 DEF Open
            <4> QED BY <4>1, <4>2
        <3>2. Journals'
            BY <1>2, <2>1, <3>1, NobodyWaits DEF InSessions, Journals
        <3>3. \A i \in IDs : disk.next <= i => ~ HasSelect(disk.items, i)
            <4>1. \A k \in DOMAIN disk.items : disk.items[k].id < disk.next
                BY DEF Counted, Header, HeaderAhead
            <4>2. \A k \in DOMAIN disk.items : disk.items[k].id \in IDs
                BY <1>0, ElementOfSeq, LenProperties DEF TypeOK, CMailAction
            <4>3. disk.next \in Nat /\ \A j \in IDs : j \in Nat
                BY <1>0, Numbers
            <4> QED BY <4>1, <4>2, <4>3 DEF HasSelect
        <3>4. Awaiting'
            BY <2>1, <2>3, <3>1, <3>3 DEF InSessions, Awaiting
        <3> QED BY <1>2, <2>1, <3>2, <3>4 DEF InSessions
    <2> QED BY <2>2, <2>3
<1>4. CASE Restart
    <2>1. /\ phase = "down" /\ phase' \in {"offline", "online"} /\ ~ mStream.open
          /\ UNCHANGED <<clientVars, mPendingSelect, mConns, refused>>
          /\ \/ Open
             \/ UNCHANGED <<actions, mNextID, fileVars>>
        BY <1>4 DEF Restart, IInv, ClosedOK
    <2>2. mPendingSelect' = Nobody
        BY <2>1 DEF InSessions, Awaiting
    <2>3. Awaiting'
        BY <2>1, <2>2, NobodyWaits DEF Awaiting
    <2>4. Journals'
        <3>1. CASE Open
            <4>1. disk'.items = disk.items /\ actions' = disk.items
                BY <1>0, <2>1, <3>1, OpenType
            <4> QED BY <1>2, <2>1, <4>1, NobodyWaits DEF InSessions, Journals
        <3>2. CASE UNCHANGED <<actions, mNextID, fileVars>>
            BY <2>1, <3>2 DEF InSessions, Journals, fileVars
        <3> QED BY <2>1, <3>1, <3>2
    <2> QED BY <1>2, <2>1, <2>3, <2>4 DEF InSessions
<1> QED BY <1>1, <1>3, <1>4

(* Crash: what the file may hold is whole.                                 *)
LEMMA CrashSessions ==
    ASSUME IInv, Counted, InSessions, Crash
    PROVE  InSessions'
<1>0. TypeOK /\ actions \in Seq(CMailAction) /\ Synced.items = disk.items
    BY DEF IInv, TypeOK, Synced
<1>1. /\ phase' = "down" /\ disk' \in CrashedDisks /\ actions' = << >> /\ mConns' = Nobody
      /\ mPendingSelect' = Nobody /\ step' = [c \in Clients |-> "idle"]
      /\ mCurrent_mbox' = [c \in Clients |-> NoMbox] /\ refused' = refused
    BY DEF Crash
<1>2. ASSUME mConns = Nobody, NEW n \in 0..Len(actions)
      PROVE  Whole(SubSeq(actions, 1, n), Nobody, refused) /\ Once(SubSeq(actions, 1, n))
    BY <1>0, <1>2, PrefixBegins, BeginsWhole DEF InSessions, Journals
<1>3. Whole(disk'.items, Nobody, refused) /\ Once(disk'.items)
    <2>1. CASE disk'.items = disk.items
        BY <2>1 DEF InSessions, Journals
    <2>2. CASE /\ mStream.open /\ holder # NoClient /\ step[holder] = "recorded"
               /\ \E n \in 0..Len(NewItems) :
                     disk' = [Synced EXCEPT !.items = @ \o SubSeq(NewItems, 1, n)]
        <3>1. PICK n \in 0..Len(NewItems) :
                     disk' = [Synced EXCEPT !.items = @ \o SubSeq(NewItems, 1, n)]
            BY <2>2
        <3>2. disk'.items = disk.items \o SubSeq(NewItems, 1, n)
            BY <1>0, <3>1, SyncedType
        <3>3. phase = "offline" /\ mStartRecord \in Nat /\ mStartRecord <= Len(actions)
            <4>1. holder \in Clients /\ step[holder] # "idle"
                BY <1>0, <2>2 DEF TypeOK
            <4> QED BY <1>0, <2>2, <4>1 DEF IInv, BusyOK, ClosedOK, StartOK, TypeOK
        <3>4. disk.items = SubSeq(actions, 1, mStartRecord)
            BY <2>2, <3>3 DEF IInv, Journaled
        <3>5. Len(NewItems) = Len(actions) - mStartRecord
            <4>1. Len(actions) \in Nat
                BY <1>0, LenProperties
            <4>2. \A x \in mStartRecord + 1 .. Len(actions) : actions[x] \in CMailAction
                BY <1>0, <3>3, <4>1, ElementOfSeq
            <4> QED BY <1>0, <3>3, <4>1, <4>2, SubSeqProperties DEF NewItems
        <3>6. mStartRecord + n \in 0..Len(actions)
            BY <1>0, <3>1, <3>3, <3>5, LenProperties
        <3>7. disk'.items = SubSeq(actions, 1, mStartRecord + n)
            <4>1. mStartRecord \in 0..Len(actions) /\ n \in 0..Len(actions) - mStartRecord
                BY <3>1, <3>3, <3>5, <1>0, LenProperties
            <4> QED BY <1>0, <3>2, <3>4, <4>1, PrefixAndMore DEF NewItems
        <3>8. mConns = Nobody
            BY <1>0, <3>3, NoConnections DEF Counted
        <3> QED BY <1>2, <3>6, <3>7, <3>8
    <2>3. CASE phase = "removed" /\ \E n \in 0..Len(actions) :
                  disk' = [next |-> mNextID, items |-> SubSeq(actions, 1, n)]
        <3>1. PICK n \in 0..Len(actions) : disk'.items = SubSeq(actions, 1, n)
            BY <2>3
        <3>2. mConns = Nobody
            BY <1>0, <2>3, NoConnections DEF Counted
        <3> QED BY <1>2, <3>1, <3>2
    <2> QED BY <1>0, <1>1, <2>1, <2>2, <2>3 DEF CrashedDisks
<1>4. Journals'
    BY <1>1, <1>3, EmptyWhole, NobodyWaits DEF Journals
<1>5. Awaiting' /\ PlayedOK'
    BY <1>1 DEF Awaiting, PlayedOK
<1>6. \A c \in Clients : ClientOK(c)'
    BY <1>1, IdleClients
<1> QED BY <1>4, <1>5, <1>6 DEF InSessions

-----------------------------------------------------------------------------
(* Results.                                                                *)

(* A new recorder has no sessions.                                         *)
LEMMA SessionsInitially == Init => InSessions
<1> SUFFICES ASSUME Init PROVE InSessions
    OBVIOUS
<1>1. Journals /\ Awaiting /\ PlayedOK
    BY EmptyWhole, NobodyWaits DEF Init, Journals, Awaiting, PlayedOK
<1>2. \A c \in Clients : ClientOK(c)
    BY DEF Init, ClientOK, Selecting
<1> QED BY <1>1, <1>2 DEF InSessions

(* No step of the recorder takes a change out of its session.              *)
LEMMA SessionsStep ==
    ASSUME IInv, IInv', Counted, InSessions, [Next]_vars
    PROVE  InSessions'
<1>1. ASSUME NEW c \in Clients, ClientStep(c)
      PROVE  InSessions'
    BY <1>1, SelectMboxSessions, AloneSessions, StartRecordingSessions, RecordSessions,
       StopRecordingSessions DEF ClientStep
<1>2. CASE Playback
    BY <1>2, StartPlaybackSessions, PlaybackItemSessions, PlaybackEndsSessions,
       RecoverSelectSessions, RecoverySessions DEF Playback
<1>3. CASE GoOnline \/ GoOffline \/ Crash \/ Restart
    BY <1>3, AccountSessions, CrashSessions
<1>4. CASE UNCHANGED vars
    BY <1>4 DEF vars, clientVars, recorderVars, fileVars, InSessions, Journals, Awaiting,
                ClientOK, Selecting, SelectingOK, SelectedOK, PlayedOK, Done
<1> QED BY <1>1, <1>2, <1>3, <1>4 DEF Next

(* The invariant: every change in the queue and in the file is in its      *)
(* session, every session has one Select, and what the connections and the *)
(* playback under way have to do with that.                                *)
THEOREM SessionsKept == Spec => []InSessions
<1>1. Init => InSessions
    BY SessionsInitially
<1>2. IInv /\ IInv' /\ Counted /\ InSessions /\ [Next]_vars => InSessions'
    BY SessionsStep
<1> QED BY <1>1, <1>2, Invariance, IDsAreCounted, PTL DEF Spec

(* Every change in the queue follows, in its own session, the Select of    *)
(* the mailbox it was made in, or that mailbox is open for it in the       *)
(* playback (PushSelect, Deselect, Playback_RecoverSelects).               *)
THEOREM SessionsAreWhole == Spec => []SessionsWhole
<1>1. TypeOK /\ InSessions => SessionsWhole
    <2> SUFFICES ASSUME TypeOK, InSessions, NEW k \in DOMAIN actions,
                        actions[k].act \in MessageActs, actions[k].id \notin refused
                 PROVE  InSession(actions, k, mConns)
        BY DEF SessionsWhole
    <2>1. DOMAIN actions = 1..Len(actions) /\ Len(actions) \in Nat
        BY LenProperties DEF TypeOK
    <2>2. Placed(actions, k, mConns, refused)
        BY DEF InSessions, Journals, Whole
    <2> QED BY <2>1, <2>2, PlacedInSession
<1> QED BY <1>1, TypeCorrect, SessionsKept, PTL

(* The same of the file, which a crash turns into the next queue.          *)
THEOREM SessionsAreWholeOnDisk == Spec => []SessionsWholeOnDisk
<1>1. TypeOK /\ InSessions => SessionsWholeOnDisk
    <2> SUFFICES ASSUME TypeOK, InSessions, NEW k \in DOMAIN disk.items,
                        disk.items[k].act \in MessageActs, disk.items[k].id \notin refused
                 PROVE  InSession(disk.items, k, Nobody)
        BY DEF SessionsWholeOnDisk
    <2>1. DOMAIN disk.items = 1..Len(disk.items) /\ Len(disk.items) \in Nat
        BY LenProperties DEF TypeOK
    <2>2. Placed(disk.items, k, Nobody, refused)
        BY DEF InSessions, Journals, Whole
    <2> QED BY <2>1, <2>2, PlacedInSession
<1> QED BY <1>1, TypeCorrect, SessionsKept, PTL
=============================================================================
