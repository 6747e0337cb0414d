------------------------- MODULE CalendarSync_proofs -------------------------
(***************************************************************************)
(* Theorems about the synchronisation of a CalDAV calendar, for any        *)
(* events, either kind of server and any number of changes, failures and   *)
(* crashes: what has to be sent stays recorded (EditsKept), and the sync   *)
(* token never stands for more than has been read (TokenSound). The second *)
(* argument is about one event at a time: what a step does to an event is  *)
(* compared with what the calendar, its cache and the synchronisation know *)
(* of it.                                                                  *)
(***************************************************************************)
EXTENDS CalendarSync, TLAPS

-----------------------------------------------------------------------------
(* The inductive invariant, by parts.                                      *)

Synchronisation ==
    [opening : BOOLEAN, news : SUBSET Events, seen : [Events -> Version],
     token : Nat, changed : BOOLEAN, sent : BOOLEAN, todo : SUBSET Events,
     both : SUBSET Events, winner : SUBSET Events, fetch : SUBSET Events]

SyncOK == sync \in Synchronisation

SpentOK ==
    /\ spent \in [edits : Nat, others : Nat, faults : Nat, crashes : Nat]
    /\ spent.edits <= MaxEdits /\ spent.others <= MaxOthers

(* The server's revisions, and what is said of an unchanged calendar.      *)
StampOK == \A e \in Events : stamp[e] <= rev

Types == TypeOK /\ SyncOK /\ SpentOK /\ StampOK

(* The steps once the server has told what has changed.                    *)
Informed == {"send", "resolve", "fetch", "token"}

(* What is left to do at each of them.                                     *)
Order ==
    /\ pc \in {"resolve", "fetch", "token"} => sync.todo = {}
    /\ pc \in {"fetch", "token"} => sync.both = {} /\ sync.winner = {}
    /\ pc = "send" => sync.winner = {}
    /\ pc \notin Informed => sync.both = {} /\ sync.winner = {} /\ sync.fetch = {}

(* What is found to be changed on both sides is recorded as changed.       *)
BothOK ==
    pc = "send" =>
        /\ sync.both \cap sync.todo = {}
        /\ \A e \in sync.both : cal.recording[e] = "changed" /\ (hasSync => Listed(e))

(* Without a change on the server nothing is reported to be removed.       *)
ToldOK == hasSync /\ ~sync.changed => \A e \in Events : ~Removed(e)

Shape == Order /\ BothOK /\ ToldOK

(* What has to be sent of the user's changes, and what a crash would bring *)
(* back of it.                                                             *)
Waiting == unsent \ spoilt
Stored == kept \ spoilt

(* The record says so, and there is an event to send.                      *)
Fits(c, e) ==
    /\ c.recording[e] # "none"
    /\ c.recording[e] # "removed" => c.ver[e] # 0

InMemory == Running => \A e \in Waiting : Fits(cal, e)

InCache == \A e \in Stored : Fits(disk.cal, e)

Stopped == ~Running => pc = "idle" /\ unsent = kept

(* A synchronisation still has it to do, or is about to forget it.         *)
Handled ==
    pc \in Informed =>
        \A e \in Waiting :
            \/ e \in sync.todo \cup sync.both \cup sync.winner
            \/ ~hasSync /\ ~sync.changed /\ cal.recording[e] = "removed"

(* It is not overwritten with what the server has.                         *)
FetchOK == sync.fetch \cap Waiting = {}

Edits == InMemory /\ InCache /\ Stopped /\ Handled /\ FetchOK

IInv == Types /\ Shape /\ Edits

-----------------------------------------------------------------------------
(* Calendars.                                                              *)

(* The operations on a calendar give a calendar.                           *)
LEMMA CalendarTypes ==
    ASSUME NEW c \in CICalendar
    PROVE  /\ ClearRecording(c) \in CICalendar
           /\ \A v, t \in [Events -> Version] :
                /\ [c EXCEPT !.ver = v] \in CICalendar
                /\ [c EXCEPT !.etag = t] \in CICalendar
                /\ [c EXCEPT !.ver = v, !.etag = t] \in CICalendar
           /\ \A n \in Nat : /\ [c EXCEPT !.ETag = n] \in CICalendar
                             /\ [c EXCEPT !.SyncToken = n] \in CICalendar
BY DEF CICalendar, ClearRecording, Empty, Recordable

(* The calendar before anything has been read.                             *)
LEMMA EmptyType == Empty \in CICalendar
BY CalendarAssumption DEF CICalendar, Empty, Recordable, Version

(* A change of event e, recorded.                                          *)
LEMMA EditedType ==
    ASSUME NEW c \in CICalendar, NEW e \in Events, NEW v \in Version
    PROVE  /\ Edited(c, e, v) \in CICalendar
           /\ Edited(c, e, v).ver = [c.ver EXCEPT ![e] = v]
           /\ Edited(c, e, v).recording = [c.recording EXCEPT ![e] = RecordAction(c, e, v)]
           /\ [Edited(c, e, v) EXCEPT !.etag[e] = v] \in CICalendar
<1>1. RecordAction(c, e, v) \in Recordable
    BY DEF RecordAction, Recordable
<1> QED
    BY <1>1 DEF CICalendar, Edited

(* The calendar read into from the cache, and event e with the new tag.    *)
LEMMA RereadType ==
    ASSUME NEW c \in CICalendar, NEW d \in CICalendar
    PROVE  Reread(c, d) \in CICalendar
<1> DEFINE ver == [e \in Events |-> IF c.ver[e] # 0 THEN c.ver[e] ELSE d.ver[e]]
           etag == [e \in Events |-> IF c.ver[e] # 0 THEN c.etag[e] ELSE d.etag[e]]
           rec == [e \in Events |-> IF c.recording[e] # "none" THEN c.recording[e]
                                    ELSE d.recording[e]]
<1>1. /\ ver \in [Events -> Version] /\ etag \in [Events -> Version]
      /\ rec \in [Events -> Recordable]
    BY DEF CICalendar
<1>2. Reread(c, d) = [c EXCEPT !.ver = ver, !.etag = etag, !.recording = rec]
    BY DEF Reread
<1> HIDE DEF ver, etag, rec
<1> QED
    BY <1>1, <1>2 DEF CICalendar

LEMMA TaggedType ==
    ASSUME NEW c \in CICalendar, NEW e \in Events
    PROVE  /\ [c EXCEPT !.etag[e] = c.ver[e]] \in CICalendar
           /\ [c EXCEPT !.ver[e] = 0] \in CICalendar
           /\ \A v \in Version : [c EXCEPT !.ver[e] = v, !.etag[e] = v] \in CICalendar
<1>1. 0 \in Version /\ c.ver[e] \in Version
    BY CalendarAssumption DEF CICalendar, Version
<1>2. \A v \in Version : [c.ver EXCEPT ![e] = v] \in [Events -> Version]
                        /\ [c.etag EXCEPT ![e] = v] \in [Events -> Version]
    BY DEF CICalendar
<1>3. \A v \in Version : [c EXCEPT !.ver[e] = v, !.etag[e] = v] \in CICalendar
    BY <1>2 DEF CICalendar
<1>4. [c EXCEPT !.etag[e] = c.ver[e]] \in CICalendar
    BY <1>1, <1>2 DEF CICalendar
<1>5. [c EXCEPT !.ver[e] = 0] \in CICalendar
    BY <1>1, <1>2 DEF CICalendar
<1> QED
    BY <1>3, <1>4, <1>5

(* The locals of a synchronisation, as it goes on.                         *)
LEMMA SyncTypes ==
    ASSUME NEW s \in Synchronisation
    PROVE  /\ s.news \cup s.todo \cup s.both \cup s.winner \cup s.fetch \subseteq Events
           /\ \A X \in SUBSET Events, b \in BOOLEAN :
                /\ [s EXCEPT !.todo = X] \in Synchronisation
                /\ [s EXCEPT !.both = X] \in Synchronisation
                /\ [s EXCEPT !.winner = X] \in Synchronisation
                /\ [s EXCEPT !.fetch = X] \in Synchronisation
                /\ [s EXCEPT !.sent = b] \in Synchronisation
                /\ [s EXCEPT !.news = X] \in Synchronisation
BY DEF Synchronisation

(* A change of the user's whose request fails.                             *)
LEMMA SpentOnFailure ==
    ASSUME SpentOK, spent.edits < MaxEdits,
           spent' = [spent EXCEPT !.edits = @ + 1, !.faults = @ + 1]
    PROVE  SpentOK'
<1>0. spent.edits + 1 \in Nat /\ spent.faults + 1 \in Nat
    BY DEF SpentOK
<1>1. \A m, n \in Nat : [spent EXCEPT !.edits = m, !.faults = n]
                         \in [edits : Nat, others : Nat, faults : Nat, crashes : Nat]
    BY DEF SpentOK
<1>2. spent'.edits = spent.edits + 1 /\ spent'.others = spent.others
    BY DEF SpentOK
<1>3. spent.edits \in Nat /\ MaxEdits \in Nat
    BY CalendarAssumption DEF SpentOK
<1>4. spent' \in [edits : Nat, others : Nat, faults : Nat, crashes : Nat]
    BY <1>0, <1>1
<1> QED
    BY <1>2, <1>3, <1>4 DEF SpentOK

(* The record of event e is handled.                                       *)
LEMMA TakenTypes ==
    ASSUME SyncOK, NEW e \in Events
    PROVE  /\ Taken(e) \in Synchronisation
           /\ [Taken(e) EXCEPT !.sent = TRUE] \in Synchronisation
           /\ [Taken(e) EXCEPT !.sent = TRUE, !.news = @ \ {e}] \in Synchronisation
           /\ [Taken(e) EXCEPT !.both = @ \cup {e}] \in Synchronisation
<1>1. Taken(e) \in Synchronisation
    BY DEF SyncOK, Synchronisation, Taken
<1>2. \A s \in Synchronisation :
         /\ [s EXCEPT !.sent = TRUE] \in Synchronisation
         /\ [s EXCEPT !.sent = TRUE, !.news = @ \ {e}] \in Synchronisation
         /\ [s EXCEPT !.both = @ \cup {e}] \in Synchronisation
    BY DEF Synchronisation
<1> QED
    BY <1>1, <1>2

(* The versions there can be of an event.                                  *)
LEMMA RevisionsOK ==
    ASSUME SpentOK, Left("edits", MaxEdits) \/ Left("others", MaxOthers),
           NEW e \in Events, NEW v \in Version
    PROVE  /\ Revisions(v, e) \subseteq Version
           /\ v = 0 => 0 \notin Revisions(v, e)
BY CalendarAssumption DEF SpentOK, Left, Revisions, NextVersion, Version

(* The server, after a PUT or DELETE.                                      *)
LEMMA StoreType ==
    ASSUME TypeOK, StampOK, NEW e \in Events, NEW v \in Version, Store(e, v)
    PROVE  /\ server' \in [Events -> Version] /\ stamp' \in [Events -> Nat] /\ rev' \in Nat
           /\ StampOK'
<1>1. CASE UNCHANGED serverVars
    BY <1>1 DEF serverVars, TypeOK, StampOK
<1>2. CASE /\ server' = [server EXCEPT ![e] = v] /\ rev' = rev + 1
           /\ stamp' = [stamp EXCEPT ![e] = rev + 1]
    BY <1>2 DEF TypeOK, StampOK
<1> QED
    BY <1>1, <1>2 DEF Store

-----------------------------------------------------------------------------
(* Types.                                                                  *)

(* The first start: an empty calendar, and no synchronisation.             *)
LEMMA TypesInitially == Init => Types
<1> SUFFICES ASSUME Init PROVE Types
    OBVIOUS
<1>1. server \in [Events -> Version]
    BY CalendarAssumption DEF Init, StoreInit, Version
<1>2. SyncOK
    BY CalendarAssumption DEF Init, NoSync, SyncOK, Synchronisation, Empty, Version
<1>3. stamp \in [Events -> Nat] /\ StampOK
    BY <1>1 DEF Init, StoreInit, StampOK, Version
<1>4. SpentOK
    BY CalendarAssumption DEF Init, StoreInit, SpentOK
<1> QED
    BY <1>1, <1>2, <1>3, <1>4, EmptyType
    DEF Init, StoreInit, NoSync, Types, TypeOK, Steps

(* Every step of the calendar, its server and a synchronisation.           *)
LEMMA TypesPreserved == Types /\ [Next]_vars => Types'
<1> SUFFICES ASSUME Types, [Next]_vars PROVE Types'
    OBVIOUS
<1> USE CalendarAssumption
    DEF Types, TypeOK, SyncOK, Synchronisation, SpentOK, StampOK, Steps, Left, Spend, Local, ReadOnly, Syncing,
        serverVars, dueVars, Sent
<1>b. NoSync \in Synchronisation
    BY DEF NoSync, Synchronisation, Empty, Version
<1>f. \A s : Proceed(s) => sync' = s /\ pc' \in {"resolve", "fetch", "token"}
    BY DEF Proceed, After
<1>a. Aside => SyncOK'
    BY <1>b DEF Aside
<1>e. \A e \in Events :
         /\ Taken(e) \in Synchronisation
         /\ [Taken(e) EXCEPT !.sent = TRUE] \in Synchronisation
         /\ [Taken(e) EXCEPT !.sent = TRUE, !.news = @ \ {e}] \in Synchronisation
         /\ [Taken(e) EXCEPT !.both = @ \cup {e}] \in Synchronisation
    BY TakenTypes
<1>c. 0 \in Version /\ \A e \in Events : cal.ver[e] \in Version /\ cal.recording[e] \in Recordable
    BY DEF Version, CICalendar
<1>d. Finished \in CICalendar /\ \A n \in Nat : [Finished EXCEPT !.ETag = n] \in CICalendar
    BY CalendarTypes DEF Finished
<1>1. CASE OtherClient /\ Aside
  <2>1. PICK e \in Events : \E v \in Revisions(server[e], e) : Store(e, v)
    BY <1>1 DEF OtherClient
  <2>2. PICK v \in Revisions(server[e], e) : Store(e, v)
    BY <2>1
  <2>3. v \in Version
    BY <1>1, RevisionsOK DEF OtherClient
  <2>4. SpentOK'
    BY <1>1 DEF OtherClient
  <2> QED
    BY <1>1, <1>a, <2>2, <2>3, <2>4, StoreType DEF OtherClient
<1>2. CASE EditOffline /\ Aside
  <2>1. PICK e \in Events, v \in Version : cal' = Edited(cal, e, v) /\ ToSend(e)
    BY <1>2 DEF EditOffline
  <2>2. cal' \in CICalendar
    BY <2>1, EditedType
  <2>3. SpentOK' /\ unsent' \cup kept' \subseteq Events
    BY <1>2, <2>1 DEF EditOffline, Editing, ToSend
  <2> QED
    BY <1>2, <1>a, <2>2, <2>3 DEF EditOffline, Editing
<1>3. CASE EditOnline /\ Aside
  <2>1. PICK e \in Events, v \in Version :
          /\ Store(e, v)
          /\ cal' = ClearRecording([Edited(cal, e, v) EXCEPT !.etag[e] = v])
    BY <1>3 DEF EditOnline
  <2>2. cal' \in CICalendar
    BY <2>1, EditedType, CalendarTypes
  <2>3. SpentOK' /\ spoilt' \subseteq Events
        /\ unsent' \cup kept' \subseteq Events
    BY <1>3 DEF EditOnline, Editing
  <2> QED
    BY <1>3, <1>a, <2>1, <2>2, <2>3, StoreType DEF EditOnline, Editing
<1>4. CASE EditFails /\ Aside
  <2>1. PICK e \in Events, v \in Version :
          /\ cal' = Edited(cal, e, v)
          /\ \/ Store(e, v) /\ unsent' = unsent \ {e}
             \/ UNCHANGED serverVars /\ ToSend(e)
    BY <1>4 DEF EditFails
  <2>2. cal' \in CICalendar
    BY <2>1, EditedType
  <2>3. SpentOK'
    BY <1>4, SpentOnFailure DEF EditFails, Editing
  <2>4. unsent' \cup kept' \subseteq Events
    BY <1>4, <2>1 DEF EditFails, ToSend
  <2>5. /\ server' \in [Events -> Version] /\ stamp' \in [Events -> Nat] /\ rev' \in Nat
        /\ StampOK'
    BY <2>1, StoreType DEF serverVars
  <2> QED
    BY <1>4, <1>a, <2>2, <2>3, <2>4, <2>5 DEF EditFails, Editing
<1>5. CASE EditRefused /\ Aside
  <2>1. PICK e \in Events, v \in Version :
          /\ cal' = ClearRecording(Edited(cal, e, v))
          /\ spoilt' = spoilt \cup unsent \cup {e}
    BY <1>5 DEF EditRefused
  <2>2. cal' \in CICalendar
    BY <2>1, EditedType, CalendarTypes
  <2>3. SpentOK'
    BY <1>5, SpentOnFailure DEF EditRefused, Editing
  <2>4. spoilt' \subseteq Events /\ unsent' \cup kept' \subseteq Events
    BY <1>5, <2>1 DEF EditRefused
  <2> QED
    BY <1>5, <1>a, <2>2, <2>3, <2>4 DEF EditRefused, Editing, serverVars
<1>6. CASE Save /\ Aside
    BY <1>6, <1>a DEF Save, serverVars
<1>7. CASE Crash /\ Aside
    BY <1>7, <1>a, EmptyType DEF Crash, Stop, serverVars
<1>8. CASE CrashInSave /\ Aside
  <2>1. disk'.cal \in CICalendar /\ disk'.file \in BOOLEAN
    <3>1. /\ [disk.cal EXCEPT !.ver = cal.ver, !.etag = cal.etag] \in CICalendar
          /\ [Empty EXCEPT !.ver = cal.ver, !.etag = cal.etag] \in CICalendar
      BY EmptyType, CalendarTypes DEF CICalendar
    <3>2. Torn \subseteq [file : BOOLEAN, cal : CICalendar]
      BY <3>1, EmptyType DEF Torn
    <3> QED
      BY <1>8, <3>2 DEF CrashInSave
  <2>2. SpentOK' /\ cal' \in CICalendar /\ spoilt' \subseteq Events
    BY <1>8, EmptyType DEF CrashInSave, Stop
  <2> QED
    BY <1>8, <1>a, <2>1, <2>2 DEF CrashInSave, Stop, serverVars
<1>9. CASE StartOffline /\ Aside
    BY <1>9, <1>a DEF StartOffline, serverVars
<1>10. CASE GoOffline /\ Aside
    BY <1>10, <1>a DEF GoOffline, serverVars
<1>11. CASE GoOnline /\ Aside
    BY <1>11, <1>a DEF GoOnline, serverVars
<1>12. CASE StartOnline
    BY <1>12, <1>b DEF StartOnline, serverVars, Begin
<1>13. CASE CheckCalendar
    BY <1>13, <1>b DEF CheckCalendar, serverVars, Begin
<1>14. CASE FastSync
  <2>1. SyncOK'
    BY <1>14 DEF FastSync, Present, Recorded
  <2>2. spoilt' \subseteq Events
    BY <1>14 DEF FastSync, Present, Recorded
  <2> QED
    BY <1>14, <2>1, <2>2 DEF FastSync
<1>15. CASE CalendarChanged
  <2>1. cal' \in CICalendar
    BY <1>15, RereadType DEF CalendarChanged
  <2>2. SyncOK'
    <3>1. Recorded(cal') \subseteq Events
      BY DEF Recorded
    <3>2. sync' = sync \/ sync' = [sync EXCEPT !.todo = Recorded(cal')]
      BY <1>15 DEF CalendarChanged
    <3> HIDE DEF Synchronisation, TypeOK
    <3> QED
      BY <3>1, <3>2, SyncTypes
  <2>3. pc' \in {"list", "send"} /\ (pc' = "list" => ~hasSync)
    BY <1>15 DEF CalendarChanged
  <2> QED
    BY <1>15, <2>1, <2>2, <2>3 DEF CalendarChanged
<1>16. CASE GetComponentInfo
  <2>1. SyncOK'
    BY <1>16 DEF GetComponentInfo, Recorded
  <2> QED
    BY <1>16, <2>1 DEF GetComponentInfo
<1>17. ASSUME NEW e \in Events, AddComponent(e) PROVE Types'
  <2>1. server' \in [Events -> Version] /\ stamp' \in [Events -> Nat] /\ rev' \in Nat
        /\ StampOK'
    BY <1>17, <1>c, StoreType DEF AddComponent, Upload
  <2>2. cal' \in CICalendar
    BY <1>17, TaggedType DEF AddComponent, Upload
  <2>3. SyncOK'
    <3> HIDE DEF Synchronisation, TypeOK
    <3> QED
      BY <1>17, SyncTypes DEF AddComponent, Taken
  <2>4. unsent' \cup kept' \subseteq Events /\ spoilt' \subseteq Events
    BY <1>17 DEF AddComponent, Upload
  <2> QED
    BY <1>17, <2>1, <2>2, <2>3, <2>4 DEF AddComponent, Handling, Upload
<1>18. ASSUME NEW e \in Events, SkipComponent(e) PROVE Types'
  <2>1. SyncOK'
    <3> HIDE DEF Synchronisation, TypeOK
    <3> QED
      BY <1>18, SyncTypes DEF SkipComponent, Taken
  <2> QED
    BY <1>18, <2>1 DEF SkipComponent
<1>19. ASSUME NEW e \in Events, RemoveComponent(e) PROVE Types'
  <2>1. server' \in [Events -> Version] /\ stamp' \in [Events -> Nat] /\ rev' \in Nat
        /\ StampOK'
    <3>1. Store(e, 0) \/ UNCHANGED serverVars
      BY <1>19 DEF RemoveComponent
    <3>2. CASE Store(e, 0)
      BY <3>2, <1>c, StoreType
    <3>3. CASE UNCHANGED serverVars
      BY <3>3
    <3> QED
      BY <3>1, <3>2, <3>3
  <2>2. SyncOK'
    <3>1. \/ sync' = [Taken(e) EXCEPT !.sent = TRUE, !.news = @ \ {e}]
          \/ sync' = Taken(e)
      BY <1>19 DEF RemoveComponent
    <3>2. /\ Taken(e) \in Synchronisation
          /\ [Taken(e) EXCEPT !.sent = TRUE, !.news = @ \ {e}] \in Synchronisation
      BY <1>e
    <3> HIDE DEF Synchronisation, TypeOK
    <3> QED
      BY <3>1, <3>2
  <2>3. unsent' \cup kept' \subseteq Events
    BY <1>19 DEF RemoveComponent
  <2> QED
    BY <1>19, <2>1, <2>2, <2>3 DEF RemoveComponent
<1>20. ASSUME NEW e \in Events, ChangeComponent(e) PROVE Types'
  <2>1. CASE Dropped(e)
    <3>1. cal' = [cal EXCEPT !.ver[e] = 0]
      BY <1>20, <2>1 DEF ChangeComponent
    <3>3. cal' \in CICalendar
      BY <3>1, TaggedType
    <3>2. SyncOK'
      <4>1. sync' = Taken(e)
        BY <1>20, <2>1 DEF ChangeComponent
      <4> QED
        BY <4>1, <1>e
    <3> QED
      BY <1>20, <2>1, <3>2, <3>3 DEF ChangeComponent
  <2>2. CASE ~Dropped(e) /\ Later(e)
    <3>1. SyncOK'
      BY <1>20, <1>e, <2>2 DEF ChangeComponent
    <3> QED
      BY <1>20, <2>2, <3>1 DEF ChangeComponent
  <2>3. CASE ~Dropped(e) /\ ~Later(e)
    <3>1. server' \in [Events -> Version] /\ stamp' \in [Events -> Nat] /\ rev' \in Nat
          /\ StampOK'
      BY <1>20, <2>3, <1>c, StoreType DEF ChangeComponent, Upload
    <3>2. cal' \in CICalendar
      <4>1. cal' = [cal EXCEPT !.etag[e] = cal.ver[e]]
        BY <1>20, <2>3 DEF ChangeComponent, Upload
      <4> QED
        BY <4>1, TaggedType
    <3>3. SyncOK'
      <4>1. sync' = [Taken(e) EXCEPT !.sent = TRUE]
        BY <1>20, <2>3 DEF ChangeComponent
      <4> QED
        BY <4>1, <1>e
    <3>4. /\ UNCHANGED <<hasSync, disk, mode, watched, spent, pc, spoilt>>
          /\ Sent(e)
      BY <1>20, <2>3 DEF ChangeComponent, Upload
    <3> QED
      BY <3>1, <3>2, <3>3, <3>4
  <2> QED
    BY <2>1, <2>2, <2>3
<1>21. ASSUME NEW e \in Events, Resolve(e) PROVE Types'
  <2>1. cal' \in CICalendar
    <3>1. \/ UNCHANGED cal
          \/ \E v \in Version : cal' = [cal EXCEPT !.ver[e] = v, !.etag[e] = v]
      BY <1>21, <1>c DEF Resolve
    <3>2. \A v \in Version : [cal EXCEPT !.ver[e] = v, !.etag[e] = v] \in CICalendar
      BY TaggedType
    <3>3. cal \in CICalendar
      OBVIOUS
    <3> HIDE DEF TypeOK, SyncOK
    <3> QED
      BY <3>1, <3>2, <3>3
  <2>2. SyncOK' /\ pc' \in {"resolve", "fetch", "token"}
    <3>2. \/ Proceed([sync EXCEPT !.both = @ \ {e}])
          \/ Proceed([[sync EXCEPT !.both = @ \ {e}] EXCEPT !.winner = {e}])
      BY <1>21 DEF Resolve
    <3> HIDE DEF Synchronisation, TypeOK
    <3>3. /\ [sync EXCEPT !.both = @ \ {e}] \in Synchronisation
          /\ [[sync EXCEPT !.both = @ \ {e}] EXCEPT !.winner = {e}] \in Synchronisation
      BY SyncTypes
    <3> QED
      BY <1>f, <3>2, <3>3
  <2>3. unsent' \cup kept' \subseteq Events
    BY <1>21 DEF Resolve
  <2> QED
    BY <1>21, <2>1, <2>2, <2>3 DEF Resolve
<1>22. ASSUME NEW e \in Events, Overwrite(e) PROVE Types'
  <2>1. server' \in [Events -> Version] /\ stamp' \in [Events -> Nat] /\ rev' \in Nat
        /\ StampOK'
    BY <1>22, <1>c, StoreType DEF Overwrite, Upload
  <2>2. cal' \in CICalendar
    BY <1>22, TaggedType DEF Overwrite, Upload
  <2>3. SyncOK' /\ pc' \in {"resolve", "fetch", "token"}
    <3> HIDE DEF Synchronisation, TypeOK
    <3> QED
      BY <1>22, SyncTypes DEF Overwrite, Proceed, After
  <2>4. unsent' \cup kept' \subseteq Events /\ spoilt' \subseteq Events
    BY <1>22 DEF Overwrite, Upload
  <2> QED
    BY <1>22, <2>1, <2>2, <2>3, <2>4 DEF Overwrite, Upload
<1>23. ASSUME NEW e \in Events, NullComponent(e) PROVE Types'
    BY <1>23, <1>b, EmptyType DEF NullComponent, serverVars
<1>24. CASE Scan
  <2>1. cal' \in CICalendar
    <3> DEFINE ver == [e \in Events |-> IF e \in Gone \cup Stale THEN 0 ELSE cal.ver[e]]
    <3>1. ver \in [Events -> Version]
      BY <1>c DEF CICalendar
    <3>2. UNCHANGED cal \/ cal' = [cal EXCEPT !.ver = ver]
      BY <1>24 DEF Scan, CICalendar
    <3> HIDE DEF ver
    <3>3. [cal EXCEPT !.ver = ver] \in CICalendar
      BY <3>1, CalendarTypes
    <3> QED
      BY <3>2, <3>3
  <2>2. SyncOK' /\ pc' \in {"resolve", "fetch", "token"}
    <3>1. /\ Stale \cup New \subseteq Events /\ Unchanged \subseteq Events
          /\ (sync.both \cap Here) \ Unchanged \subseteq Events
      BY DEF Stale, New, Unchanged, Here, Present
    <3>2. \/ Proceed(sync)
          \/ Proceed([sync EXCEPT !.fetch = Stale \cup New, !.winner = Unchanged,
                                  !.both = (@ \cap Here) \ Unchanged])
      BY <1>24 DEF Scan
    <3>3. \A X, Y, Z \in SUBSET Events :
            [sync EXCEPT !.fetch = X, !.winner = Y, !.both = Z] \in Synchronisation
      OBVIOUS
    <3> HIDE DEF Synchronisation, TypeOK
    <3>4. [sync EXCEPT !.fetch = Stale \cup New, !.winner = Unchanged,
                       !.both = (@ \cap Here) \ Unchanged] \in Synchronisation
      BY <3>1, <3>3
    <3> QED
      BY <1>f, <3>2, <3>4
  <2> QED
    BY <1>24, <2>1, <2>2 DEF Scan
<1>25. CASE Fetch
  <2>1. cal' \in CICalendar
    <3>1. /\ [e \in Events |-> IF e \in sync.fetch THEN server[e] ELSE cal.ver[e]]
               \in [Events -> Version]
          /\ [e \in Events |-> IF e \in sync.fetch THEN server[e] ELSE cal.etag[e]]
               \in [Events -> Version]
      BY DEF CICalendar
    <3> QED
      BY <1>25, <3>1, CalendarTypes DEF Fetch
  <2>2. SyncOK' /\ pc' \in {"resolve", "fetch", "token"}
    <3> HIDE DEF Synchronisation, TypeOK
    <3> QED
      BY <1>25, SyncTypes DEF Fetch, Proceed, After
  <2> QED
    BY <1>25, <2>1, <2>2 DEF Fetch
<1>26. CASE UpdateSyncToken
  <2>1. cal' \in CICalendar
    BY <1>26, <1>d DEF UpdateSyncToken
  <2>2. spoilt' \subseteq Events
    BY <1>26 DEF UpdateSyncToken, Forgotten
  <2>3. SyncOK'
    BY <1>26, <1>b DEF UpdateSyncToken
  <2> QED
    BY <1>26, <2>1, <2>2, <2>3 DEF UpdateSyncToken
<1>27. CASE RequestFails
    BY <1>27, <1>b DEF RequestFails, Throw, serverVars
<1>28. CASE UpdateFails
  <2>1. cal' \in CICalendar
    BY <1>28, CalendarTypes DEF UpdateFails
  <2>2. spoilt' \subseteq Events
    BY <1>28 DEF UpdateFails, Forgotten
  <2>3. SyncOK'
    BY <1>28, <1>b DEF UpdateFails, Throw
  <2>4. SpentOK'
    BY <1>28 DEF UpdateFails, Throw
  <2> QED
    BY <1>28, <2>1, <2>2, <2>3, <2>4 DEF UpdateFails, Throw
<1>29. ASSUME NEW e \in Events, SendUnanswered(e) PROVE Types'
  <2>1. server' \in [Events -> Version] /\ stamp' \in [Events -> Nat] /\ rev' \in Nat
        /\ StampOK'
    BY <1>29, <1>c, StoreType DEF SendUnanswered
  <2>2. SyncOK'
    BY <1>29, <1>b DEF SendUnanswered, Throw
  <2>3. SpentOK'
    BY <1>29 DEF SendUnanswered, Throw
  <2>4. unsent' \cup kept' \subseteq Events
    BY <1>29 DEF SendUnanswered
  <2> QED
    BY <1>29, <2>1, <2>2, <2>3, <2>4 DEF SendUnanswered, Throw
<1>30. CASE ReportRefused
  <2>1. SyncOK'
    <3>1. cal.SyncToken \in Nat /\ Recorded(cal) \subseteq Events
      BY DEF CICalendar, Recorded
    <3>2. \/ sync' = NoSync
          \/ sync' = [sync EXCEPT !.token = cal.SyncToken, !.todo = Recorded(cal)]
      BY <1>30 DEF ReportRefused
    <3>3. \A n \in Nat, X \in SUBSET Events :
            [sync EXCEPT !.token = n, !.todo = X] \in Synchronisation
      OBVIOUS
    <3>4. CASE sync' = NoSync
      BY <1>b, <3>4
    <3>5. CASE sync' = [sync EXCEPT !.token = cal.SyncToken, !.todo = Recorded(cal)]
      <4>1. [sync EXCEPT !.token = cal.SyncToken, !.todo = Recorded(cal)] \in Synchronisation
        BY <3>1, <3>3
      <4> QED
        BY <3>5, <4>1
    <3> QED
      BY <3>2, <3>4, <3>5
  <2>2. SpentOK'
    BY <1>30 DEF ReportRefused, Refuse
  <2> QED
    BY <1>30, <2>1, <2>2 DEF ReportRefused, Refuse, serverVars
<1>31. CASE CheckRefused
    BY <1>31 DEF CheckRefused, Refuse, serverVars
<1>32. CASE ListRefused
  <2>1. SyncOK'
    BY <1>32 DEF ListRefused, Recorded
  <2>2. SpentOK' /\ spoilt' \subseteq Events
    BY <1>32 DEF ListRefused, Refuse
  <2> QED
    BY <1>32, <2>1, <2>2 DEF ListRefused, Refuse
<1>33. CASE FetchRefused
  <2>1. SyncOK' /\ pc' \in {"resolve", "fetch", "token"}
    <3> HIDE DEF Synchronisation, TypeOK
    <3> QED
      BY <1>33, SyncTypes DEF FetchRefused, Proceed, After
  <2> QED
    BY <1>33, <2>1 DEF FetchRefused, Refuse, serverVars
<1>34. CASE UpdateRefused
  <2>1. cal' \in CICalendar
    BY <1>34, <1>d DEF UpdateRefused
  <2>2. spoilt' \subseteq Events
    BY <1>34 DEF UpdateRefused, Forgotten
  <2>3. SyncOK'
    BY <1>34, <1>b DEF UpdateRefused
  <2>4. SpentOK'
    BY <1>34 DEF UpdateRefused, Refuse
  <2> QED
    BY <1>34, <2>1, <2>2, <2>3, <2>4 DEF UpdateRefused, Refuse
<1>35. ASSUME NEW e \in Events, SendRefused(e) PROVE Types'
  <2>1. SyncOK' /\ pc' \in {"send", "resolve", "fetch", "token"}
    <3> DEFINE rest == [Taken(e) EXCEPT !.sent = TRUE, !.winner = @ \ {e}]
    <3>1. \/ pc' = pc /\ pc = "send" /\ sync' = [rest EXCEPT !.news = @ \ {e}]
          \/ pc' = pc /\ pc = "send" /\ sync' = rest
          \/ Proceed(rest)
      BY <1>35 DEF SendRefused
    <3>2. \A s \in Synchronisation :
            /\ [s EXCEPT !.sent = TRUE, !.winner = @ \ {e}] \in Synchronisation
            /\ [s EXCEPT !.news = @ \ {e}] \in Synchronisation
      OBVIOUS
    <3> HIDE DEF Synchronisation, TypeOK
    <3>3. rest \in Synchronisation
      BY <1>e, <3>2
    <3>4. [rest EXCEPT !.news = @ \ {e}] \in Synchronisation
      BY <3>2, <3>3
    <3> HIDE DEF rest
    <3> QED
      BY <1>f, <3>1, <3>3, <3>4
  <2> QED
    BY <1>35, <2>1 DEF SendRefused, Refuse, serverVars
<1>36. ASSUME NEW e \in Events, ReadRefused(e) PROVE Types'
  <2>1. SyncOK' /\ pc' \in {"resolve", "fetch", "token"}
    <3> HIDE DEF Synchronisation, TypeOK
    <3> QED
      BY <1>36, SyncTypes DEF ReadRefused, Proceed, After
  <2> QED
    BY <1>36, <2>1 DEF ReadRefused, Refuse, serverVars
<1>37. CASE UNCHANGED vars
  <2> USE <1>37 DEF vars, storeVars, serverVars
  <2> QED
    BY DEF StampOK
<1> QED
    BY <1>1, <1>2, <1>3, <1>4, <1>5, <1>6, <1>7, <1>8, <1>9, <1>10, <1>11,
       <1>12, <1>13, <1>14, <1>15, <1>16, <1>17, <1>18, <1>19, <1>20, <1>21,
       <1>22, <1>23, <1>24, <1>25, <1>26, <1>27, <1>28, <1>29, <1>30, <1>31,
       <1>32, <1>33, <1>34, <1>35, <1>36, <1>37
    DEF Next, SyncStep, Request, Refused

-----------------------------------------------------------------------------
(* The shape of a synchronisation.                                         *)

(* A synchronisation that begins, goes on or ends: what is left of it.     *)
LEMMA ShapePreserved ==
    ASSUME Types, Types', Shape, Stopped, [Next]_vars PROVE Shape'
<1> USE DEF Shape, Order, BothOK, ToldOK, Informed, Local, ReadOnly, Syncing
<1>t. /\ sync \in Synchronisation /\ cal \in CICalendar
      /\ server \in [Events -> Version] /\ stamp \in [Events -> Nat] /\ rev \in Nat
      /\ \A e \in Events : stamp[e] <= rev
      /\ cal.recording \in [Events -> Recordable]
    BY DEF Types, TypeOK, SyncOK, StampOK, CICalendar
<1>i. sync' = NoSync /\ pc' \notin Informed => Shape'
    BY DEF NoSync, Removed
<1>s. sync' = sync /\ pc' \notin Informed /\ pc \notin Informed /\ UNCHANGED hasSync => Shape'
    BY DEF Removed
<1>p. \A s : Proceed(s) =>
        /\ sync' = s /\ pc' \in {"resolve", "fetch", "token"}
        /\ pc' \in {"fetch", "token"} => s.both = {} /\ s.winner = {}
    BY DEF Proceed, After
<1>1. CASE OtherClient /\ Aside
  <2>1. UNCHANGED <<hasSync, cal, pc>> /\ (sync' = NoSync \/ sync' = sync) /\ (pc \in Informed => sync' = sync)
    BY <1>1 DEF OtherClient, Aside
  <2>2. CASE sync' = sync
    BY <2>1, <2>2 DEF Listed, Removed
  <2>3. CASE pc \notin Informed /\ sync' = NoSync
    BY <2>1, <2>3, <1>i
  <2> QED
    BY <2>1, <2>2, <2>3
<1>2. CASE EditOffline /\ Aside
  <2>1. pc' \notin Informed /\ pc \notin Informed /\ (sync' = NoSync \/ sync' = sync)
    BY <1>2 DEF EditOffline, Aside, Idle
  <2> QED
    BY <1>2, <2>1, <1>i, <1>s DEF EditOffline, Editing
<1>3. CASE EditOnline /\ Aside
  <2>1. pc' \notin Informed /\ pc \notin Informed /\ (sync' = NoSync \/ sync' = sync)
    BY <1>3 DEF EditOnline, Aside, Idle
  <2> QED
    BY <1>3, <2>1, <1>i, <1>s DEF EditOnline, Editing
<1>4. CASE EditFails /\ Aside
  <2>1. pc' \notin Informed /\ pc \notin Informed /\ (sync' = NoSync \/ sync' = sync)
    BY <1>4 DEF EditFails, Aside, Idle
  <2> QED
    BY <1>4, <2>1, <1>i, <1>s DEF EditFails, Editing
<1>5. CASE EditRefused /\ Aside
  <2>1. pc' \notin Informed /\ pc \notin Informed /\ (sync' = NoSync \/ sync' = sync)
    BY <1>5 DEF EditRefused, Aside, Idle
  <2> QED
    BY <1>5, <2>1, <1>i, <1>s DEF EditRefused, Editing
<1>6. CASE Save /\ Aside
  <2>1. pc' \notin Informed /\ pc \notin Informed /\ (sync' = NoSync \/ sync' = sync)
    BY <1>6 DEF Save, Aside, Idle
  <2> QED
    BY <1>6, <2>1, <1>i, <1>s DEF Save, Editing
<1>7. CASE Crash /\ Aside
  <2>1. sync' = NoSync /\ pc' \notin Informed
    BY <1>7 DEF Crash, Stop, Aside
  <2> QED
    BY <2>1, <1>i
<1>8. CASE CrashInSave /\ Aside
  <2>1. sync' = NoSync /\ pc' \notin Informed
    BY <1>8 DEF CrashInSave, Stop, Aside
  <2> QED
    BY <2>1, <1>i
<1>9. CASE StartOffline /\ Aside
  <2>1. pc' \notin Informed /\ pc \notin Informed /\ (sync' = NoSync \/ sync' = sync)
    BY <1>9 DEF StartOffline, Aside, Stopped, Running
  <2> QED
    BY <1>9, <2>1, <1>i, <1>s DEF StartOffline
<1>10. CASE GoOffline /\ Aside
  <2>1. sync' = NoSync /\ pc' \notin Informed
    BY <1>10 DEF GoOffline, Aside
  <2> QED
    BY <2>1, <1>i
<1>11. CASE GoOnline /\ Aside
  <2>1. sync' = NoSync /\ pc' \notin Informed
    BY <1>11 DEF GoOnline, Aside
  <2> QED
    BY <2>1, <1>i
<1>12. CASE StartOnline
  <2>1. /\ sync'.both = {} /\ sync'.winner = {} /\ sync'.fetch = {} /\ sync'.news = {}
        /\ pc' \notin Informed
    BY <1>12 DEF StartOnline, Begin, NoSync
  <2> QED
    BY <2>1 DEF Removed
<1>13. CASE CheckCalendar
  <2>1. /\ sync'.both = {} /\ sync'.winner = {} /\ sync'.fetch = {} /\ sync'.news = {}
        /\ pc' \notin Informed
    BY <1>13 DEF CheckCalendar, Begin, NoSync
  <2> QED
    BY <2>1 DEF Removed
<1>14. CASE FastSync
  <2>1. /\ pc' = "send" /\ sync'.both = {} /\ sync'.winner = {}
        /\ sync'.changed = (rev # cal.SyncToken) /\ sync'.seen = server
        /\ sync'.news = IF cal.SyncToken = 0 THEN Present(server)
                        ELSE {e \in Events : stamp[e] > cal.SyncToken}
    BY <1>14, <1>t DEF FastSync, Synchronisation
  <2>2. rev = cal.SyncToken => \A e \in Events : ~Removed(e)'
    BY <1>t, <2>1 DEF Removed, Present
  <2> QED
    BY <2>1, <2>2
<1>15. CASE CalendarChanged
    BY <1>15, <1>t, <1>p DEF CalendarChanged, Synchronisation, Removed, Listed, Handling, Taken
<1>16. CASE GetComponentInfo
    BY <1>16, <1>t, <1>p DEF GetComponentInfo, Synchronisation, Removed, Listed, Handling, Taken
<1>17. ASSUME NEW e \in Events, AddComponent(e) PROVE Shape'
  <2>1. /\ UNCHANGED <<pc, hasSync>> /\ pc = "send" /\ cal'.recording = cal.recording
        /\ sync'.both = sync.both /\ sync'.winner = sync.winner /\ sync'.news = sync.news
        /\ sync'.seen = sync.seen /\ sync'.changed = sync.changed
        /\ sync'.todo \subseteq sync.todo
    BY <1>17, <1>t DEF AddComponent, Handling, Upload, Taken, Synchronisation, CICalendar
  <2> QED
    BY <2>1 DEF Listed, Removed
<1>18. ASSUME NEW e \in Events, SkipComponent(e) PROVE Shape'
    BY <1>18, <1>t, <1>p DEF SkipComponent, Synchronisation, Removed, Listed, Handling, Taken
<1>19. ASSUME NEW e \in Events, RemoveComponent(e) PROVE Shape'
  <2>1. /\ UNCHANGED <<pc, hasSync, cal>> /\ pc = "send" /\ cal.recording[e] = "removed"
        /\ sync'.both = sync.both /\ sync'.winner = sync.winner
        /\ sync'.news \subseteq sync.news /\ sync.news \subseteq sync'.news \cup {e}
        /\ sync'.seen = sync.seen /\ sync'.changed = sync.changed
        /\ sync'.todo \subseteq sync.todo
    <3>1. UNCHANGED <<pc, hasSync, cal>> /\ pc = "send" /\ cal.recording[e] = "removed"
      BY <1>19 DEF RemoveComponent, Handling
    <3>2. CASE ToRemove(e)
      <4>1. sync' = [Taken(e) EXCEPT !.sent = TRUE, !.news = @ \ {e}]
        BY <1>19, <3>2 DEF RemoveComponent
      <4> QED
        BY <1>t, <3>1, <4>1 DEF Taken, Synchronisation
    <3>3. CASE ~ToRemove(e)
      BY <1>19, <1>t, <3>1, <3>3 DEF RemoveComponent, Taken, Synchronisation
    <3> QED
      BY <3>2, <3>3
  <2> QED
    BY <2>1 DEF Listed, Removed
<1>20. ASSUME NEW e \in Events, ChangeComponent(e) PROVE Shape'
  <2>1. /\ UNCHANGED <<pc, hasSync>> /\ pc = "send" /\ cal.recording[e] = "changed"
        /\ e \in sync.todo
    BY <1>20 DEF ChangeComponent, Handling, Upload
  <2>2. cal'.recording = cal.recording
    BY <1>20, <1>t DEF ChangeComponent, Upload, CICalendar
  <2>3. /\ sync'.winner = sync.winner /\ sync'.news = sync.news
        /\ sync'.seen = sync.seen /\ sync'.changed = sync.changed
        /\ sync'.todo = sync.todo \ {e}
        /\ \/ sync'.both = sync.both
           \/ sync'.both = sync.both \cup {e} /\ (hasSync => Listed(e))
    <3>1. \/ sync' = Taken(e)
          \/ sync' = [Taken(e) EXCEPT !.both = @ \cup {e}] /\ (hasSync => Listed(e))
          \/ sync' = [Taken(e) EXCEPT !.sent = TRUE]
      BY <1>20 DEF ChangeComponent, Later
    <3> QED
      BY <3>1, <1>t DEF Taken, Synchronisation
  <2> QED
    BY <2>1, <2>2, <2>3 DEF Listed, Removed
<1>21. ASSUME NEW e \in Events, Resolve(e) PROVE Shape'
  <2> DEFINE A == [sync EXCEPT !.both = @ \ {e}]
             B == [A EXCEPT !.winner = {e}]
  <2>1. Proceed(A) \/ Proceed(B)
    BY <1>21 DEF Resolve
  <2>2. sync.todo = {} /\ UNCHANGED hasSync
    BY <1>21 DEF Resolve
  <2>3. \A s \in {A, B} : /\ s.todo = sync.todo /\ s.news = sync.news
                        /\ s.seen = sync.seen /\ s.changed = sync.changed
    BY <1>t DEF Synchronisation
  <2> HIDE DEF A, B
  <2>4. PICK s \in {A, B} : Proceed(s)
    BY <2>1
  <2>5. /\ sync' = s /\ pc' \in {"resolve", "fetch", "token"}
        /\ pc' \in {"fetch", "token"} => s.both = {} /\ s.winner = {}
    BY <1>p, <2>4
  <2> QED
    BY <2>2, <2>3, <2>5 DEF Removed
<1>22. ASSUME NEW e \in Events, Overwrite(e) PROVE Shape'
  <2> DEFINE A == [sync EXCEPT !.winner = @ \ {e}, !.sent = TRUE]
  <2>1. Proceed(A)
    BY <1>22 DEF Overwrite
  <2>2. sync.todo = {} /\ UNCHANGED hasSync
    BY <1>22 DEF Overwrite, Upload
  <2>3. \A s \in {A} : /\ s.todo = sync.todo /\ s.news = sync.news
                        /\ s.seen = sync.seen /\ s.changed = sync.changed
    BY <1>t DEF Synchronisation
  <2> HIDE DEF A
  <2>4. PICK s \in {A} : Proceed(s)
    BY <2>1
  <2>5. /\ sync' = s /\ pc' \in {"resolve", "fetch", "token"}
        /\ pc' \in {"fetch", "token"} => s.both = {} /\ s.winner = {}
    BY <1>p, <2>4
  <2> QED
    BY <2>2, <2>3, <2>5 DEF Removed
<1>23. ASSUME NEW e \in Events, NullComponent(e) PROVE Shape'
  <2>1. sync' = NoSync /\ pc' \notin Informed
    BY <1>23 DEF NullComponent
  <2> QED
    BY <2>1, <1>i
<1>24. CASE Scan
  <2> DEFINE A == sync
             B == [sync EXCEPT !.fetch = Stale \cup New, !.winner = Unchanged,
                                 !.both = (@ \cap Here) \ Unchanged]
  <2>1. Proceed(A) \/ Proceed(B)
    BY <1>24 DEF Scan
  <2>2. sync.todo = {} /\ UNCHANGED hasSync
    BY <1>24 DEF Scan
  <2>3. \A s \in {A, B} : /\ s.todo = sync.todo /\ s.news = sync.news
                        /\ s.seen = sync.seen /\ s.changed = sync.changed
    BY <1>t DEF Synchronisation
  <2> HIDE DEF A, B
  <2>4. PICK s \in {A, B} : Proceed(s)
    BY <2>1
  <2>5. /\ sync' = s /\ pc' \in {"resolve", "fetch", "token"}
        /\ pc' \in {"fetch", "token"} => s.both = {} /\ s.winner = {}
    BY <1>p, <2>4
  <2> QED
    BY <2>2, <2>3, <2>5 DEF Removed
<1>25. CASE Fetch
  <2> DEFINE A == [sync EXCEPT !.fetch = {}]
  <2>1. Proceed(A)
    BY <1>25 DEF Fetch
  <2>2. sync.todo = {} /\ UNCHANGED hasSync
    BY <1>25 DEF Fetch
  <2>3. \A s \in {A} : /\ s.todo = sync.todo /\ s.news = sync.news
                        /\ s.seen = sync.seen /\ s.changed = sync.changed
    BY <1>t DEF Synchronisation
  <2> HIDE DEF A
  <2>4. PICK s \in {A} : Proceed(s)
    BY <2>1
  <2>5. /\ sync' = s /\ pc' \in {"resolve", "fetch", "token"}
        /\ pc' \in {"fetch", "token"} => s.both = {} /\ s.winner = {}
    BY <1>p, <2>4
  <2> QED
    BY <2>2, <2>3, <2>5 DEF Removed
<1>26. CASE UpdateSyncToken
  <2>1. sync' = NoSync /\ pc' \notin Informed
    BY <1>26 DEF UpdateSyncToken
  <2> QED
    BY <2>1, <1>i
<1>27. CASE RequestFails
  <2>1. sync' = NoSync /\ pc' \notin Informed
    BY <1>27 DEF RequestFails, Throw
  <2> QED
    BY <2>1, <1>i
<1>28. CASE UpdateFails
  <2>1. sync' = NoSync /\ pc' \notin Informed
    BY <1>28 DEF UpdateFails, Throw
  <2> QED
    BY <2>1, <1>i
<1>29. ASSUME NEW e \in Events, SendUnanswered(e) PROVE Shape'
  <2>1. sync' = NoSync /\ pc' \notin Informed
    BY <1>29 DEF SendUnanswered, Throw
  <2> QED
    BY <2>1, <1>i
<1>30. CASE ReportRefused
  <2>1. CASE pc' = "idle" /\ sync' = NoSync
    BY <2>1, <1>i
  <2>2. CASE pc' = "send" /\ sync' = [sync EXCEPT !.token = cal.SyncToken, !.todo = Recorded(cal)]
    <3>1. /\ UNCHANGED hasSync /\ sync'.both = {} /\ sync'.winner = {}
          /\ sync'.news = sync.news /\ sync'.seen = sync.seen /\ sync'.changed = sync.changed
      BY <1>30, <2>2, <1>t DEF ReportRefused, Refuse, Synchronisation
    <3> QED
      BY <2>2, <3>1 DEF Removed
  <2> QED
    BY <1>30, <2>1, <2>2 DEF ReportRefused
<1>31. CASE CheckRefused
  <2>1. pc' \notin Informed /\ pc \notin Informed /\ UNCHANGED <<sync, hasSync>>
    BY <1>31 DEF CheckRefused, Refuse
  <2> QED
    BY <2>1, <1>s
<1>32. CASE ListRefused
  <2>1. /\ pc' = "send" /\ sync'.both = {} /\ sync'.winner = {} /\ sync'.changed
    BY <1>32, <1>t DEF ListRefused, Synchronisation
  <2> QED
    BY <2>1
<1>33. CASE FetchRefused
  <2> DEFINE A == [sync EXCEPT !.fetch = {}]
  <2>1. Proceed(A)
    BY <1>33 DEF FetchRefused
  <2>2. sync.todo = {} /\ UNCHANGED hasSync
    BY <1>33 DEF FetchRefused, Refuse
  <2>3. \A s \in {A} : /\ s.todo = sync.todo /\ s.news = sync.news
                        /\ s.seen = sync.seen /\ s.changed = sync.changed
    BY <1>t DEF Synchronisation
  <2> HIDE DEF A
  <2>4. PICK s \in {A} : Proceed(s)
    BY <2>1
  <2>5. /\ sync' = s /\ pc' \in {"resolve", "fetch", "token"}
        /\ pc' \in {"fetch", "token"} => s.both = {} /\ s.winner = {}
    BY <1>p, <2>4
  <2> QED
    BY <2>2, <2>3, <2>5 DEF Removed
<1>34. CASE UpdateRefused
  <2>1. sync' = NoSync /\ pc' \notin Informed
    BY <1>34 DEF UpdateRefused
  <2> QED
    BY <2>1, <1>i
<1>35. ASSUME NEW e \in Events, SendRefused(e) PROVE Shape'
  <2> DEFINE rest == [Taken(e) EXCEPT !.sent = TRUE, !.winner = @ \ {e}]
  <2>1. /\ UNCHANGED <<hasSync, cal>> /\ sync'.todo = sync.todo \ {e}
        /\ sync'.both = sync.both /\ sync'.winner = sync.winner \ {e}
        /\ sync'.seen = sync.seen /\ sync'.changed = sync.changed
        /\ sync'.news \subseteq sync.news
        /\ sync'.news = sync.news \/ (sync'.news = sync.news \ {e} /\ cal.recording[e] = "removed")
    <3>1. \/ sync' = rest
          \/ sync' = [rest EXCEPT !.news = @ \ {e}] /\ cal.recording[e] = "removed"
      BY <1>35, <1>p DEF SendRefused
    <3>2. /\ rest.todo = sync.todo \ {e} /\ rest.both = sync.both
          /\ rest.winner = sync.winner \ {e} /\ rest.seen = sync.seen
          /\ rest.changed = sync.changed /\ rest.news = sync.news
          /\ rest \in Synchronisation
      BY <1>t DEF Taken, Synchronisation
    <3> HIDE DEF rest
    <3>3. \A s \in Synchronisation :
            LET n == [s EXCEPT !.news = @ \ {e}]
            IN  /\ n.todo = s.todo /\ n.both = s.both /\ n.winner = s.winner
                /\ n.seen = s.seen /\ n.changed = s.changed /\ n.news = s.news \ {e}
      BY DEF Synchronisation
    <3>4. UNCHANGED <<hasSync, cal>>
      BY <1>35 DEF SendRefused, Refuse
    <3>5. CASE sync' = rest
      BY <3>2, <3>4, <3>5
    <3>6. CASE sync' = [rest EXCEPT !.news = @ \ {e}] /\ cal.recording[e] = "removed"
      BY <3>2, <3>3, <3>4, <3>6
    <3> QED
      BY <3>1, <3>5, <3>6
  <2>2. CASE pc = "send"
    <3>1. pc' = "send"
      BY <1>35, <2>2 DEF SendRefused
    <3> QED
      BY <2>1, <2>2, <3>1 DEF Listed, Removed
  <2>3. CASE pc # "send"
    <3>1. /\ pc' \in {"resolve", "fetch", "token"} /\ sync.todo = {}
          /\ pc' \in {"fetch", "token"} => sync'.both = {} /\ sync'.winner = {}
      <4>1. Proceed(rest) /\ pc = "resolve"
        BY <1>35, <2>3 DEF SendRefused, Sending, Handling
      <4> HIDE DEF rest
      <4>2. sync' = rest /\ pc' \in {"resolve", "fetch", "token"}
            /\ (pc' \in {"fetch", "token"} => rest.both = {} /\ rest.winner = {})
        BY <1>p, <4>1
      <4> QED
        BY <4>1, <4>2
    <3> QED
      BY <2>1, <3>1 DEF Removed
  <2> QED
    BY <2>2, <2>3
<1>36. ASSUME NEW e \in Events, ReadRefused(e) PROVE Shape'
  <2> DEFINE A == [sync EXCEPT !.both = @ \ {e}]
  <2>1. Proceed(A)
    BY <1>36 DEF ReadRefused
  <2>2. sync.todo = {} /\ UNCHANGED hasSync
    BY <1>36 DEF ReadRefused, Refuse
  <2>3. \A s \in {A} : /\ s.todo = sync.todo /\ s.news = sync.news
                        /\ s.seen = sync.seen /\ s.changed = sync.changed
    BY <1>t DEF Synchronisation
  <2> HIDE DEF A
  <2>4. PICK s \in {A} : Proceed(s)
    BY <2>1
  <2>5. /\ sync' = s /\ pc' \in {"resolve", "fetch", "token"}
        /\ pc' \in {"fetch", "token"} => s.both = {} /\ s.winner = {}
    BY <1>p, <2>4
  <2> QED
    BY <2>2, <2>3, <2>5 DEF Removed
<1>37. CASE UNCHANGED vars
    BY <1>37 DEF vars, storeVars, Listed, Removed
<1> QED
    BY <1>1, <1>2, <1>3, <1>4, <1>5, <1>6, <1>7, <1>8, <1>9, <1>10, <1>11,
       <1>12, <1>13, <1>14, <1>15, <1>16, <1>17, <1>18, <1>19, <1>20, <1>21,
       <1>22, <1>23, <1>24, <1>25, <1>26, <1>27, <1>28, <1>29, <1>30, <1>31,
       <1>32, <1>33, <1>34, <1>35, <1>36, <1>37
    DEF Next, SyncStep, Request, Refused

-----------------------------------------------------------------------------
(* The user's changes.                                                     *)

(* Nothing else comes to wait, and what waits stays as it is.              *)
NoMore ==
    spoilt \subseteq spoilt' /\ unsent' \subseteq unsent /\ kept' \subseteq kept

SameRecords ==
    \A e \in Waiting' :
        /\ cal'.recording[e] = cal.recording[e]
        /\ cal'.ver[e] = cal.ver[e] \/ cal.recording[e] = "removed"

(* A step after which no more has to be sent, and the records of what has  *)
(* to be are the same.                                                     *)
LEMMA GoesOn ==
    ASSUME InMemory, InCache, NoMore, SameRecords, Running, UNCHANGED disk
    PROVE  /\ InMemory' /\ InCache'
           /\ FetchOK /\ sync'.fetch \subseteq sync.fetch => FetchOK'
<1>1. Waiting' \subseteq Waiting /\ Stored' \subseteq Stored
    BY DEF NoMore, Waiting, Stored
<1> QED
    BY <1>1 DEF InMemory, InCache, FetchOK, SameRecords, Fits

(* All has been sent, or given up; the cache is as it was.                 *)
LEMMA NothingWaits ==
    ASSUME InCache, Waiting' = {}, UNCHANGED <<disk, kept>>, spoilt \subseteq spoilt'
    PROVE  InMemory' /\ InCache' /\ Handled' /\ FetchOK'
<1>1. Stored' \subseteq Stored
    BY DEF Stored
<1> QED
    BY <1>1 DEF InMemory, InCache, Handled, FetchOK, Fits

(* A change of event e is recorded, that of another event untouched.       *)
Records(e) ==
    /\ cal'.recording[e] # "none" => Fits(cal', e)
    /\ \A f \in Events \ {e} : /\ cal'.recording[f] = cal.recording[f]
                               /\ cal'.ver[f] = cal.ver[f]

(* The user's change has an event to send, or is the removal of one.       *)
LEMMA EditFits ==
    ASSUME Types, NEW e \in Events, NEW v \in Version, Editing(e, v),
           cal' = Edited(cal, e, v)
    PROVE  Records(e)
<1>1. cal \in CICalendar /\ cal.ver[e] \in Version /\ SpentOK
    BY DEF Types, TypeOK, CICalendar
<1>2. cal.ver[e] = 0 => v # 0
    BY <1>1, RevisionsOK DEF Editing
<1>a. /\ Edited(cal, e, v).ver = [cal.ver EXCEPT ![e] = v]
      /\ Edited(cal, e, v).recording = [cal.recording EXCEPT ![e] = RecordAction(cal, e, v)]
    BY <1>1 DEF Edited, CICalendar
<1>3. /\ cal'.ver = [cal.ver EXCEPT ![e] = v]
      /\ cal'.recording = [cal.recording EXCEPT ![e] = RecordAction(cal, e, v)]
    BY <1>a
<1>4. RecordAction(cal, e, v) \in {"none", "removed"} \/ v # 0
    BY <1>2 DEF RecordAction
<1> QED
    BY <1>1, <1>3, <1>4 DEF Records, Fits, CICalendar

(* The cache brings back only what is recorded as removed.                 *)
LEMMA RereadFits ==
    ASSUME NEW c \in CICalendar, NEW d \in CICalendar, NEW e \in Events, Fits(c, e)
    PROVE  /\ Reread(c, d).recording[e] = c.recording[e]
           /\ Reread(c, d).ver[e] = c.ver[e] \/ c.recording[e] = "removed"
BY DEF Reread, Fits, CICalendar

(* and what is recorded there, where nothing is recorded in memory.        *)
LEMMA RereadBack ==
    ASSUME NEW c \in CICalendar, NEW d \in CICalendar, NEW e \in Events,
           c.recording[e] = "none", Fits(d, e)
    PROVE  Fits(Reread(c, d), e)
BY DEF Reread, Fits, CICalendar

(* Every step keeps what has to be sent where the next step looks for it.  *)
LEMMA EditsPreserved ==
    ASSUME Types, Types', Shape, Edits, [Next]_vars PROVE Edits'
<1> USE DEF Edits, Local, ReadOnly, Syncing, dueVars, Sent
<1>t. /\ sync \in Synchronisation /\ cal \in CICalendar /\ disk.cal \in CICalendar
      /\ server \in [Events -> Version] /\ unsent \cup kept \subseteq Events
      /\ cal.ver \in [Events -> Version] /\ 0 \in Version
    BY CalendarAssumption DEF Types, TypeOK, SyncOK, CICalendar, Version
<1>w. Waiting \subseteq Events /\ Waiting' \subseteq Events
    BY DEF Types, TypeOK, Waiting
<1>n. NoSync.fetch = {}
    BY DEF NoSync
<1>p. \A s : Proceed(s) => sync' = s
    BY DEF Proceed
<1>1. CASE OtherClient /\ Aside
  <2>1. /\ UNCHANGED <<hasSync, cal, disk, mode, pc, unsent, kept, spoilt>>
        /\ (sync' = NoSync \/ sync' = sync) /\ (pc \in Informed => sync' = sync)
    BY <1>1, <1>t DEF OtherClient, Aside, Shape, Informed
  <2>2. NoMore /\ SameRecords /\ sync'.fetch \subseteq sync.fetch
    BY <2>1 DEF NoMore, SameRecords, NoSync
  <2>3. Waiting' = Waiting /\ Stored' = Stored
    BY <2>1 DEF Waiting, Stored
  <2>4. Handled'
    BY <2>1, <2>3 DEF Handled
  <2>5. CASE Running
    BY <2>1, <2>2, <2>4, <2>5, GoesOn DEF Running, Stopped
  <2>6. CASE ~Running
    <3>1. sync'.fetch = {}
      BY <2>1, <2>6, <1>n DEF Stopped, Shape, Order, Informed
    <3> QED
      BY <2>1, <2>3, <2>4, <2>6, <3>1
      DEF Running, Stopped, InMemory, InCache, FetchOK, Fits
  <2> QED
    BY <2>5, <2>6
<1>2. CASE EditOffline /\ Aside
  <2>1. PICK e \in Events, v \in Version :
          Editing(e, v) /\ cal' = Edited(cal, e, v) /\ ToSend(e)
    BY <1>2 DEF EditOffline
  <2>2. Records(e)
    BY <1>t, <2>1, EditFits
  <2>3. /\ Running /\ Running' /\ pc' \notin Informed /\ UNCHANGED <<disk, kept, spoilt>>
        /\ (sync' = NoSync \/ sync' = sync) /\ pc \notin Informed
    BY <1>2 DEF EditOffline, Editing, Running, Aside, Informed
  <2>4. InMemory' /\ InCache'
    BY <1>t, <2>1, <2>2, <2>3 DEF InMemory, InCache, Waiting, Stored, ToSend, Fits, Records
  <2> QED
    BY <2>3, <2>4, <1>n DEF Handled, Stopped, FetchOK, Shape, Order
<1>3. CASE EditOnline /\ Aside
  <2>1. /\ Running' /\ UNCHANGED <<disk, kept>> /\ spoilt \subseteq spoilt' /\ unsent' = {}
    BY <1>3 DEF EditOnline, Editing, Running
  <2>2. Waiting' = {}
    BY <2>1 DEF Waiting
  <2> QED
    BY <2>1, <2>2, NothingWaits DEF Stopped
<1>4. CASE EditFails /\ Aside
  <2>1. PICK e \in Events, v \in Version :
          /\ Editing(e, v) /\ cal' = Edited(cal, e, v)
          /\ ToSend(e) \/ unsent' = unsent \ {e}
    BY <1>4 DEF EditFails
  <2>2. Records(e)
    BY <1>t, <2>1, EditFits
  <2>3. /\ Running /\ Running' /\ pc' \notin Informed /\ UNCHANGED <<disk, kept, spoilt>>
        /\ (sync' = NoSync \/ sync' = sync) /\ pc \notin Informed
    BY <1>4, <2>1 DEF EditFails, Editing, Running, Aside, Informed
  <2>4. InMemory' /\ InCache'
    BY <1>t, <2>1, <2>2, <2>3 DEF InMemory, InCache, Waiting, Stored, ToSend, Fits, Records
  <2> QED
    BY <2>3, <2>4, <1>n DEF Handled, Stopped, FetchOK, Shape, Order
<1>5. CASE EditRefused /\ Aside
  <2>1. /\ Running' /\ UNCHANGED <<disk, kept>> /\ spoilt \subseteq spoilt' /\ unsent' = {}
    BY <1>5 DEF EditRefused, Editing, Running
  <2>2. Waiting' = {}
    BY <2>1 DEF Waiting
  <2> QED
    BY <2>1, <2>2, NothingWaits DEF Stopped
<1>6. CASE Save /\ Aside
  <2>1. /\ Running /\ Running' /\ pc' \notin Informed /\ pc \notin Informed
        /\ UNCHANGED <<cal, spoilt>> /\ disk'.cal = cal /\ sync' = NoSync
        /\ UNCHANGED unsent /\ kept' = unsent
    BY <1>6 DEF Save, Running, Aside, Informed
  <2>2. InMemory' /\ InCache'
    BY <2>1 DEF InMemory, InCache, Waiting, Stored, Fits
  <2> QED
    BY <2>1, <2>2, <1>n DEF Handled, Stopped, FetchOK, Shape, Order
<1>7. CASE Crash /\ Aside
  <2>1. /\ ~Running' /\ pc' = "idle" /\ UNCHANGED <<disk, spoilt>> /\ sync' = NoSync
        /\ unsent' = kept /\ UNCHANGED kept
    BY <1>7 DEF Crash, Stop, Running, Aside
  <2> QED
    BY <2>1 DEF InMemory, InCache, Stopped, Handled, FetchOK, Waiting, Stored, NoSync, Informed, Fits
<1>8. CASE CrashInSave /\ Aside
  <2>1. /\ ~Running' /\ pc' = "idle" /\ sync' = NoSync
        /\ spoilt' = spoilt \cup {e \in unsent : ~Told(disk'.cal, e)}
        /\ UNCHANGED unsent /\ kept' = unsent
    BY <1>8 DEF CrashInSave, Stop, Running, Aside
  <2>2. \A e \in Stored' : Told(disk'.cal, e)
    BY <2>1 DEF Stored
  <2>3. InCache'
    BY <2>2 DEF InCache, Told, Fits
  <2> QED
    BY <2>1, <2>3 DEF InMemory, Stopped, Handled, FetchOK, NoSync, Informed
<1>9. CASE StartOffline /\ Aside
  <2>1. /\ ~Running /\ Running' /\ cal' = disk.cal /\ UNCHANGED <<disk, unsent, kept, spoilt>>
        /\ pc' \notin Informed /\ sync'.fetch = {}
    BY <1>9, <1>t DEF StartOffline, Stopped, Running, Aside, Informed, NoSync
  <2>2. InMemory' /\ InCache'
    BY <1>t, <2>1 DEF InMemory, InCache, Stopped, Waiting, Stored
  <2> QED
    BY <2>1, <2>2 DEF Handled, Stopped, FetchOK
<1>10. CASE GoOffline /\ Aside
  <2>1. /\ Running /\ Running' /\ UNCHANGED <<cal, disk, unsent, kept, spoilt>>
        /\ pc' \notin Informed /\ sync'.fetch = {}
    BY <1>10 DEF GoOffline, Running, Aside, Informed, NoSync
  <2>2. NoMore /\ SameRecords
    BY <2>1 DEF NoMore, SameRecords
  <2> QED
    BY <2>1, <2>2, GoesOn DEF Handled, Stopped
<1>11. CASE GoOnline /\ Aside
  <2>1. /\ Running /\ Running' /\ UNCHANGED <<cal, disk, unsent, kept, spoilt>>
        /\ pc' \notin Informed /\ sync'.fetch = {}
    BY <1>11 DEF GoOnline, Running, Aside, Informed, NoSync
  <2>2. NoMore /\ SameRecords
    BY <2>1 DEF NoMore, SameRecords
  <2> QED
    BY <2>1, <2>2, GoesOn DEF Handled, Stopped
<1>12. CASE StartOnline
  <2>1. /\ ~Running /\ Running' /\ cal' = disk.cal /\ UNCHANGED <<disk, unsent, kept, spoilt>>
        /\ pc' \notin Informed /\ sync'.fetch = {}
    BY <1>12, <1>t DEF StartOnline, Stopped, Running, Aside, Informed, NoSync, Begin
  <2>2. InMemory' /\ InCache'
    BY <1>t, <2>1 DEF InMemory, InCache, Stopped, Waiting, Stored
  <2> QED
    BY <2>1, <2>2 DEF Handled, Stopped, FetchOK
<1>13. CASE CheckCalendar
  <2>1. /\ Running /\ Running' /\ UNCHANGED <<cal, disk, unsent, kept, spoilt>>
        /\ pc' \notin Informed /\ sync'.fetch = {}
    BY <1>13 DEF CheckCalendar, Running, Aside, Informed, NoSync, Begin
  <2>2. NoMore /\ SameRecords
    BY <2>1 DEF NoMore, SameRecords
  <2> QED
    BY <2>1, <2>2, GoesOn DEF Handled, Stopped
<1>14. CASE FastSync
  <2>1. /\ Running /\ Running' /\ UNCHANGED <<disk, unsent, kept>> /\ spoilt \subseteq spoilt'
        /\ sync'.fetch = sync.fetch
        /\ pc' = "send" => sync'.todo = Recorded(cal')
        /\ pc' \notin Informed \/ pc' = "send"
    BY <1>14, <1>t DEF FastSync, Running, Synchronisation, Informed
  <2>2. NoMore /\ SameRecords
    BY <1>14, <1>t, <2>1, <1>w DEF FastSync, NoMore, SameRecords, InMemory
  <2>3. InMemory'
    BY <2>1, <2>2, GoesOn
  <2>4. Handled'
    BY <1>w, <2>1, <2>3 DEF Handled, InMemory, Fits, Recorded, Informed
  <2> QED
    BY <2>1, <2>2, <2>4, GoesOn DEF Stopped
<1>15. CASE CalendarChanged
  <2>1. /\ Running /\ Running' /\ UNCHANGED <<disk, kept, spoilt>>
        /\ sync'.fetch = sync.fetch
        /\ pc' = "send" => sync'.todo = Recorded(cal')
        /\ pc' \notin Informed \/ pc' = "send"
    BY <1>15, <1>t DEF CalendarChanged, Running, Synchronisation, Informed
  <2>2. \/ UNCHANGED <<cal, unsent>>
        \/ /\ cal' = Reread(cal, disk.cal)
           /\ unsent' = unsent \cup (kept \ Recorded(cal))
    BY <1>15 DEF CalendarChanged
  <2>3. InMemory'
    <3>1. CASE UNCHANGED <<cal, unsent>>
      BY <2>1, <3>1 DEF InMemory, Waiting, Fits
    <3>2. CASE cal' = Reread(cal, disk.cal) /\ unsent' = unsent \cup (kept \ Recorded(cal))
      <4> SUFFICES ASSUME NEW e \in Waiting' PROVE Fits(cal', e)
        BY DEF InMemory
      <4>1. e \in Events /\ (e \in Waiting \/ (e \in Stored /\ cal.recording[e] = "none"))
        BY <1>t, <2>1, <3>2 DEF Waiting, Stored, Recorded
      <4>2. CASE e \in Waiting
        BY <1>t, <2>1, <3>2, <4>1, <4>2, RereadFits DEF InMemory, Fits
      <4>3. CASE e \in Stored /\ cal.recording[e] = "none"
        BY <1>t, <3>2, <4>1, <4>3, RereadBack DEF InCache
      <4> QED
        BY <4>1, <4>2, <4>3
    <3> QED
      BY <2>2, <3>1, <3>2
  <2>4. InCache'
    BY <2>1 DEF InCache, Stored, Fits
  <2>5. Handled'
    BY <2>1, <2>3, <1>w DEF Handled, InMemory, Fits, Recorded, Informed
  <2>6. FetchOK'
    BY <2>1, <1>15 DEF FetchOK, CalendarChanged, Shape, Order, Informed
  <2> QED
    BY <2>1, <2>3, <2>4, <2>5, <2>6 DEF Stopped
<1>16. CASE GetComponentInfo
  <2>1. /\ Running /\ Running' /\ UNCHANGED <<disk, unsent, kept>> /\ spoilt \subseteq spoilt'
        /\ sync'.fetch = sync.fetch
        /\ pc' = "send" => sync'.todo = Recorded(cal')
        /\ pc' \notin Informed \/ pc' = "send"
    BY <1>16, <1>t DEF GetComponentInfo, Running, Synchronisation, Informed
  <2>2. NoMore /\ SameRecords
    BY <1>16, <1>t, <2>1, <1>w DEF GetComponentInfo, NoMore, SameRecords, InMemory
  <2>3. InMemory'
    BY <2>1, <2>2, GoesOn
  <2>4. Handled'
    BY <1>w, <2>1, <2>3 DEF Handled, InMemory, Fits, Recorded, Informed
  <2> QED
    BY <2>1, <2>2, <2>4, GoesOn DEF Stopped
<1>17. ASSUME NEW e \in Events, AddComponent(e) PROVE Edits'
  <2>1. /\ Running /\ Running' /\ UNCHANGED <<disk, hasSync, pc>> /\ pc = "send"
    BY <1>17 DEF AddComponent, Handling, Upload, Running
  <2>2. NoMore /\ e \notin unsent'
    BY <1>17, <1>t DEF AddComponent, Upload, NoMore
  <2>3. /\ sync'.fetch = sync.fetch /\ sync'.todo = sync.todo \ {e}
        /\ sync.both \subseteq sync'.both /\ sync'.winner = sync.winner
        /\ sync'.changed = sync.changed
    BY <1>17, <1>t DEF AddComponent, Taken, Synchronisation
  <2>4. SameRecords
    BY <1>17, <1>t, <2>2, <1>w DEF AddComponent, Upload, SameRecords, CICalendar, Waiting, Stored
  <2>5. Handled'
    BY <2>1, <2>2, <2>3, <2>4, <1>w DEF Handled, SameRecords, NoMore, Waiting, Stored, Informed
  <2> QED
    BY <2>1, <2>2, <2>3, <2>4, <2>5, GoesOn DEF Stopped
<1>18. ASSUME NEW e \in Events, SkipComponent(e) PROVE Edits'
  <2>1. /\ Running /\ Running' /\ UNCHANGED <<disk, hasSync, pc>> /\ pc = "send"
    BY <1>18 DEF SkipComponent, Handling, Upload, Running
  <2>2. NoMore /\ e \notin unsent'
    BY <1>18, <1>t DEF SkipComponent, Upload, NoMore
  <2>3. /\ sync'.fetch = sync.fetch /\ sync'.todo = sync.todo \ {e}
        /\ sync.both \subseteq sync'.both /\ sync'.winner = sync.winner
        /\ sync'.changed = sync.changed
    BY <1>18, <1>t DEF SkipComponent, Taken, Synchronisation
  <2>4. SameRecords
    BY <1>18, <1>t, <2>2, <1>w DEF SkipComponent, Upload, SameRecords, CICalendar, Waiting, Stored
  <2>5. Handled'
    BY <2>1, <2>2, <2>3, <2>4, <1>w DEF Handled, SameRecords, NoMore, Waiting, Stored, Informed
  <2> QED
    BY <2>1, <2>2, <2>3, <2>4, <2>5, GoesOn DEF Stopped
<1>19. ASSUME NEW e \in Events, RemoveComponent(e) PROVE Edits'
  <2>1. /\ Running /\ Running' /\ UNCHANGED <<disk, hasSync, pc, cal>> /\ pc = "send"
        /\ cal.recording[e] = "removed"
    BY <1>19 DEF RemoveComponent, Handling, Running
  <2>2. NoMore /\ SameRecords
    BY <1>19, <1>t, <2>1 DEF RemoveComponent, NoMore, SameRecords
  <2>3. /\ sync'.fetch = sync.fetch /\ sync'.todo = sync.todo \ {e}
        /\ sync'.both = sync.both /\ sync'.winner = sync.winner
        /\ sync'.changed = sync.changed
    <3>1. sync' = [Taken(e) EXCEPT !.sent = TRUE, !.news = @ \ {e}] \/ sync' = Taken(e)
      BY <1>19 DEF RemoveComponent
    <3> QED
      BY <3>1, <1>t DEF Taken, Synchronisation
  <2>4. e \notin unsent' \/ (~hasSync /\ ~sync.changed)
    BY <1>19, <1>t DEF RemoveComponent, ToRemove, Shape, ToldOK
  <2>5. Handled'
    BY <2>1, <2>2, <2>3, <2>4, <1>w DEF Handled, NoMore, Waiting, Stored, Informed
  <2> QED
    BY <2>1, <2>2, <2>3, <2>5, GoesOn DEF Stopped
<1>20. ASSUME NEW e \in Events, ChangeComponent(e) PROVE Edits'
  <2>1. /\ Running /\ Running' /\ UNCHANGED <<disk, hasSync, pc, spoilt>> /\ pc = "send"
    BY <1>20 DEF ChangeComponent, Handling, Upload, Running
  <2>2. NoMore
    BY <1>20, <1>t DEF ChangeComponent, Upload, NoMore
  <2>3. /\ sync'.fetch = sync.fetch /\ sync'.todo = sync.todo \ {e}
        /\ sync.both \subseteq sync'.both /\ sync'.winner = sync.winner
        /\ sync'.changed = sync.changed
        /\ e \in sync'.both \/ e \notin unsent'
    <3>1. \/ sync' = Taken(e) /\ e \notin unsent'
          \/ sync' = [Taken(e) EXCEPT !.both = @ \cup {e}]
          \/ sync' = [Taken(e) EXCEPT !.sent = TRUE] /\ e \notin unsent'
      BY <1>20, <1>t DEF ChangeComponent, Upload
    <3>2. CASE sync' = Taken(e) /\ e \notin unsent'
      BY <3>2, <1>t DEF Taken, Synchronisation
    <3>3. CASE sync' = [Taken(e) EXCEPT !.both = @ \cup {e}]
      BY <3>3, <1>t DEF Taken, Synchronisation
    <3>4. CASE sync' = [Taken(e) EXCEPT !.sent = TRUE] /\ e \notin unsent'
      BY <3>4, <1>t DEF Taken, Synchronisation
    <3> QED
      BY <3>1, <3>2, <3>3, <3>4
  <2>4. SameRecords
    <3>1. \/ cal' = [cal EXCEPT !.ver[e] = 0] /\ e \notin unsent'
          \/ UNCHANGED cal
          \/ cal' = [cal EXCEPT !.etag[e] = cal.ver[e]]
      BY <1>20, <1>t DEF ChangeComponent, Upload
    <3> QED
      BY <3>1, <1>t, <1>w DEF SameRecords, CICalendar, Waiting, Stored
  <2>5. Handled'
    BY <2>1, <2>2, <2>3, <2>4, <1>w DEF Handled, SameRecords, NoMore, Waiting, Stored, Informed
  <2> QED
    BY <2>1, <2>2, <2>3, <2>4, <2>5, GoesOn DEF Stopped
<1>21. ASSUME NEW e \in Events, Resolve(e) PROVE Edits'
  <2> DEFINE A == [sync EXCEPT !.both = @ \ {e}]
             B == [A EXCEPT !.winner = {e}]
  <2>1. /\ Running /\ Running' /\ UNCHANGED <<disk, hasSync, spoilt>> /\ pc = "resolve"
        /\ sync.winner = {} /\ sync.todo = {}
    BY <1>21 DEF Resolve, Running, Shape, Order
  <2>2. \/ Proceed(A) /\ Sent(e)
        \/ Proceed(B) /\ UNCHANGED <<cal, unsent, kept>>
    BY <1>21 DEF Resolve
  <2>3. /\ A.fetch = sync.fetch /\ A.both = sync.both \ {e} /\ A.winner = sync.winner
        /\ A.todo = sync.todo /\ A.changed = sync.changed
        /\ B.fetch = sync.fetch /\ B.both = sync.both \ {e} /\ B.winner = {e}
        /\ B.todo = sync.todo /\ B.changed = sync.changed
    BY <1>t DEF Synchronisation
  <2> HIDE DEF A, B
  <2>4. \/ sync' = A /\ Sent(e)
        \/ sync' = B /\ UNCHANGED <<cal, unsent, kept>>
    BY <1>p, <2>2
  <2>5. NoMore
    BY <1>t, <2>1, <2>4 DEF NoMore
  <2>6. SameRecords
    <3>1. UNCHANGED cal \/ \E v \in Version : cal' = [cal EXCEPT !.ver[e] = v, !.etag[e] = v]
      BY <1>21, <1>t DEF Resolve
    <3>2. cal'.recording = cal.recording
      <4>1. ASSUME NEW v PROVE [cal EXCEPT !.ver[e] = v, !.etag[e] = v].recording
                                 = cal.recording
        BY <1>t DEF CICalendar
      <4> QED
        BY <3>1, <4>1
    <3>3. \A f \in Events : f # e => cal'.ver[f] = cal.ver[f]
      <4>1. ASSUME NEW v PROVE [cal EXCEPT !.ver[e] = v, !.etag[e] = v].ver
                                 = [cal.ver EXCEPT ![e] = v]
        BY <1>t DEF CICalendar
      <4>2. cal'.ver = cal.ver \/ \E v \in Version : cal'.ver = [cal.ver EXCEPT ![e] = v]
        BY <3>1, <4>1
      <4> QED
        BY <4>2, <1>t
    <3> QED
      BY <3>2, <3>3, <2>4, <1>t, <1>w DEF SameRecords, Waiting, Stored
  <2>7. Handled'
    BY <1>t, <2>1, <2>3, <2>4, <2>5, <2>6, <1>w
    DEF Handled, SameRecords, NoMore, Waiting, Stored, Informed
  <2> QED
    BY <2>1, <2>3, <2>4, <2>5, <2>6, <2>7, GoesOn DEF Stopped
<1>22. ASSUME NEW e \in Events, Overwrite(e) PROVE Edits'
  <2> DEFINE A == [sync EXCEPT !.winner = @ \ {e}, !.sent = TRUE]
  <2>1. /\ Running /\ Running' /\ UNCHANGED <<disk, hasSync, spoilt>> /\ pc = "resolve"
        /\ Sent(e)
    BY <1>22 DEF Overwrite, Upload, Running
  <2>2. Proceed(A)
    BY <1>22 DEF Overwrite
  <2>3. /\ A.fetch = sync.fetch /\ A.both = sync.both /\ A.winner = sync.winner \ {e}
        /\ A.todo = sync.todo /\ A.changed = sync.changed
    BY <1>t DEF Synchronisation
  <2> HIDE DEF A
  <2>4. sync' = A
    BY <1>p, <2>2
  <2>5. NoMore
    BY <1>t, <2>1 DEF NoMore
  <2>6. SameRecords
    BY <1>22, <1>t, <1>w, <2>5 DEF Overwrite, Upload, SameRecords, CICalendar
  <2>7. Handled'
    BY <1>t, <2>1, <2>3, <2>4, <2>5, <2>6, <1>w
    DEF Handled, SameRecords, NoMore, Waiting, Stored, Informed
  <2> QED
    BY <2>1, <2>3, <2>4, <2>5, <2>6, <2>7, GoesOn DEF Stopped
<1>23. ASSUME NEW e \in Events, NullComponent(e) PROVE Edits'
  <2>1. /\ ~Running' /\ pc' = "idle" /\ UNCHANGED <<disk, spoilt>> /\ sync' = NoSync
        /\ unsent' = kept /\ UNCHANGED kept
    BY <1>23 DEF NullComponent, Running
  <2> QED
    BY <2>1 DEF InMemory, InCache, Stopped, Handled, FetchOK, Waiting, Stored, NoSync, Informed, Fits
<1>24. CASE Scan
  <2> DEFINE B == [sync EXCEPT !.fetch = Stale \cup New, !.winner = Unchanged,
                               !.both = (@ \cap Here) \ Unchanged]
  <2>1. /\ Running /\ Running' /\ UNCHANGED <<disk, hasSync, unsent, kept, spoilt>> /\ pc = "send"
        /\ sync.todo = {} /\ sync.winner = {}
    BY <1>24 DEF Scan, Running, Shape, Order
  <2>2. NoMore /\ Waiting' = Waiting
    BY <2>1 DEF NoMore, Waiting, Stored
  <2>3. CASE ~sync.changed
    <3>1. sync' = sync /\ UNCHANGED cal
      BY <1>24, <2>3, <1>p DEF Scan
    <3>2. SameRecords /\ Handled'
      BY <2>1, <2>2, <3>1 DEF SameRecords, Handled, Informed
    <3> QED
      BY <2>1, <2>2, <3>1, <3>2, GoesOn DEF Stopped
  <2>4. CASE sync.changed
    <3>1. sync' = B
      BY <1>24, <2>4, <1>p DEF Scan
    <3>2. /\ B.fetch = Stale \cup New /\ B.winner = Unchanged
          /\ B.both = (sync.both \cap Here) \ Unchanged
      BY <1>t DEF Synchronisation
    <3> HIDE DEF B
    <3>3. \A e \in Waiting : e \in sync.both /\ cal.recording[e] = "changed" /\ e \in Here
      BY <2>1, <2>4, <1>w
      DEF Handled, Informed, Shape, BothOK, InMemory, Fits, Here, Present
    <3>4. \A e \in Waiting : e \notin Gone \cup Stale \cup New
      BY <2>1, <3>3 DEF Gone, Stale, New, Shape, BothOK, Listed, Removed
    <3>5. SameRecords
      <4>1. cal' = [cal EXCEPT !.ver = [e \in Events |-> IF e \in Gone \cup Stale
                                                        THEN 0 ELSE cal.ver[e]]]
        BY <1>24, <2>4, <1>t DEF Scan, CICalendar
      <4>2. cal'.recording = cal.recording
            /\ \A e \in Events : e \notin Gone \cup Stale => cal'.ver[e] = cal.ver[e]
        BY <4>1, <1>t DEF CICalendar
      <4> QED
        BY <2>2, <3>4, <4>2, <1>w DEF SameRecords
    <3>6. Handled'
      BY <2>2, <3>1, <3>2, <3>3 DEF Handled
    <3>7. FetchOK'
      BY <2>2, <3>1, <3>2, <3>4 DEF FetchOK
    <3> QED
      BY <2>1, <2>2, <3>5, <3>6, <3>7, GoesOn DEF Stopped
  <2> QED
    BY <2>3, <2>4
<1>25. CASE Fetch
  <2>1. /\ Running /\ Running' /\ UNCHANGED <<disk, hasSync, unsent, kept, spoilt>> /\ pc = "fetch"
    BY <1>25 DEF Fetch, Running
  <2>2. NoMore /\ Waiting' = Waiting
    BY <2>1 DEF NoMore, Waiting, Stored
  <2>3. sync' = [sync EXCEPT !.fetch = {}]
    BY <1>25, <1>p DEF Fetch
  <2>4. /\ sync'.fetch = {} /\ sync'.both = sync.both /\ sync'.winner = sync.winner
        /\ sync'.todo = sync.todo /\ sync'.changed = sync.changed
    BY <2>3, <1>t DEF Synchronisation
  <2>5. cal'.recording = cal.recording
        /\ \A e \in Events : e \notin sync.fetch => cal'.ver[e] = cal.ver[e]
    BY <1>25, <1>t DEF Fetch, CICalendar
  <2>6. SameRecords
    BY <2>2, <2>5, <1>w DEF SameRecords, FetchOK
  <2>7. Handled'
    BY <2>1, <2>2, <2>4, <2>5 DEF Handled, Informed
  <2> QED
    BY <2>1, <2>2, <2>4, <2>6, <2>7, GoesOn DEF Stopped
<1>26. CASE UpdateSyncToken
  <2>1. /\ Running' /\ pc = "token" /\ pc' \notin Informed /\ sync' = NoSync
        /\ spoilt' = spoilt \cup Forgotten /\ UNCHANGED <<disk, unsent, kept>>
    BY <1>26 DEF UpdateSyncToken, Running, Informed
  <2>2. Waiting \subseteq Forgotten
    BY <2>1, <1>w DEF Handled, Informed, Shape, Order, Forgotten, Waiting
  <2>3. Waiting' = {}
    BY <2>1, <2>2 DEF Waiting, Stored
  <2> QED
    BY <2>1, <2>3, NothingWaits DEF Stopped
<1>27. CASE RequestFails
  <2>1. /\ Running /\ Running' /\ pc' \notin Informed /\ sync' = NoSync
        /\ UNCHANGED <<disk, cal, spoilt>>
    BY <1>27 DEF RequestFails, Requesting, Sending, Handling, Throw, Running, Informed
  <2>2. NoMore /\ SameRecords
    BY <1>27, <1>t, <2>1 DEF RequestFails, NoMore, SameRecords
  <2> QED
    BY <2>1, <2>2, <1>n, GoesOn DEF Stopped, Handled
<1>28. CASE UpdateFails
  <2>1. /\ Running' /\ pc = "token" /\ pc' \notin Informed /\ sync' = NoSync
        /\ spoilt' = spoilt \cup Forgotten /\ UNCHANGED <<disk, unsent, kept>>
    BY <1>28 DEF UpdateFails, Running, Informed, Throw
  <2>2. Waiting \subseteq Forgotten
    BY <2>1, <1>w DEF Handled, Informed, Shape, Order, Forgotten, Waiting
  <2>3. Waiting' = {}
    BY <2>1, <2>2 DEF Waiting, Stored
  <2> QED
    BY <2>1, <2>3, NothingWaits DEF Stopped
<1>29. ASSUME NEW e \in Events, SendUnanswered(e) PROVE Edits'
  <2>1. /\ Running /\ Running' /\ pc' \notin Informed /\ sync' = NoSync
        /\ UNCHANGED <<disk, cal, spoilt>>
    BY <1>29 DEF SendUnanswered, Requesting, Sending, Handling, Throw, Running, Informed
  <2>2. NoMore /\ SameRecords
    BY <1>29, <1>t, <2>1 DEF SendUnanswered, NoMore, SameRecords
  <2> QED
    BY <2>1, <2>2, <1>n, GoesOn DEF Stopped, Handled
<1>30. CASE ReportRefused
  <2>1. /\ Running /\ Running' /\ UNCHANGED <<disk, cal, unsent, kept, spoilt>>
    BY <1>30 DEF ReportRefused, Refuse, Running
  <2>2. NoMore /\ SameRecords /\ Waiting' = Waiting
    BY <1>t, <2>1 DEF NoMore, SameRecords, Waiting, Stored
  <2>3. CASE pc' = "idle" /\ sync' = NoSync
    BY <1>n, <2>1, <2>2, <2>3, GoesOn DEF Handled, Informed, Stopped
  <2>4. CASE pc' = "send" /\ sync' = [sync EXCEPT !.token = cal.SyncToken, !.todo = Recorded(cal)]
    <3>1. sync'.fetch = sync.fetch /\ sync'.todo = Recorded(cal)
      BY <1>t, <2>4 DEF Synchronisation
    <3>2. Handled'
      BY <2>1, <2>2, <3>1, <1>w DEF Handled, InMemory, Fits, Recorded
    <3> QED
      BY <2>1, <2>2, <3>1, <3>2, GoesOn DEF Stopped
  <2> QED
    BY <1>30, <2>3, <2>4 DEF ReportRefused
<1>31. CASE CheckRefused
  <2>1. /\ Running /\ Running' /\ pc' \notin Informed
        /\ UNCHANGED <<disk, cal, unsent, kept, spoilt, sync>>
    BY <1>31 DEF CheckRefused, Refuse, Running, Informed
  <2>2. NoMore /\ SameRecords
    BY <2>1 DEF NoMore, SameRecords
  <2> QED
    BY <2>1, <2>2, GoesOn DEF Stopped, Handled
<1>32. CASE ListRefused
  <2>1. /\ Running' /\ spoilt' = spoilt \cup unsent /\ UNCHANGED <<disk, unsent, kept>>
    BY <1>32 DEF ListRefused, Refuse, Running
  <2>2. Waiting' = {}
    BY <2>1 DEF Waiting, Stored
  <2> QED
    BY <2>1, <2>2, NothingWaits DEF Stopped
<1>33. CASE FetchRefused
  <2>1. /\ Running /\ Running' /\ UNCHANGED <<disk, cal, hasSync, unsent, kept>> /\ pc = "fetch"
        /\ spoilt \subseteq spoilt'
    BY <1>33 DEF FetchRefused, Refuse, Running
  <2>2. NoMore /\ SameRecords
    BY <2>1 DEF NoMore, SameRecords
  <2>3. sync' = [sync EXCEPT !.fetch = {}]
    BY <1>33, <1>p DEF FetchRefused
  <2>4. /\ sync'.fetch = {} /\ sync'.both = sync.both /\ sync'.winner = sync.winner
        /\ sync'.todo = sync.todo /\ sync'.changed = sync.changed
    BY <2>3, <1>t DEF Synchronisation
  <2>5. Handled'
    BY <2>1, <2>4 DEF Handled, Informed, Waiting, Stored
  <2> QED
    BY <2>1, <2>2, <2>4, <2>5, GoesOn DEF Stopped
<1>34. CASE UpdateRefused
  <2>1. /\ Running' /\ pc = "token" /\ pc' \notin Informed /\ sync' = NoSync
        /\ spoilt' = spoilt \cup Forgotten /\ UNCHANGED <<disk, unsent, kept>>
    BY <1>34 DEF UpdateRefused, Running, Informed, Refuse
  <2>2. Waiting \subseteq Forgotten
    BY <2>1, <1>w DEF Handled, Informed, Shape, Order, Forgotten, Waiting
  <2>3. Waiting' = {}
    BY <2>1, <2>2 DEF Waiting, Stored
  <2> QED
    BY <2>1, <2>3, NothingWaits DEF Stopped
<1>35. ASSUME NEW e \in Events, SendRefused(e) PROVE Edits'
  <2> DEFINE rest == [Taken(e) EXCEPT !.sent = TRUE, !.winner = @ \ {e}]
  <2>1. /\ Running /\ Running' /\ UNCHANGED <<disk, cal, hasSync>>
        /\ spoilt' = spoilt \cup {e} /\ pc \in Informed
    BY <1>35 DEF SendRefused, Sending, Handling, Refuse, Running, Informed
  <2>2. NoMore /\ SameRecords
    BY <1>35, <1>t, <2>1 DEF SendRefused, NoMore, SameRecords
  <2>3. /\ sync'.todo = sync.todo \ {e} /\ sync'.both = sync.both
        /\ sync'.winner = sync.winner \ {e} /\ sync'.changed = sync.changed
        /\ sync'.fetch = sync.fetch
    <3>1. sync' = rest \/ sync' = [rest EXCEPT !.news = @ \ {e}]
      BY <1>35, <1>p DEF SendRefused
    <3>2. /\ rest.todo = sync.todo \ {e} /\ rest.both = sync.both
          /\ rest.winner = sync.winner \ {e} /\ rest.changed = sync.changed
          /\ rest.fetch = sync.fetch /\ rest \in Synchronisation
      BY <1>t DEF Taken, Synchronisation
    <3> HIDE DEF rest
    <3>3. \A s \in Synchronisation :
            LET n == [s EXCEPT !.news = @ \ {e}]
            IN  /\ n.todo = s.todo /\ n.both = s.both /\ n.winner = s.winner
                /\ n.changed = s.changed /\ n.fetch = s.fetch
      BY DEF Synchronisation
    <3> QED
      BY <3>1, <3>2, <3>3
  <2>4. Handled'
    BY <2>1, <2>2, <2>3, <1>w DEF Handled, NoMore, Waiting, Stored
  <2> QED
    BY <2>1, <2>2, <2>3, <2>4, GoesOn DEF Stopped
<1>36. ASSUME NEW e \in Events, ReadRefused(e) PROVE Edits'
  <2>1. /\ Running /\ Running' /\ UNCHANGED <<disk, cal, hasSync>>
        /\ spoilt' = spoilt \cup {e} /\ pc \in Informed
    BY <1>36 DEF ReadRefused, Refuse, Running, Informed
  <2>2. NoMore /\ SameRecords
    BY <1>36, <1>t, <2>1 DEF ReadRefused, NoMore, SameRecords
  <2>3. sync' = [sync EXCEPT !.both = @ \ {e}]
    BY <1>36, <1>p DEF ReadRefused
  <2>4. /\ sync'.fetch = sync.fetch /\ sync'.both = sync.both \ {e}
        /\ sync'.winner = sync.winner /\ sync'.todo = sync.todo
        /\ sync'.changed = sync.changed
    BY <2>3, <1>t DEF Synchronisation
  <2>5. Handled'
    BY <2>1, <2>2, <2>4, <1>w DEF Handled, NoMore, Waiting, Stored
  <2> QED
    BY <2>1, <2>2, <2>4, <2>5, GoesOn DEF Stopped
<1>37. CASE UNCHANGED vars
  <2>1. UNCHANGED <<hasSync, cal, disk, mode, pc, unsent, kept, spoilt, sync>>
    BY <1>37 DEF vars, storeVars
  <2> QED
    BY <2>1 DEF InMemory, InCache, Stopped, Handled, FetchOK, Waiting, Stored, Running, Fits
<1> QED
    BY <1>1, <1>2, <1>3, <1>4, <1>5, <1>6, <1>7, <1>8, <1>9, <1>10, <1>11,
       <1>12, <1>13, <1>14, <1>15, <1>16, <1>17, <1>18, <1>19, <1>20, <1>21,
       <1>22, <1>23, <1>24, <1>25, <1>26, <1>27, <1>28, <1>29, <1>30, <1>31,
       <1>32, <1>33, <1>34, <1>35, <1>36, <1>37
    DEF Next, SyncStep, Request, Refused

-----------------------------------------------------------------------------
(* Results.                                                                *)

(* Nothing waits and no synchronisation runs when the program is started   *)
(* for the first time.                                                     *)
LEMMA EditsInitially == Init => Shape /\ Edits
<1> SUFFICES ASSUME Init PROVE Shape /\ Edits
    OBVIOUS
<1>1. /\ mode = "stopped" /\ pc = "idle" /\ sync = NoSync
      /\ unsent = {} /\ kept = {}
    BY DEF Init, StoreInit
<1>2. Shape
    BY <1>1 DEF Shape, Order, BothOK, ToldOK, Informed, NoSync, Removed
<1>3. Edits
    BY <1>1 DEF Edits, InMemory, InCache, Stopped, Handled, FetchOK, Waiting, Stored,
                Running, Informed, NoSync
<1> QED
    BY <1>2, <1>3

(* The invariant the other results follow from: the types, what is left to *)
(* do at each step of a synchronisation, and that whatever has to be sent  *)
(* is recorded and, once the server has told what has changed, is still    *)
(* among what the synchronisation will handle.                             *)
THEOREM Inductive == Spec => []IInv
<1>1. Init => IInv
    BY TypesInitially, EditsInitially DEF IInv
<1>2. IInv /\ [Next]_vars => IInv'
  <2> SUFFICES ASSUME IInv, [Next]_vars PROVE IInv'
      OBVIOUS
  <2>1. Types'
      BY TypesPreserved DEF IInv
  <2>2. Shape'
      BY <2>1, ShapePreserved DEF IInv, Edits
  <2>3. Edits'
      BY <2>1, EditsPreserved DEF IInv
  <2> QED
      BY <2>1, <2>2, <2>3 DEF IInv
<1> QED
    BY <1>1, <1>2, PTL DEF Spec

(* Types, and that no server is asked for what it does not have            *)
(* (SyncComponentsFromServer).                                             *)
THEOREM TypeCorrect == Spec => []TypeOK
<1>1. IInv => TypeOK
    BY DEF IInv, Types
<1> QED
    BY <1>1, Inductive, PTL

(* Whatever fails or is refused and wherever the program stops, a change   *)
(* that has to be sent stays recorded, in memory and on disk, until it has *)
(* been sent (ClearRecording at the end of SyncComponentsFromServerFast    *)
(* and Slow, and _WriteFullCalendar).                                      *)
THEOREM EditsAreKept == Spec => []EditsKept
<1>1. IInv => EditsKept
    BY DEF IInv, Edits, InMemory, InCache, Waiting, Stored, Fits, EditsKept
<1> QED
    BY <1>1, Inductive, PTL

-----------------------------------------------------------------------------
(* The sync token.  Its inductive invariant, by parts: first what is true  *)
(* of all events.                                                          *)

(* A new version is newer than all there are.                              *)
Older ==
    \A e \in Events :
        {server[e], cal.ver[e], cal.etag[e], disk.cal.ver[e], disk.cal.etag[e]}
          \subseteq 0..(NextVersion - 1)

(* What the server has never had is not there.                             *)
NeverThere == \A e \in Events : stamp[e] = 0 => server[e] = 0

(* The token in the cache is not ahead of that in memory, nor either of the*)
(* server, nor of what a report has returned.                              *)
TokensOK ==
    /\ cal.SyncToken <= rev /\ disk.cal.SyncToken <= rev
    /\ Running => disk.cal.SyncToken <= cal.SyncToken
    /\ pc \in Informed => cal.SyncToken <= sync.token /\ sync.token <= rev

FetchDone == pc = "token" => sync.fetch = {}

(* What the token stands for, in memory and in the cache: an event that has*)
(* not changed since is here as it is there, unless it has to be sent.     *)
Known(c, W, e) == e \notin W /\ stamp[e] <= c.SyncToken => c.ver[e] = server[e]

(* What is recorded of such an event fits what the server has.             *)
Based(c, e) ==
    stamp[e] <= c.SyncToken =>
        /\ c.recording[e] = "added" => server[e] = 0
        /\ c.recording[e] \in {"changed", "removed"} => server[e] # 0

(* An event whose tag is that of the server is the same, unless it has to  *)
(* be sent: then it may have been changed here since.                      *)
Tagged(c, W, e) ==
    e \notin W /\ c.ver[e] # 0 /\ server[e] # 0 /\ c.etag[e] = server[e] =>
        c.ver[e] = server[e]

(* A synchronisation has been told of what has changed since the token, and*)
(* of what it has not been told, the server does not have.                 *)
Reported(e) ==
    /\ pc \notin Informed => e \notin sync.news
    /\ e \in sync.news => stamp[e] > cal.SyncToken /\ sync.changed
    /\ Removed(e) => server[e] = 0 \/ cal.recording[e] = "added"
    /\ pc \in Informed /\ stamp[e] <= sync.token =>
         IF e \in sync.news THEN sync.seen[e] = server[e]
         ELSE stamp[e] > cal.SyncToken =>
                /\ server[e] = 0
                /\ \/ cal.ver[e] = 0
                   \/ pc = "send" /\ e \in sync.todo
                      /\ cal.recording[e] \in {"added", "changed"}

(* An event found to be changed on both sides, or to be newer here.        *)
Contended(e) ==
    e \in sync.both \cup sync.winner =>
        /\ Listed(e) /\ cal.recording[e] = "changed"
        /\ pc = "resolve" => cal.ver[e] # 0
        /\ pc = "resolve" /\ e \in sync.both => cal.etag[e] # sync.seen[e]
        /\ e \notin sync.both \cap sync.winner

(* An event that has been told and has not changed since the report is read*)
(* by the end, or has been sent.                                           *)
GetsRead(e) ==
    pc \in Informed /\ e \in sync.news /\ stamp[e] <= sync.token =>
        IF pc = "send"
        THEN \/ Removed(e) \/ cal.recording[e] = "none" \/ cal.ver[e] = 0
             \/ e \in sync.todo \cup sync.both
        ELSE cal.ver[e] = server[e] \/ e \in sync.fetch \cup sync.both \cup sync.winner

(* A change that is to be sent according to the cache: there is something  *)
(* to be sent, a synchronisation will come to it, and when the cache has   *)
(* the server's tag, so have the calendar and the report.                  *)
TaggedInCache(e) ==
    /\ e \in kept /\ server[e] # 0 /\ server[e] = disk.cal.etag[e]
    /\ disk.cal.ver[e] \notin {0, server[e]}

ToSendInCache(e) ==
    /\ e \in kept /\ cal.recording[e] \in {"added", "changed"} => cal.ver[e] # 0
    /\ TaggedInCache(e) /\ cal.ver[e] # 0 => cal.etag[e] = server[e]

Followed(e) ==
    /\ e \in kept /\ pc \in Informed =>
         cal.recording[e] = "none" \/ e \in sync.todo \cup sync.both \cup sync.winner
    /\ TaggedInCache(e) /\ e \in sync.news => sync.seen[e] = server[e]

(* What is recorded is not what the cache has a tag of, unless the cache   *)
(* has it too.                                                             *)
NotTagged(e) ==
    cal.recording[e] # "none" /\ cal.ver[e] # 0 /\ cal.ver[e] = disk.cal.etag[e] =>
        disk.cal.ver[e] \in {0, cal.ver[e]}

(* The calendar, its cache and the server, whatever is being done.         *)
Matches(e) ==
    /\ Known(cal, unsent, e) /\ Known(disk.cal, kept, e)
    /\ Based(cal, e) /\ Based(disk.cal, e)
    /\ Tagged(cal, unsent, e) /\ Tagged(disk.cal, kept, e)
    /\ ToSendInCache(e) /\ NotTagged(e)

(* What a synchronisation knows.                                           *)
Traced(e) == Reported(e) /\ Contended(e) /\ GetsRead(e) /\ Followed(e)

Overall == Older /\ NeverThere /\ TokensOK /\ FetchDone

Tokens == hasSync => Overall /\ \A e \in Events \ spoilt : Matches(e) /\ Traced(e)

TokenInv == IInv /\ Tokens

-----------------------------------------------------------------------------
(* Steps that leave an event, or a synchronisation, alone.                 *)

(* Nothing of event e changes on the server, in the calendar and its cache.*)
Unmoved(e) ==
    /\ server'[e] = server[e] /\ stamp'[e] = stamp[e]
    /\ cal'.ver[e] = cal.ver[e] /\ cal'.etag[e] = cal.etag[e]
    /\ cal'.recording[e] = cal.recording[e] /\ cal'.SyncToken = cal.SyncToken
    /\ disk'.cal.ver[e] = disk.cal.ver[e] /\ disk'.cal.etag[e] = disk.cal.etag[e]
    /\ disk'.cal.recording[e] = disk.cal.recording[e]
    /\ disk'.cal.SyncToken = disk.cal.SyncToken
    /\ e \in unsent' <=> e \in unsent
    /\ e \in kept' <=> e \in kept

LEMMA UnmovedMatches ==
    ASSUME NEW e \in Events, Matches(e), Unmoved(e)
    PROVE  Matches(e)'
BY DEF Matches, Unmoved, Known, Based, Tagged, ToSendInCache, TaggedInCache, NotTagged

(* Nor in the synchronisation, which may go on to a later step.            *)
SameSync(e) ==
    /\ \/ pc' = pc
       \/ pc \in {"resolve", "fetch"} /\ pc' \in {"fetch", "token"}
    /\ sync'.seen[e] = sync.seen[e] /\ sync'.token = sync.token
    /\ sync'.changed = sync.changed
    /\ e \in sync'.news <=> e \in sync.news
    /\ e \in sync'.todo <=> e \in sync.todo
    /\ e \in sync'.both <=> e \in sync.both
    /\ e \in sync'.winner <=> e \in sync.winner
    /\ e \in sync'.fetch <=> e \in sync.fetch

LEMMA UnmovedTraced ==
    ASSUME NEW e \in Events, Traced(e), Unmoved(e), SameSync(e)
    PROVE  Traced(e)'
<1> USE DEF Unmoved, SameSync, Listed, Removed, Informed
<1>1. Reported(e)'
    BY DEF Traced, Reported
<1>2. Contended(e)'
    BY DEF Traced, Contended
<1>3. GetsRead(e)'
    BY DEF Traced, GetsRead
<1>4. Followed(e)'
    BY DEF Traced, Followed, TaggedInCache
<1> QED
    BY <1>1, <1>2, <1>3, <1>4 DEF Traced

(* Without a synchronisation nothing is known.                             *)
LEMMA Untraced ==
    ASSUME NEW e \in Events, pc' \notin Informed,
           e \notin sync'.news, e \notin sync'.both, e \notin sync'.winner
    PROVE  Traced(e)'
BY DEF Traced, Reported, Contended, GetsRead, Followed, Removed

(* When it begins and when it ends.                                        *)
LEMMA NoSyncEmpty ==
    /\ NoSync.news = {} /\ NoSync.both = {} /\ NoSync.winner = {} /\ NoSync.fetch = {}
    /\ \A b : LET s == [NoSync EXCEPT !.opening = b]
              IN  s.news = {} /\ s.both = {} /\ s.winner = {} /\ s.fetch = {}
BY DEF NoSync

(* The parts of the invariant that compare with the number of versions.    *)
LEMMA LaterVersions ==
    ASSUME IInv, [Next]_vars
    PROVE  NextVersion \in Nat /\ NextVersion' \in Nat /\ NextVersion <= NextVersion'
<1>1. SpentOK'
    BY TypesPreserved DEF IInv, Types
<1>2. \/ UNCHANGED spent
      \/ \E f \in {"edits", "others", "faults", "crashes"} : Spend(f)
      \/ spent' = [spent EXCEPT !.edits = @ + 1, !.faults = @ + 1]
    BY DEF Next, vars, storeVars, OtherClient, EditOffline, EditOnline, EditFails, EditRefused,
           Save, Crash, CrashInSave, Stop, StartOffline, GoOffline, GoOnline, StartOnline,
           CheckCalendar, SyncStep, Local, ReadOnly, FastSync, CalendarChanged, GetComponentInfo,
           Request, AddComponent, SkipComponent, RemoveComponent, ChangeComponent, Resolve,
           Overwrite, Upload, NullComponent, Scan, Fetch, UpdateSyncToken, RequestFails,
           UpdateFails, Throw, SendUnanswered, Refuse, ReportRefused, CheckRefused,
           ListRefused, FetchRefused, UpdateRefused, Refused, SendRefused, ReadRefused
<1>3. spent \in [edits : Nat, others : Nat, faults : Nat, crashes : Nat]
    BY DEF IInv, Types, SpentOK
<1>4. spent.edits <= spent'.edits /\ spent.others <= spent'.others
  <2>1. CASE UNCHANGED spent
    BY <1>3, <2>1
  <2>2. CASE \E f \in {"edits", "others", "faults", "crashes"} : Spend(f)
    BY <1>3, <2>2 DEF Spend
  <2>3. CASE spent' = [spent EXCEPT !.edits = @ + 1, !.faults = @ + 1]
    BY <1>3, <2>3
  <2> QED
    BY <1>2, <2>1, <2>2, <2>3
<1> QED
    BY <1>1, <1>3, <1>4 DEF NextVersion, SpentOK

(* The two states of a step, and what is known of them.                    *)
Between ==
    /\ IInv /\ IInv' /\ hasSync /\ Tokens
    /\ NextVersion \in Nat /\ NextVersion' \in Nat /\ NextVersion <= NextVersion'

(* A synchronisation begins or ends, and nothing else happens.             *)
LEMMA QuietTokens ==
    ASSUME Between, UNCHANGED <<server, stamp, rev, cal, disk, unsent, kept, spoilt>>,
           Running, pc' \notin Informed,
           sync' = NoSync \/ \E b : sync' = [NoSync EXCEPT !.opening = b]
    PROVE  Tokens'
<1>1. sync'.news = {} /\ sync'.both = {} /\ sync'.winner = {} /\ sync'.fetch = {}
    BY NoSyncEmpty
<1>2. Overall'
    BY DEF Between, Tokens, Overall, Older, NeverThere, TokensOK, FetchDone, Informed
<1>3. ASSUME NEW e \in Events \ spoilt' PROVE Matches(e)' /\ Traced(e)'
  <2>1. Unmoved(e)
    BY DEF Unmoved
  <2> QED
    BY <1>1, <2>1, UnmovedMatches, Untraced DEF Between, Tokens
<1> QED
    BY <1>2, <1>3 DEF Tokens

-----------------------------------------------------------------------------
(* The server.                                                             *)

(* What is written is there, with a stamp no token has reached, unless it  *)
(* was a removal of what is not there.                                     *)
LEMMA StoreEffect ==
    ASSUME Types, NEW e \in Events, NEW v \in Version, Store(e, v)
    PROVE  /\ server'[e] = v /\ rev \in Nat /\ rev' \in Nat /\ rev <= rev'
           /\ \A x \in Events \ {e} : server'[x] = server[x] /\ stamp'[x] = stamp[x]
           /\ \/ v = 0 /\ server[e] = 0 /\ UNCHANGED <<server, stamp, rev>>
              \/ stamp'[e] = rev + 1 /\ rev' = rev + 1
BY DEF Store, Types, TypeOK, serverVars

LEMMA StoredThere ==
    ASSUME Types, NeverThere, NEW e \in Events, NEW v \in Version, Store(e, v)
    PROVE  NeverThere'
<1>1. \A x \in Events : stamp'[x] = 0 => server'[x] = 0
  <2> SUFFICES ASSUME NEW x \in Events, stamp'[x] = 0 PROVE server'[x] = 0
    OBVIOUS
  <2>1. CASE x = e
    BY <2>1, StoreEffect DEF NeverThere
  <2>2. CASE x # e
    BY <2>2, StoreEffect DEF NeverThere
  <2> QED
    BY <2>1, <2>2
<1> QED
    BY <1>1 DEF NeverThere

(* The numbers there are.                                                  *)
LEMMA Numbers ==
    ASSUME Types
    PROVE  /\ cal.SyncToken \in Nat /\ disk.cal.SyncToken \in Nat
           /\ sync.token \in Nat /\ rev \in Nat
           /\ \A e \in Events : /\ stamp[e] \in Nat /\ stamp[e] <= rev
                                /\ server[e] \in Version /\ cal.ver[e] \in Version
                                /\ cal.etag[e] \in Version /\ sync.seen[e] \in Version
                                /\ disk.cal.ver[e] \in Version /\ disk.cal.etag[e] \in Version
                                /\ cal.recording[e] \in Recordable
                                /\ disk.cal.recording[e] \in Recordable
           /\ Version \subseteq Nat /\ 0 \in Version
<1>1. Version \subseteq Nat /\ 0 \in Version
    BY CalendarAssumption DEF Version
<1>2. cal.SyncToken \in Nat /\ disk.cal.SyncToken \in Nat /\ sync.token \in Nat /\ rev \in Nat
    BY DEF Types, TypeOK, SyncOK, Synchronisation, CICalendar
<1>3. ASSUME NEW e \in Events
      PROVE  /\ stamp[e] \in Nat /\ stamp[e] <= rev
             /\ server[e] \in Version /\ cal.ver[e] \in Version
             /\ cal.etag[e] \in Version /\ sync.seen[e] \in Version
             /\ disk.cal.ver[e] \in Version /\ disk.cal.etag[e] \in Version
             /\ cal.recording[e] \in Recordable
             /\ disk.cal.recording[e] \in Recordable
    BY DEF Types, TypeOK, SyncOK, Synchronisation, CICalendar, StampOK
<1> QED
    BY <1>1, <1>2, <1>3

(* The tokens stay where they are.                                         *)
LEMMA TokensStay ==
    ASSUME Between, cal'.SyncToken = cal.SyncToken, disk'.cal.SyncToken = disk.cal.SyncToken,
           rev <= rev', Running' => Running,
           pc' \in Informed => pc \in Informed /\ sync'.token = sync.token
    PROVE  TokensOK'
<1>1. Types /\ Types'
    BY DEF Between, IInv
<1>2. rev \in Nat /\ rev' \in Nat /\ sync.token \in Nat /\ cal.SyncToken \in Nat
      /\ disk.cal.SyncToken \in Nat
    BY <1>1, Numbers DEF Types, TypeOK
<1> QED
    BY <1>2 DEF Between, Tokens, Overall, TokensOK

(* An event that has just been written to the server is ahead of them.     *)
LEMMA AheadOfTokens ==
    ASSUME Between, NEW e \in Events, stamp'[e] = rev + 1,
           cal'.SyncToken = cal.SyncToken, disk'.cal.SyncToken = disk.cal.SyncToken,
           pc' \in Informed => pc \in Informed /\ sync'.token = sync.token
    PROVE  /\ stamp'[e] > cal'.SyncToken /\ stamp'[e] > disk'.cal.SyncToken
           /\ pc' \in Informed => ~(stamp'[e] <= sync'.token)
           /\ Known(cal, unsent, e)' /\ Known(disk.cal, kept, e)'
           /\ Based(cal, e)' /\ Based(disk.cal, e)' /\ GetsRead(e)'
<1>1. Types /\ TokensOK
    BY DEF Between, IInv, Tokens, Overall
<1>2. rev \in Nat /\ sync.token \in Nat /\ cal.SyncToken \in Nat /\ disk.cal.SyncToken \in Nat
    BY <1>1, Numbers
<1>3. /\ stamp'[e] > cal'.SyncToken /\ stamp'[e] > disk'.cal.SyncToken
      /\ pc' \in Informed => ~(stamp'[e] <= sync'.token)
      /\ ~(stamp'[e] <= cal'.SyncToken) /\ ~(stamp'[e] <= disk'.cal.SyncToken)
    BY <1>1, <1>2 DEF TokensOK
<1> QED
    BY <1>3 DEF Known, Based, GetsRead

(* Another client changes an event.                                        *)
LEMMA OtherTokens ==
    ASSUME Between, OtherClient, Aside
    PROVE  Tokens'
<1>1. PICK e \in Events : \E v \in Revisions(server[e], e) : Store(e, v)
    BY DEF OtherClient
<1>2. PICK v \in Revisions(server[e], e) : Store(e, v)
    BY <1>1
<1>3. Types /\ Older /\ NeverThere /\ TokensOK /\ FetchDone /\ Order
    BY DEF Between, IInv, Tokens, Overall, Shape
<1>4. /\ v \in Version /\ v \in {0, NextVersion} /\ (v = 0 => server[e] # 0)
      /\ server[e] = 0 => stamp[e] = 0
  <2>1. server[e] \in Version /\ SpentOK /\ Left("others", MaxOthers)
    BY <1>3, Numbers DEF Types, OtherClient
  <2> QED
    BY <1>2, <2>1, RevisionsOK DEF Revisions, Fresh
<1>5. /\ server'[e] = v /\ rev' \in Nat /\ rev \in Nat /\ rev <= rev'
      /\ \A x \in Events \ {e} : server'[x] = server[x] /\ stamp'[x] = stamp[x]
      /\ stamp'[e] = rev + 1
    BY <1>2, <1>3, <1>4, StoreEffect
<1>6. /\ UNCHANGED <<hasSync, cal, disk, mode, pc, unsent, kept, spoilt>>
      /\ IF pc = "idle" THEN sync' = NoSync ELSE sync' = sync
    BY DEF OtherClient, Aside, dueVars
<1>7. NextVersion' = NextVersion + 1
  <2>1. spent.edits \in Nat /\ spent.others \in Nat
        /\ spent'.edits = spent.edits /\ spent'.others = spent.others + 1
    BY <1>3 DEF Types, SpentOK, OtherClient, Spend
  <2> QED
    BY <2>1 DEF NextVersion
<1>8. Older'
    BY <1>3, <1>4, <1>5, <1>6, <1>7 DEF Older, Between
<1>9. NeverThere'
    BY <1>2, <1>3, <1>4, StoredThere
<1>10. TokensOK'
    BY <1>3, <1>5, <1>6, TokensStay DEF Running, Informed
<1>11. FetchDone'
    BY <1>3, <1>6 DEF FetchDone
<1>12. ASSUME NEW x \in Events \ spoilt' PROVE Matches(x)' /\ Traced(x)'
  <2>1. Matches(x) /\ Traced(x)
    BY <1>6 DEF Between, Tokens
  <2>2. CASE x # e
    <3>1. Unmoved(x)
      BY <1>5, <1>6, <2>2 DEF Unmoved
    <3>2. Traced(x)'
      BY <1>3, <1>6, <2>1, <3>1, UnmovedTraced, Untraced, NoSyncEmpty DEF SameSync, Informed
    <3> QED
      BY <2>1, <3>1, <3>2, UnmovedMatches
  <2>3. CASE x = e
    <3>1. server'[e] \notin {cal.etag[e], disk.cal.etag[e]} \/ server'[e] = 0
      BY <1>3, <1>4, <1>5 DEF Older, Between
    <3>2. Tagged(cal, unsent, e)' /\ Tagged(disk.cal, kept, e)' /\ ~TaggedInCache(e)'
      BY <1>6, <3>1 DEF Tagged, TaggedInCache
    <3>3. /\ stamp'[e] > cal'.SyncToken
          /\ pc' \in Informed => ~(stamp'[e] <= sync'.token)
          /\ Known(cal, unsent, e)' /\ Known(disk.cal, kept, e)'
          /\ Based(cal, e)' /\ Based(disk.cal, e)' /\ GetsRead(e)'
      BY <1>5, <1>6, AheadOfTokens DEF Informed
    <3>4. Matches(e)'
      BY <1>6, <2>1, <2>3, <3>2, <3>3 DEF Matches, ToSendInCache, NotTagged
    <3>5. Reported(e)'
      <4>1. CASE pc = "idle"
        BY <1>6, <4>1, NoSyncEmpty DEF Reported, Removed, Informed
      <4>2. CASE pc # "idle"
        <5>1. Reported(e) /\ UNCHANGED <<sync, cal, pc>>
          BY <1>6, <2>1, <2>3, <4>2 DEF Traced
        <5>2. Removed(e) /\ server[e] = 0 => FALSE
          <6>1. cal.SyncToken \in Nat /\ stamp[e] \in Nat
            BY <1>3, Numbers
          <6> QED
            BY <1>4, <5>1, <6>1 DEF Removed, Reported
        <5> QED
          BY <3>3, <5>1, <5>2 DEF Reported, Removed
      <4> QED
        BY <4>1, <4>2
    <3>6. Contended(e)' /\ Followed(e)'
      BY <1>3, <1>6, <2>1, <2>3, <3>2, NoSyncEmpty
      DEF Traced, Contended, Followed, Listed, Informed
    <3> QED
      BY <2>3, <3>3, <3>4, <3>5, <3>6 DEF Traced
  <2> QED
    BY <2>2, <2>3
<1> QED
    BY <1>6, <1>8, <1>9, <1>10, <1>11, <1>12 DEF Tokens, Overall

-----------------------------------------------------------------------------
(* The user.                                                               *)

(* Without a synchronisation there is nothing to be traced.                *)
LEMMA AsideUntraced ==
    ASSUME Between, Aside, pc \notin Informed, pc' \notin Informed,
           NEW e \in Events \ spoilt
    PROVE  Traced(e)'
<1>1. Reported(e) /\ sync.both = {} /\ sync.winner = {}
    BY DEF Between, Tokens, Traced, IInv, Shape, Order
<1> QED
    BY <1>1, Untraced, NoSyncEmpty DEF Aside, Reported

(* What is in the recording of an event is cleared.                        *)
LEMMA ClearedMatches ==
    ASSUME NEW e \in Events, Matches(e), e \notin unsent,
           server'[e] = server[e], stamp'[e] = stamp[e],
           cal'.ver[e] = cal.ver[e], cal'.etag[e] = cal.etag[e],
           cal'.recording[e] = "none", cal'.SyncToken = cal.SyncToken,
           disk' = disk, kept' = kept
    PROVE  Matches(e)'
BY DEF Matches, Known, Based, Tagged, ToSendInCache, TaggedInCache, NotTagged

(* What a change of event e makes of the calendar.                         *)
LEMMA EditedFields ==
    ASSUME Types, NEW e \in Events, NEW v \in Version, NEW c, c = Edited(cal, e, v)
    PROVE  /\ c \in CICalendar
           /\ c.ver[e] = v /\ c.recording[e] = RecordAction(cal, e, v)
           /\ c.etag = cal.etag /\ c.SyncToken = cal.SyncToken
           /\ \A x \in Events \ {e} : c.ver[x] = cal.ver[x]
                                      /\ c.recording[x] = cal.recording[x]
<1>1. cal \in CICalendar
    BY DEF Types, TypeOK
<1>2. Edited(cal, e, v) \in CICalendar
    BY <1>1, EditedType
<1>3. Edited(cal, e, v).ver = [cal.ver EXCEPT ![e] = v]
      /\ Edited(cal, e, v).recording = [cal.recording EXCEPT ![e] = RecordAction(cal, e, v)]
      /\ Edited(cal, e, v).etag = cal.etag /\ Edited(cal, e, v).SyncToken = cal.SyncToken
    BY <1>1 DEF CICalendar, Edited
<1>4. /\ c \in CICalendar /\ c.ver = [cal.ver EXCEPT ![e] = v]
      /\ c.recording = [cal.recording EXCEPT ![e] = RecordAction(cal, e, v)]
      /\ c.etag = cal.etag /\ c.SyncToken = cal.SyncToken
    BY <1>2, <1>3
<1>5. /\ c.ver[e] = v /\ c.recording[e] = RecordAction(cal, e, v)
      /\ \A x \in Events \ {e} : c.ver[x] = cal.ver[x] /\ c.recording[x] = cal.recording[x]
    BY <1>1, <1>4 DEF CICalendar
<1> QED
    BY <1>4, <1>5

(* And when it is not to be sent again.                                    *)
LEMMA EditedCleared ==
    ASSUME Types, NEW e \in Events, NEW v \in Version, NEW d,
           \/ d = ClearRecording(Edited(cal, e, v))
           \/ d = ClearRecording([Edited(cal, e, v) EXCEPT !.etag[e] = v])
    PROVE  /\ d.ver[e] = v /\ d.SyncToken = cal.SyncToken
           /\ d.etag[e] \in {v, cal.etag[e]}
           /\ \A x \in Events : d.recording[x] = "none"
           /\ \A x \in Events \ {e} : d.ver[x] = cal.ver[x] /\ d.etag[x] = cal.etag[x]
<1>1. cal.etag \in [Events -> Version]
    BY DEF Types, TypeOK, CICalendar
<1>2. PICK c : c = Edited(cal, e, v)
    OBVIOUS
<1>3. /\ c \in CICalendar /\ c.ver[e] = v /\ c.etag = cal.etag
      /\ c.SyncToken = cal.SyncToken
      /\ \A x \in Events \ {e} : c.ver[x] = cal.ver[x]
    BY <1>2, EditedFields
<1>4. \A k \in CICalendar :
         /\ ClearRecording(k).ver = k.ver /\ ClearRecording(k).etag = k.etag
         /\ ClearRecording(k).SyncToken = k.SyncToken
         /\ ClearRecording(k).recording = [x \in Events |-> "none"]
         /\ [k EXCEPT !.etag[e] = v] \in CICalendar
         /\ [k EXCEPT !.etag[e] = v].ver = k.ver
         /\ [k EXCEPT !.etag[e] = v].etag = [k.etag EXCEPT ![e] = v]
         /\ [k EXCEPT !.etag[e] = v].SyncToken = k.SyncToken
    BY DEF ClearRecording, CICalendar, Empty
<1>5. \/ d = ClearRecording(c)
      \/ d = ClearRecording([c EXCEPT !.etag[e] = v])
    BY <1>2
<1>6. /\ d.ver = c.ver /\ d.SyncToken = c.SyncToken
      /\ d.etag \in {c.etag, [c.etag EXCEPT ![e] = v]}
      /\ d.recording = [x \in Events |-> "none"]
  <2>1. CASE d = ClearRecording(c)
    BY <1>3, <1>4, <2>1
  <2>2. CASE d = ClearRecording([c EXCEPT !.etag[e] = v])
    <3>1. PICK k : k = [c EXCEPT !.etag[e] = v]
      OBVIOUS
    <3>2. k \in CICalendar /\ k.ver = c.ver /\ k.etag = [c.etag EXCEPT ![e] = v]
          /\ k.SyncToken = c.SyncToken
      BY <1>3, <1>4, <3>1
    <3>3. d = ClearRecording(k)
      BY <2>2, <3>1
    <3> QED
      BY <1>4, <3>2, <3>3
  <2> QED
    BY <1>5, <2>1, <2>2
<1> QED
    BY <1>1, <1>3, <1>6

(* What a change can make of event e.                                      *)
LEMMA EditingFacts ==
    ASSUME Between, NEW e \in Events, NEW v \in Version, Editing(e, v)
    PROVE  /\ v \in {0, NextVersion} /\ NextVersion \notin {0, disk.cal.etag[e], cal.etag[e]}
           /\ v = 0 => cal.ver[e] # 0
           /\ cal.ver[e] = 0 => stamp[e] = 0 /\ disk.cal.ver[e] = 0 /\ server[e] = 0
<1>1. Types /\ Older /\ NeverThere
    BY DEF Between, IInv, Tokens, Overall
<1>2. v = 0 => cal.ver[e] # 0
    BY <1>1, RevisionsOK, Numbers DEF Editing, Types
<1>3. NextVersion \notin {0, disk.cal.etag[e], cal.etag[e]}
    BY <1>1 DEF Older, Between
<1>4. v \in {0, NextVersion} /\ (cal.ver[e] = 0 => Fresh(e))
    BY DEF Editing, Revisions
<1> QED
    BY <1>1, <1>2, <1>3, <1>4 DEF Fresh, NeverThere

(* A change that the server is not told of.                                *)
LEMMA EditedMatches ==
    ASSUME Between, NEW e \in Events \ spoilt, NEW v \in Version, Editing(e, v),
           cal' = Edited(cal, e, v), ToSend(e),
           Running, UNCHANGED <<server, stamp, disk, kept>>
    PROVE  Matches(e)'
<1>1. Types /\ Matches(e) /\ (e \in unsent => cal.recording[e] # "none")
      /\ TokensOK
    BY DEF Between, IInv, Tokens, Overall, Edits, InMemory, Waiting, Fits
<1>2. /\ cal'.ver[e] = v /\ cal'.recording[e] = RecordAction(cal, e, v)
      /\ cal'.etag = cal.etag /\ cal'.SyncToken = cal.SyncToken
    BY <1>1, EditedFields
<1>3. /\ v \in {0, NextVersion} /\ NextVersion \notin {0, disk.cal.etag[e], cal.etag[e]}
      /\ v = 0 => cal.ver[e] # 0
      /\ cal.ver[e] = 0 => stamp[e] = 0 /\ disk.cal.ver[e] = 0 /\ server[e] = 0
    BY EditingFacts
<1>4. \/ cal.ver[e] = 0 /\ v # 0 /\ cal'.recording[e] = "added"
      \/ cal.ver[e] # 0 /\ v # 0 /\ cal'.recording[e] = "added" /\ cal.recording[e] = "added"
      \/ cal.ver[e] # 0 /\ v # 0 /\ cal'.recording[e] = "changed" /\ cal.recording[e] # "added"
      \/ cal.ver[e] # 0 /\ v = 0 /\ cal'.recording[e] = "none" /\ cal.recording[e] = "added"
      \/ cal.ver[e] # 0 /\ v = 0 /\ cal'.recording[e] = "removed" /\ cal.recording[e] # "added"
  <2>1. CASE cal.ver[e] = 0
    BY <1>2, <1>3, <2>1 DEF RecordAction
  <2>2. CASE cal.ver[e] # 0 /\ v # 0
    BY <1>2, <2>2 DEF RecordAction
  <2>3. CASE cal.ver[e] # 0 /\ v = 0
    BY <1>2, <2>3 DEF RecordAction
  <2> QED
    BY <1>3, <2>1, <2>2, <2>3
<1>5. e \notin unsent' => cal'.recording[e] = "none"
    BY DEF ToSend
<1>6. cal.recording[e] \in {"none", "added", "changed", "removed"}
    BY <1>1, Numbers DEF Recordable
<1>7. Known(cal, unsent, e)'
    BY <1>1, <1>2, <1>4, <1>5 DEF Matches, Known, Based
<1>8. Based(cal, e)'
    BY <1>1, <1>2, <1>3, <1>4, <1>5, <1>6 DEF Matches, Known, Based
<1>9. Tagged(cal, unsent, e)'
    BY <1>2, <1>4, <1>5 DEF Tagged
<1>10. ToSendInCache(e)'
    BY <1>1, <1>2, <1>3, <1>4 DEF Matches, ToSendInCache, TaggedInCache
<1>11. NotTagged(e)'
    BY <1>2, <1>3 DEF NotTagged
<1> QED
    BY <1>1, <1>7, <1>8, <1>9, <1>10, <1>11 DEF Matches, Known, Based, Tagged

(* A change that has come through.                                         *)
LEMMA PerformedMatches ==
    ASSUME Between, NEW e \in Events \ spoilt, NEW v \in Version, Editing(e, v),
           cal'.ver[e] = v, cal'.SyncToken = cal.SyncToken,
           cal'.recording[e] \in {"none", RecordAction(cal, e, v)},
           Store(e, v), pc \notin Informed, pc' \notin Informed, Running,
           UNCHANGED <<disk, kept>>
    PROVE  Matches(e)'
<1>1. Types /\ Matches(e) /\ TokensOK /\ (e \in unsent => cal.recording[e] # "none")
    BY DEF Between, IInv, Tokens, Overall, Edits, InMemory, Waiting, Fits
<1>3. /\ v \in {0, NextVersion} /\ NextVersion \notin {0, disk.cal.etag[e], cal.etag[e]}
      /\ v = 0 => cal.ver[e] # 0
      /\ cal.ver[e] = 0 => stamp[e] = 0 /\ disk.cal.ver[e] = 0 /\ server[e] = 0
    BY EditingFacts
<1>4. /\ server'[e] = v
      /\ \/ v = 0 /\ server[e] = 0 /\ UNCHANGED <<server, stamp, rev>>
         \/ stamp'[e] = rev + 1 /\ rev' = rev + 1
    BY <1>1, StoreEffect
<1>5. \/ v # 0 /\ (cal'.recording[e] # "none" => cal'.recording[e] \in {"added", "changed"})
      \/ v = 0 /\ cal'.recording[e] = "none"
      \/ v = 0 /\ cal'.recording[e] = "removed" /\ cal.recording[e] # "added"
    BY <1>3 DEF RecordAction
<1>6. cal.recording[e] \in {"none", "added", "changed", "removed"}
    BY <1>1, Numbers DEF Recordable
<1>7. /\ Known(cal, unsent, e)' /\ Known(disk.cal, kept, e)'
      /\ Based(cal, e)' /\ Based(disk.cal, e)'
  <2>1. CASE stamp'[e] = rev + 1
    BY <2>1, AheadOfTokens
  <2>2. CASE v = 0 /\ server[e] = 0 /\ UNCHANGED <<server, stamp, rev>>
    <3>1. Known(cal, unsent, e)' /\ Known(disk.cal, kept, e)' /\ Based(disk.cal, e)'
      BY <1>1, <1>4, <2>2 DEF Matches, Known, Based
    <3>2. stamp[e] <= cal.SyncToken => cal.recording[e] = "added"
      BY <1>1, <1>3, <1>6, <2>2 DEF Matches, Known, Based
    <3> QED
      BY <1>5, <2>2, <3>1, <3>2 DEF Based
  <2> QED
    BY <1>4, <2>1, <2>2
<1>8. Tagged(cal, unsent, e)' /\ Tagged(disk.cal, kept, e)'
    BY <1>3, <1>4 DEF Tagged
<1>9. ToSendInCache(e)' /\ NotTagged(e)'
    BY <1>3, <1>4, <1>5 DEF ToSendInCache, TaggedInCache, NotTagged
<1> QED
    BY <1>7, <1>8, <1>9 DEF Matches

(* A change of the calendar by the user leaves only versions that are older*)
(* than the next.                                                          *)
LEMMA EditedOlder ==
    ASSUME Between, NEW e \in Events, NEW v \in Version, Editing(e, v),
           spent'.edits = spent.edits + 1, spent'.others = spent.others,
           server' = server \/ Store(e, v), UNCHANGED disk,
           cal'.ver[e] = v, \A x \in Events \ {e} : cal'.ver[x] = cal.ver[x],
           \A x \in Events : cal'.etag[x] \in {v, cal.etag[x]}
    PROVE  Older'
<1>1. Types /\ Older
    BY DEF Between, IInv, Tokens, Overall
<1>2. v \in {0, NextVersion}
    BY EditingFacts
<1>3. NextVersion' = NextVersion + 1
  <2>1. spent.edits \in Nat /\ spent.others \in Nat
    BY <1>1 DEF Types, SpentOK
  <2> QED
    BY <2>1 DEF NextVersion
<1>4. \A x \in Events : server'[x] \in {v, server[x]} /\ cal'.ver[x] \in {v, cal.ver[x]}
    BY <1>1, StoreEffect
<1>5. ASSUME NEW x \in Events
      PROVE  {server'[x], cal'.ver[x], cal'.etag[x], disk'.cal.ver[x], disk'.cal.etag[x]}
               \subseteq 0..(NextVersion' - 1)
  <2>1. {server[x], cal.ver[x], cal.etag[x], disk.cal.ver[x], disk.cal.etag[x]}
          \subseteq 0..(NextVersion - 1)
    BY <1>1 DEF Older
  <2>2. {server'[x], cal'.ver[x], cal'.etag[x], disk'.cal.ver[x], disk'.cal.etag[x]}
          \subseteq {server[x], cal.ver[x], cal.etag[x], disk.cal.ver[x], disk.cal.etag[x],
                     0, NextVersion}
    BY <1>2, <1>4
  <2>3. 0..(NextVersion - 1) \cup {0, NextVersion} \subseteq 0..(NextVersion' - 1)
    BY <1>3 DEF Between
  <2> QED
    BY <2>1, <2>2, <2>3
<1> QED
    BY <1>5 DEF Older

(* Both counts of the bounds.                                              *)
LEMMA EditsSpent ==
    ASSUME Types, Spend("edits") \/ spent' = [spent EXCEPT !.edits = @ + 1, !.faults = @ + 1]
    PROVE  spent'.edits = spent.edits + 1 /\ spent'.others = spent.others
<1>1. spent \in [edits : Nat, others : Nat, faults : Nat, crashes : Nat]
    BY DEF Types, SpentOK
<1> QED
    BY <1>1 DEF Spend

LEMMA EditOfflineTokens ==
    ASSUME Between, EditOffline, Aside
    PROVE  Tokens'
<1>1. PICK e \in Events, v \in Version :
        Editing(e, v) /\ cal' = Edited(cal, e, v) /\ ToSend(e)
    BY DEF EditOffline
<1>2. Types /\ Overall /\ Running /\ Running'
    BY DEF Between, IInv, Tokens, EditOffline, Editing, Running
<1>3. /\ UNCHANGED <<hasSync, server, stamp, rev, disk, kept, spoilt>>
      /\ pc = "idle" /\ pc' = "save" /\ Spend("edits")
    BY <1>1 DEF EditOffline, Editing, serverVars
<1>4. /\ cal'.ver[e] = v /\ cal'.etag = cal.etag /\ cal'.SyncToken = cal.SyncToken
      /\ \A x \in Events \ {e} : cal'.ver[x] = cal.ver[x] /\ cal'.recording[x] = cal.recording[x]
    BY <1>1, <1>2, EditedFields
<1>5. Older'
    BY <1>1, <1>2, <1>3, <1>4, EditsSpent, EditedOlder
<1>6. NeverThere' /\ FetchDone' /\ TokensOK'
    BY <1>2, <1>3, <1>4 DEF Overall, NeverThere, FetchDone, TokensOK, Informed
<1>7. ASSUME NEW x \in Events \ spoilt' PROVE Matches(x)' /\ Traced(x)'
  <2>1. Traced(x)'
    BY <1>3, AsideUntraced DEF Informed
  <2>2. CASE x = e
    BY <1>1, <1>2, <1>3, <2>1, <2>2, EditedMatches
  <2>3. CASE x # e
    <3>1. Unmoved(x)
      BY <1>1, <1>3, <1>4, <2>3 DEF Unmoved, ToSend
    <3> QED
      BY <1>3, <2>1, <3>1, UnmovedMatches DEF Between, Tokens
  <2> QED
    BY <2>2, <2>3
<1> QED
    BY <1>5, <1>6, <1>7 DEF Tokens, Overall

LEMMA EditFailsTokens ==
    ASSUME Between, EditFails, Aside
    PROVE  Tokens'
<1>1. PICK e \in Events, v \in Version :
        /\ Editing(e, v) /\ cal' = Edited(cal, e, v)
        /\ \/ Store(e, v) /\ unsent' = unsent \ {e}
           \/ UNCHANGED serverVars /\ ToSend(e)
    BY DEF EditFails
<1>2. Types /\ Overall /\ Running /\ Running'
    BY DEF Between, IInv, Tokens, EditFails, Editing, Running
<1>3. /\ UNCHANGED <<hasSync, disk, kept, spoilt>> /\ pc = "idle" /\ pc' = "idle"
      /\ spent' = [spent EXCEPT !.edits = @ + 1, !.faults = @ + 1]
    BY <1>1 DEF EditFails, Editing
<1>4. /\ cal'.ver[e] = v /\ cal'.etag = cal.etag /\ cal'.SyncToken = cal.SyncToken
      /\ cal'.recording[e] = RecordAction(cal, e, v)
      /\ \A x \in Events \ {e} : cal'.ver[x] = cal.ver[x] /\ cal'.recording[x] = cal.recording[x]
    BY <1>1, <1>2, EditedFields
<1>5. Older'
    BY <1>1, <1>2, <1>3, <1>4, EditsSpent, EditedOlder DEF serverVars
<1>6. NeverThere' /\ rev <= rev'
    BY <1>1, <1>2, StoredThere, StoreEffect, Numbers DEF Overall, NeverThere, serverVars
<1>7. TokensOK' /\ FetchDone'
    BY <1>2, <1>3, <1>4, <1>6, TokensStay DEF FetchDone, Informed
<1>8. ASSUME NEW x \in Events \ spoilt' PROVE Matches(x)' /\ Traced(x)'
  <2>1. Traced(x)'
    BY <1>3, AsideUntraced DEF Informed
  <2>2. CASE x = e
    <3>1. CASE Store(e, v)
      BY <1>1, <1>2, <1>3, <1>4, <2>1, <2>2, <3>1, PerformedMatches DEF Informed
    <3>2. CASE UNCHANGED serverVars /\ ToSend(e)
      BY <1>1, <1>2, <1>3, <2>1, <2>2, <3>2, EditedMatches DEF serverVars
    <3> QED
      BY <1>1, <3>1, <3>2
  <2>3. CASE x # e
    <3>1. server'[x] = server[x] /\ stamp'[x] = stamp[x]
      BY <1>1, <1>2, <2>3, StoreEffect DEF serverVars
    <3>2. Unmoved(x)
      BY <1>1, <1>3, <1>4, <2>3, <3>1 DEF Unmoved, ToSend
    <3> QED
      BY <1>3, <2>1, <3>2, UnmovedMatches DEF Between, Tokens
  <2> QED
    BY <2>2, <2>3
<1> QED
    BY <1>5, <1>6, <1>7, <1>8 DEF Tokens, Overall

LEMMA EditOnlineTokens ==
    ASSUME Between, EditOnline, Aside
    PROVE  Tokens'
<1>1. PICK e \in Events, v \in Version :
        /\ Editing(e, v) /\ Store(e, v)
        /\ cal' = ClearRecording([Edited(cal, e, v) EXCEPT !.etag[e] = v])
        /\ spoilt' = spoilt \cup (unsent \ {e})
    BY DEF EditOnline
<1>2. Types /\ Overall /\ Running /\ Running'
    BY DEF Between, IInv, Tokens, EditOnline, Editing, Running
<1>3. /\ UNCHANGED <<hasSync, disk, kept>> /\ pc = "idle" /\ pc' = "save"
      /\ Spend("edits") /\ unsent' = {}
    BY <1>1 DEF EditOnline, Editing
<1>4. /\ cal'.ver[e] = v /\ cal'.SyncToken = cal.SyncToken
      /\ \A x \in Events : cal'.recording[x] = "none"
      /\ cal'.etag[e] \in {v, cal.etag[e]}
      /\ \A x \in Events \ {e} : cal'.ver[x] = cal.ver[x] /\ cal'.etag[x] = cal.etag[x]
    BY <1>1, <1>2, EditedCleared
<1>5. Older'
    BY <1>1, <1>2, <1>3, <1>4, EditsSpent, EditedOlder
<1>6. NeverThere' /\ rev <= rev'
    BY <1>1, <1>2, StoredThere, StoreEffect DEF Overall
<1>7. TokensOK' /\ FetchDone'
    BY <1>2, <1>3, <1>4, <1>6, TokensStay DEF FetchDone, Informed
<1>8. ASSUME NEW x \in Events \ spoilt' PROVE Matches(x)' /\ Traced(x)'
  <2>1. Traced(x)' /\ Matches(x)
    BY <1>1, <1>3, AsideUntraced DEF Informed, Between, Tokens
  <2>2. CASE x = e
    BY <1>1, <1>2, <1>3, <1>4, <2>1, <2>2, PerformedMatches DEF Informed
  <2>3. CASE x # e
    <3>1. server'[x] = server[x] /\ stamp'[x] = stamp[x]
      BY <1>1, <1>2, <2>3, StoreEffect
    <3> QED
      BY <1>1, <1>3, <1>4, <2>1, <2>3, <3>1, ClearedMatches
  <2> QED
    BY <2>2, <2>3
<1> QED
    BY <1>5, <1>6, <1>7, <1>8 DEF Tokens, Overall

LEMMA EditRefusedTokens ==
    ASSUME Between, EditRefused, Aside
    PROVE  Tokens'
<1>1. PICK e \in Events, v \in Version :
        /\ Editing(e, v) /\ cal' = ClearRecording(Edited(cal, e, v))
        /\ spoilt' = spoilt \cup unsent \cup {e}
    BY DEF EditRefused
<1>2. Types /\ Overall /\ Running /\ Running'
    BY DEF Between, IInv, Tokens, EditRefused, Editing, Running
<1>3. /\ UNCHANGED <<hasSync, server, stamp, rev, disk, kept>> /\ pc = "idle" /\ pc' = "save"
      /\ spent' = [spent EXCEPT !.edits = @ + 1, !.faults = @ + 1] /\ unsent' = {}
    BY <1>1 DEF EditRefused, Editing, serverVars
<1>4. /\ cal'.ver[e] = v /\ cal'.SyncToken = cal.SyncToken
      /\ \A x \in Events : cal'.recording[x] = "none"
      /\ cal'.etag[e] \in {v, cal.etag[e]}
      /\ \A x \in Events \ {e} : cal'.ver[x] = cal.ver[x] /\ cal'.etag[x] = cal.etag[x]
  <2>1. \/ cal' = ClearRecording(Edited(cal, e, v))
        \/ cal' = ClearRecording([Edited(cal, e, v) EXCEPT !.etag[e] = v])
    BY <1>1
  <2>2. Types
    BY <1>2
  <2> HIDE <1>1
  <2> QED
    BY <2>1, <2>2, EditedCleared
<1>5. Older'
    BY <1>1, <1>2, <1>3, <1>4, EditsSpent, EditedOlder
<1>6. NeverThere' /\ FetchDone' /\ TokensOK'
    BY <1>2, <1>3, <1>4 DEF Overall, NeverThere, FetchDone, TokensOK, Informed
<1>7. ASSUME NEW x \in Events \ spoilt' PROVE Matches(x)' /\ Traced(x)'
  <2>1. Traced(x)' /\ Matches(x)
    BY <1>1, <1>3, AsideUntraced DEF Informed, Between, Tokens
  <2> QED
    BY <1>1, <1>3, <1>4, <2>1, ClearedMatches
<1> QED
    BY <1>5, <1>6, <1>7 DEF Tokens, Overall

-----------------------------------------------------------------------------
(* The cache, crashes and restarts.                                        *)

LEMMA EmptyFields ==
    /\ \A e \in Events : /\ Empty.ver[e] = 0 /\ Empty.etag[e] = 0
                         /\ Empty.recording[e] = "none"
    /\ Empty.SyncToken = 0
BY DEF Empty

LEMMA SaveTokens ==
    ASSUME Between, Save, Aside
    PROVE  Tokens'
<1>1. Types /\ Overall /\ Running /\ Running'
    BY DEF Between, IInv, Tokens, Save, Running
<1>2. /\ UNCHANGED <<hasSync, server, stamp, rev, cal, unsent, spoilt>>
      /\ disk'.cal = cal /\ kept' = unsent /\ pc = "save" /\ pc' = "idle"
    BY DEF Save, serverVars
<1>3. Older'
    BY <1>1, <1>2 DEF Overall, Older, Between
<1>4. NeverThere' /\ FetchDone' /\ TokensOK'
  <2>1. cal.SyncToken \in Nat
    BY <1>1, Numbers
  <2> QED
    BY <1>1, <1>2, <2>1 DEF Overall, NeverThere, FetchDone, TokensOK, Informed
<1>5. ASSUME NEW e \in Events \ spoilt' PROVE Matches(e)' /\ Traced(e)'
  <2>1. Traced(e)' /\ Matches(e)
    BY <1>2, AsideUntraced DEF Informed, Between, Tokens
  <2>2. e \in unsent /\ cal.recording[e] \in {"added", "changed"} => cal.ver[e] # 0
    BY <1>1, <1>2 DEF Between, IInv, Edits, InMemory, Waiting, Fits
  <2> QED
    BY <1>2, <2>1, <2>2
    DEF Matches, Known, Based, Tagged, ToSendInCache, TaggedInCache, NotTagged
<1> QED
    BY <1>3, <1>4, <1>5 DEF Tokens, Overall

(* What stops the program leaves nothing in memory.                        *)
LEMMA StoppedTokens ==
    ASSUME Between, UNCHANGED <<server, stamp, rev>>, cal' = Empty,
           mode' = "stopped", pc' = "idle", sync' = NoSync, spoilt \subseteq spoilt',
           disk'.cal.SyncToken <= rev,
           \A e \in Events : disk'.cal.ver[e] \in {0, cal.ver[e], disk.cal.ver[e]}
                             /\ disk'.cal.etag[e] \in {0, cal.etag[e], disk.cal.etag[e]},
           \A e \in Events \ spoilt' : /\ Known(disk.cal, kept, e)'
                                       /\ Based(disk.cal, e)'
                                       /\ Tagged(disk.cal, kept, e)'
    PROVE  Tokens'
<1>1. Types /\ Overall
    BY DEF Between, IInv, Tokens
<1>2. Older'
  <2>1. ASSUME NEW e \in Events
        PROVE  {server'[e], cal'.ver[e], cal'.etag[e], disk'.cal.ver[e], disk'.cal.etag[e]}
                 \subseteq 0..(NextVersion' - 1)
    <3>1. {server[e], cal.ver[e], cal.etag[e], disk.cal.ver[e], disk.cal.etag[e]}
            \subseteq 0..(NextVersion - 1)
      BY <1>1 DEF Overall, Older
    <3>2. {server'[e], cal'.ver[e], cal'.etag[e], disk'.cal.ver[e], disk'.cal.etag[e]}
            \subseteq {server[e], cal.ver[e], cal.etag[e], disk.cal.ver[e], disk.cal.etag[e], 0}
      BY EmptyFields
    <3>3. NextVersion \in Nat /\ NextVersion' \in Nat /\ NextVersion <= NextVersion'
      BY DEF Between
    <3>4. server[e] \in 0..(NextVersion - 1)
      BY <3>1
    <3>5. 0 \in 0..(NextVersion - 1) /\ 0..(NextVersion - 1) \subseteq 0..(NextVersion' - 1)
      <4>1. \A m, n \in Nat : m <= n => 0..(m - 1) \subseteq 0..(n - 1)
        OBVIOUS
      <4>2. \A m \in Nat : \A x : x \in 0..(m - 1) => 0 \in 0..(m - 1)
        OBVIOUS
      <4> QED
        BY <3>3, <3>4, <4>1, <4>2
    <3> QED
      BY <3>1, <3>2, <3>5
  <2> QED
    BY <2>1 DEF Older
<1>3. NeverThere' /\ FetchDone' /\ TokensOK'
  <2>1. rev \in Nat
    BY <1>1, Numbers
  <2> QED
    BY <1>1, <2>1, EmptyFields DEF Overall, NeverThere, FetchDone, TokensOK, Informed, Running
<1>4. ASSUME NEW e \in Events \ spoilt' PROVE Matches(e)' /\ Traced(e)'
  <2>1. Traced(e)'
    BY Untraced, NoSyncEmpty DEF Informed
  <2>2. stamp[e] \in Nat /\ (stamp[e] = 0 => server[e] = 0)
    BY <1>1, Numbers DEF Overall, NeverThere
  <2>3. Known(cal, unsent, e)'
    BY <2>2, EmptyFields DEF Known
  <2>4. Based(cal, e)' /\ Tagged(cal, unsent, e)' /\ ToSendInCache(e)' /\ NotTagged(e)'
    BY EmptyFields DEF Based, Tagged, ToSendInCache, NotTagged
  <2> QED
    BY <2>1, <2>3, <2>4 DEF Matches
<1> QED
    BY <1>2, <1>3, <1>4 DEF Tokens, Overall

LEMMA CrashTokens ==
    ASSUME Between, \/ Crash /\ Aside
                    \/ \E e \in Events : NullComponent(e)
    PROVE  Tokens'
<1>1. /\ UNCHANGED <<server, stamp, rev, disk, kept, spoilt>> /\ cal' = Empty
      /\ mode' = "stopped" /\ pc' = "idle" /\ sync' = NoSync
    BY DEF Crash, Stop, Aside, NullComponent, serverVars
<1>2. TokensOK /\ \A e \in Events \ spoilt : Matches(e)
    BY DEF Between, Tokens, Overall
<1>3. \A e \in Events \ spoilt' : /\ Known(disk.cal, kept, e)' /\ Based(disk.cal, e)'
                                  /\ Tagged(disk.cal, kept, e)'
    BY <1>1, <1>2 DEF Matches, Known, Based, Tagged
<1> QED
    BY <1>1, <1>2, <1>3, StoppedTokens DEF TokensOK

(* The files after a crash while they are written.                         *)
LEMMA TornFields ==
    ASSUME Types, disk' \in Torn
    PROVE  \/ disk'.cal = Empty
           \/ /\ disk'.cal.ver = cal.ver /\ disk'.cal.etag = cal.etag
              /\ disk'.cal.recording = disk.cal.recording
              /\ disk'.cal.SyncToken = disk.cal.SyncToken
           \/ /\ disk'.cal.ver = cal.ver /\ disk'.cal.etag = cal.etag
              /\ disk'.cal.recording = Empty.recording /\ disk'.cal.SyncToken = 0
<1>1. disk.cal \in CICalendar /\ Empty \in CICalendar
    BY EmptyType DEF Types, TypeOK
<1>2. \A c \in CICalendar :
         /\ [c EXCEPT !.ver = cal.ver, !.etag = cal.etag].ver = cal.ver
         /\ [c EXCEPT !.ver = cal.ver, !.etag = cal.etag].etag = cal.etag
         /\ [c EXCEPT !.ver = cal.ver, !.etag = cal.etag].recording = c.recording
         /\ [c EXCEPT !.ver = cal.ver, !.etag = cal.etag].SyncToken = c.SyncToken
    BY DEF CICalendar
<1>3. \/ disk'.cal = Empty
      \/ disk'.cal = [disk.cal EXCEPT !.ver = cal.ver, !.etag = cal.etag]
      \/ disk'.cal = [Empty EXCEPT !.ver = cal.ver, !.etag = cal.etag]
    BY DEF Torn
<1> QED
    BY <1>1, <1>2, <1>3, EmptyFields

LEMMA CrashInSaveTokens ==
    ASSUME Between, CrashInSave, Aside
    PROVE  Tokens'
<1>1. /\ UNCHANGED <<server, stamp, rev, unsent>> /\ cal' = Empty /\ disk' \in Torn
      /\ mode' = "stopped" /\ pc' = "idle" /\ sync' = NoSync /\ kept' = unsent
      /\ Running /\ spoilt \subseteq spoilt'
    BY DEF CrashInSave, Stop, Aside, serverVars
<1>2. Types /\ TokensOK /\ NeverThere /\ \A e \in Events \ spoilt : Matches(e)
    BY DEF Between, IInv, Tokens, Overall
<1>3. rev \in Nat /\ cal.SyncToken \in Nat /\ disk.cal.SyncToken \in Nat
      /\ disk.cal.SyncToken <= cal.SyncToken /\ cal.SyncToken <= rev
    BY <1>1, <1>2, Numbers DEF TokensOK
<1>4. /\ disk'.cal.SyncToken <= rev
      /\ \A e \in Events : disk'.cal.ver[e] \in {0, cal.ver[e], disk.cal.ver[e]}
                           /\ disk'.cal.etag[e] \in {0, cal.etag[e], disk.cal.etag[e]}
  <2>1. \/ disk'.cal.SyncToken = 0
        \/ disk'.cal.SyncToken = disk.cal.SyncToken
    BY <1>1, <1>2, TornFields, EmptyFields
  <2>2. ASSUME NEW e \in Events
        PROVE  disk'.cal.ver[e] \in {0, cal.ver[e]} /\ disk'.cal.etag[e] \in {0, cal.etag[e]}
    BY <1>1, <1>2, TornFields, EmptyFields
  <2> QED
    BY <1>3, <2>1, <2>2
<1>5. ASSUME NEW e \in Events \ spoilt'
      PROVE  Known(disk.cal, kept, e)' /\ Based(disk.cal, e)' /\ Tagged(disk.cal, kept, e)'
  <2>1. Known(cal, unsent, e) /\ Based(disk.cal, e) /\ Tagged(cal, unsent, e)
    BY <1>1, <1>2 DEF Matches
  <2>2. stamp[e] \in Nat /\ (stamp[e] = 0 => server[e] = 0)
    BY <1>2, Numbers DEF NeverThere
  <2>3. CASE disk'.cal = Empty
    BY <1>1, <2>2, <2>3, EmptyFields DEF Known, Based, Tagged
  <2>4. CASE /\ disk'.cal.ver = cal.ver /\ disk'.cal.etag = cal.etag
             /\ disk'.cal.recording = disk.cal.recording
             /\ disk'.cal.SyncToken = disk.cal.SyncToken
    BY <1>1, <1>3, <2>1, <2>2, <2>4 DEF Known, Based, Tagged
  <2>5. CASE /\ disk'.cal.ver = cal.ver /\ disk'.cal.etag = cal.etag
             /\ disk'.cal.recording = Empty.recording /\ disk'.cal.SyncToken = 0
    BY <1>1, <1>3, <2>1, <2>2, <2>5, EmptyFields DEF Known, Based, Tagged
  <2> QED
    BY <1>1, <1>2, <2>3, <2>4, <2>5, TornFields
<1> QED
    BY <1>1, <1>4, <1>5, StoppedTokens

(* A start of the program: the calendar is what the cache has.             *)
LEMMA StartTokens ==
    ASSUME Between, \/ StartOffline /\ Aside
                    \/ StartOnline
    PROVE  Tokens'
<1>1. /\ UNCHANGED <<server, stamp, rev, disk, unsent, kept, spoilt>> /\ cal' = disk.cal
      /\ mode = "stopped" /\ mode' # "stopped" /\ unsent = kept /\ pc = "idle"
      /\ pc' \notin Informed
      /\ sync' = NoSync \/ \E b : sync' = [NoSync EXCEPT !.opening = b]
    BY DEF StartOffline, StartOnline, Aside, serverVars, dueVars, Begin, Between, IInv,
           Edits, Stopped, Running, Informed
<1>2. sync'.news = {} /\ sync'.both = {} /\ sync'.winner = {} /\ pc' \notin Informed
    BY <1>1, NoSyncEmpty
<1>3. Types /\ Overall /\ InCache
    BY DEF Between, IInv, Tokens, Edits
<1>4. Older' /\ NeverThere'
    BY <1>1, <1>3 DEF Overall, Older, NeverThere, Between
<1>5. FetchDone' /\ TokensOK'
  <2>1. disk.cal.SyncToken \in Nat
    BY <1>3, Numbers
  <2>2. pc' # "token"
    BY <1>1 DEF Informed
  <2> QED
    BY <1>1, <1>3, <2>1, <2>2 DEF Overall, FetchDone, TokensOK
<1>6. ASSUME NEW e \in Events \ spoilt' PROVE Matches(e)' /\ Traced(e)'
  <2>1. Traced(e)'
    BY <1>2, Untraced
  <2>2. Matches(e) /\ (e \in kept /\ disk.cal.recording[e] # "removed" => disk.cal.ver[e] # 0)
    BY <1>1, <1>3 DEF Between, Tokens, InCache, Stored, Fits
  <2> QED
    BY <1>1, <2>1, <2>2
    DEF Matches, Known, Based, Tagged, ToSendInCache, TaggedInCache, NotTagged
<1> QED
    BY <1>4, <1>5, <1>6 DEF Tokens, Overall

-----------------------------------------------------------------------------
(* The beginning and the end of a synchronisation.                         *)

LEMMA IdleTokens ==
    ASSUME Between, \/ (GoOffline \/ GoOnline) /\ Aside
                    \/ CheckCalendar
                    \/ RequestFails
    PROVE  Tokens'
<1>1. /\ UNCHANGED <<server, stamp, rev, cal, disk, unsent, kept, spoilt>> /\ Running
      /\ pc' \notin Informed
      /\ sync' = NoSync \/ \E b : sync' = [NoSync EXCEPT !.opening = b]
    BY DEF GoOffline, GoOnline, CheckCalendar, RequestFails, Throw, Requesting, Syncing,
           Aside, Begin, serverVars, dueVars, Running, Informed, Between
<1> QED
    BY <1>1, QuietTokens

LEMMA FastSyncTokens ==
    ASSUME Between, FastSync
    PROVE  Tokens'
<1> DEFINE news == IF cal.SyncToken = 0 THEN Present(server)
                   ELSE {e \in Events : stamp[e] > cal.SyncToken}
<1>1. Types /\ Overall /\ Order
    BY DEF Between, IInv, Tokens, Shape
<1>2. /\ UNCHANGED <<server, stamp, rev, cal, disk, unsent, kept, mode>>
      /\ pc = "report" /\ pc' = "send" /\ spoilt \subseteq spoilt'
      /\ cal.SyncToken = 0 => \A e \in Events \ spoilt' :
           cal.ver[e] # 0 /\ server[e] = 0 => Told(cal, e)
    BY DEF FastSync, Local, serverVars, dueVars, Present
<1>3. /\ sync'.news = news /\ sync'.seen = server /\ sync'.token = rev
      /\ sync'.changed = (rev # cal.SyncToken) /\ sync'.todo = Recorded(cal)
      /\ sync'.both = {} /\ sync'.winner = {}
  <2>1. sync' = [sync EXCEPT !.news = news, !.seen = server, !.token = rev,
                             !.changed = rev # cal.SyncToken, !.todo = Recorded(cal)]
    BY DEF FastSync
  <2>2. sync.both = {} /\ sync.winner = {} /\ SyncOK
    BY <1>1, <1>2 DEF Order, Informed, Types
  <2> HIDE DEF news
  <2> QED
    BY <2>1, <2>2 DEF SyncOK, Synchronisation
<1>4. Overall'
  <2>1. cal.SyncToken \in Nat /\ rev \in Nat
    BY <1>1, Numbers
  <2> QED
    BY <1>1, <1>2, <1>3, <2>1
    DEF Overall, Older, NeverThere, TokensOK, FetchDone, Running, Between
<1>5. ASSUME NEW e \in Events \ spoilt' PROVE Matches(e)' /\ Traced(e)'
  <2>1. Matches(e)'
    BY <1>2, UnmovedMatches DEF Unmoved, Between, Tokens
  <2>2. /\ stamp[e] \in Nat /\ stamp[e] <= rev /\ cal.SyncToken \in Nat /\ rev \in Nat
        /\ cal.recording[e] \in Recordable /\ (stamp[e] = 0 => server[e] = 0)
    BY <1>1, Numbers DEF Overall, NeverThere
  <2>3. e \in news => stamp[e] > cal.SyncToken
    BY <2>2 DEF Present
  <2>4. e \notin news /\ stamp[e] > cal.SyncToken =>
          /\ cal.SyncToken = 0 /\ server[e] = 0
          /\ cal.ver[e] # 0 =>
               e \in Recorded(cal) /\ cal.recording[e] \in {"added", "changed"}
    <3>1. Told(cal, e) /\ cal.ver[e] # 0 => cal.recording[e] \in {"added", "changed"}
      BY <2>2 DEF Told, Recordable
    <3> QED
      BY <1>2, <2>2, <3>1 DEF Present, Recorded
  <2> HIDE DEF news
  <2>5. Reported(e)'
    <3>1. e \in news => stamp[e] > cal.SyncToken /\ rev # cal.SyncToken
      BY <2>2, <2>3
    <3>2. Removed(e)' => server[e] = 0
      BY <1>2, <1>3 DEF Removed
    <3>3. CASE e \in news
      BY <1>2, <1>3, <3>1, <3>2, <3>3 DEF Reported, Informed
    <3>4. CASE e \notin news
      BY <1>2, <1>3, <2>4, <3>2, <3>4 DEF Reported, Informed
    <3> QED
      BY <3>3, <3>4
  <2>6. Contended(e)' /\ GetsRead(e)' /\ Followed(e)'
    BY <1>2, <1>3 DEF Contended, GetsRead, Followed, Recorded
  <2> QED
    BY <2>1, <2>5, <2>6 DEF Traced
<1> QED
    BY <1>4, <1>5 DEF Tokens, Overall

LEMMA ReportRefusedTokens ==
    ASSUME Between, ReportRefused
    PROVE  Tokens'
<1>1. /\ UNCHANGED <<server, stamp, rev, cal, disk, unsent, kept, spoilt, mode>>
      /\ pc = "report" /\ Running
    BY DEF ReportRefused, Refuse, serverVars, dueVars, Syncing
<1>2. CASE pc' = "idle" /\ sync' = NoSync
    BY <1>1, <1>2, QuietTokens DEF Informed
<1>3. CASE /\ pc' = "send"
           /\ sync' = [sync EXCEPT !.token = cal.SyncToken, !.todo = Recorded(cal)]
  <2>1. Types /\ Overall /\ Order
    BY DEF Between, IInv, Tokens, Shape
  <2>2. /\ sync'.token = cal.SyncToken /\ sync'.todo = Recorded(cal)
        /\ sync'.news = sync.news /\ sync'.both = {} /\ sync'.winner = {}
    <3>1. sync.both = {} /\ sync.winner = {} /\ SyncOK
      BY <1>1, <2>1 DEF Order, Informed, Types
    <3> QED
      BY <1>3, <3>1 DEF SyncOK, Synchronisation
  <2>3. Overall'
    <3>1. cal.SyncToken \in Nat /\ rev \in Nat
      BY <2>1, Numbers
    <3> QED
      BY <1>1, <1>3, <2>1, <2>2, <3>1
      DEF Overall, Older, NeverThere, TokensOK, FetchDone, Running, Between
  <2>4. ASSUME NEW e \in Events \ spoilt' PROVE Matches(e)' /\ Traced(e)'
    <3>1. Matches(e)'
      BY <1>1, UnmovedMatches DEF Unmoved, Between, Tokens
    <3>2. e \notin sync'.news
      BY <1>1, <2>2 DEF Between, Tokens, Traced, Reported, Informed
    <3>3. stamp[e] \in Nat /\ cal.SyncToken \in Nat
      BY <2>1, Numbers
    <3> QED
      BY <1>1, <1>3, <2>2, <3>1, <3>2, <3>3
      DEF Traced, Reported, Removed, Contended, GetsRead, Followed, Recorded
  <2> QED
    BY <2>3, <2>4 DEF Tokens
<1> QED
    BY <1>2, <1>3 DEF ReportRefused

(* At the end nothing is left to be done, and nothing to be sent.          *)
LEMMA AtTheEnd ==
    ASSUME Between, pc = "token", NEW e \in Events \ spoilt
    PROVE  /\ e \notin unsent
           /\ stamp[e] <= sync.token => cal.ver[e] = server[e]
<1>1. Order /\ Handled /\ FetchDone /\ Matches(e) /\ Traced(e) /\ Types
    BY DEF Between, IInv, Shape, Edits, Tokens, Overall
<1>2. /\ sync.todo = {} /\ sync.both = {} /\ sync.winner = {} /\ sync.fetch = {}
    BY <1>1 DEF Order, FetchDone
<1>3. e \notin unsent
    BY <1>1, <1>2 DEF Handled, Waiting, Informed, Between
<1>4. stamp[e] \in Nat /\ cal.SyncToken \in Nat
    BY <1>1, Numbers
<1>5. stamp[e] <= sync.token => cal.ver[e] = server[e]
  <2>1. CASE e \in sync.news
    BY <1>1, <1>2, <2>1 DEF Traced, GetsRead, Informed
  <2>2. CASE e \notin sync.news
    BY <1>1, <1>3, <1>4, <2>2 DEF Traced, Reported, Matches, Known, Informed
  <2> QED
    BY <2>1, <2>2
<1> QED
    BY <1>3, <1>5

LEMMA UpdateFailsTokens ==
    ASSUME Between, UpdateFails
    PROVE  Tokens'
<1>1. /\ UNCHANGED <<server, stamp, rev, disk, unsent, kept, mode>> /\ cal' = ClearRecording(cal)
      /\ pc = "token" /\ pc' = "idle" /\ sync' = NoSync /\ spoilt \subseteq spoilt' /\ Running
    BY DEF UpdateFails, Throw, serverVars, dueVars, Syncing
<1>2. Types /\ Overall
    BY DEF Between, IInv, Tokens
<1>3. /\ cal'.ver = cal.ver /\ cal'.etag = cal.etag /\ cal'.SyncToken = cal.SyncToken
      /\ \A e \in Events : cal'.recording[e] = "none"
  <2>1. cal \in CICalendar
    BY <1>2 DEF Types, TypeOK
  <2> QED
    BY <1>1, <2>1 DEF ClearRecording, CICalendar, Empty
<1>4. Overall'
    BY <1>1, <1>2, <1>3
    DEF Overall, Older, NeverThere, TokensOK, FetchDone, Running, Between, Informed
<1>5. ASSUME NEW e \in Events \ spoilt' PROVE Matches(e)' /\ Traced(e)'
  <2>1. Traced(e)'
    BY <1>1, Untraced, NoSyncEmpty DEF Informed
  <2>2. e \notin unsent /\ Matches(e)
    BY <1>1, AtTheEnd DEF Between, Tokens
  <2> QED
    BY <1>1, <1>3, <2>1, <2>2, ClearedMatches
<1> QED
    BY <1>4, <1>5 DEF Tokens

(* The token of the report is taken: everything is as the server had it    *)
(* then, or has changed there since.                                       *)
LEMMA UpdateTokens ==
    ASSUME Between, UpdateSyncToken \/ UpdateRefused
    PROVE  Tokens'
<1>1. /\ UNCHANGED <<server, stamp, rev, disk, unsent, kept, mode>>
      /\ cal' = Finished \/ \E n : cal' = [Finished EXCEPT !.ETag = n]
      /\ pc = "token" /\ pc' = "save" /\ sync' = NoSync /\ spoilt \subseteq spoilt' /\ Running
    BY DEF UpdateSyncToken, UpdateRefused, Refuse, Local, serverVars, dueVars, Syncing
<1>2. Types /\ Overall
    BY DEF Between, IInv, Tokens
<1>3. /\ cal'.ver = cal.ver /\ cal'.etag = cal.etag /\ cal'.SyncToken = sync.token
      /\ \A e \in Events : cal'.recording[e] = "none"
  <2>1. cal \in CICalendar /\ hasSync /\ sync.token \in Nat
    BY <1>2, Numbers DEF Types, TypeOK, Between
  <2>2. PICK k : k = [cal EXCEPT !.SyncToken = sync.token]
    OBVIOUS
  <2>3. k \in CICalendar /\ k.ver = cal.ver /\ k.etag = cal.etag /\ k.SyncToken = sync.token
    BY <2>1, <2>2 DEF CICalendar
  <2>4. Finished = ClearRecording(k)
    BY <2>1, <2>2 DEF Finished
  <2>5. PICK f : f = Finished
    OBVIOUS
  <2>6. /\ f \in CICalendar /\ f.ver = cal.ver /\ f.etag = cal.etag /\ f.SyncToken = sync.token
        /\ \A e \in Events : f.recording[e] = "none"
    <3>1. f = [k EXCEPT !.recording = [e \in Events |-> "none"]]
      BY <2>4, <2>5 DEF ClearRecording, Empty
    <3> QED
      BY <2>3, <3>1 DEF CICalendar, Recordable
  <2>7. cal' = f \/ \E n : cal' = [f EXCEPT !.ETag = n]
    BY <1>1, <2>5
  <2> QED
    BY <2>6, <2>7 DEF CICalendar
<1>4. Overall'
  <2>1. /\ disk.cal.SyncToken \in Nat /\ cal.SyncToken \in Nat /\ sync.token \in Nat
        /\ rev \in Nat
    BY <1>2, Numbers
  <2> QED
    BY <1>1, <1>2, <1>3, <2>1
    DEF Overall, Older, NeverThere, TokensOK, FetchDone, Running, Between, Informed
<1>5. ASSUME NEW e \in Events \ spoilt' PROVE Matches(e)' /\ Traced(e)'
  <2>1. Traced(e)'
    BY <1>1, Untraced, NoSyncEmpty DEF Informed
  <2>2. /\ e \notin unsent /\ Matches(e)
        /\ stamp[e] <= sync.token => cal.ver[e] = server[e]
    BY <1>1, AtTheEnd DEF Between, Tokens
  <2> QED
    BY <1>1, <1>3, <2>1, <2>2
    DEF Matches, Known, Based, Tagged, ToSendInCache, TaggedInCache, NotTagged
<1> QED
    BY <1>4, <1>5 DEF Tokens

-----------------------------------------------------------------------------
(* A step of the synchronisation for one event.                            *)

(* It leaves the numbers as they are.                                      *)
LEMMA StepOverall ==
    ASSUME Between, NeverThere', rev <= rev', UNCHANGED disk,
           cal'.SyncToken = cal.SyncToken, Running' => Running,
           pc' \in Informed => pc \in Informed /\ sync'.token = sync.token,
           pc' = "token" => sync'.fetch = {},
           \A x \in Events : /\ server'[x] \in {0, server[x], cal.ver[x]}
                             /\ cal'.ver[x] \in {0, server[x], cal.ver[x]}
                             /\ cal'.etag[x] \in {server[x], cal.ver[x], cal.etag[x]}
    PROVE  Overall'
<1>1. Types /\ Older
    BY DEF Between, IInv, Tokens, Overall
<1>2. NextVersion \in Nat /\ NextVersion' \in Nat /\ NextVersion <= NextVersion'
    BY DEF Between
<1>3. ASSUME NEW x \in Events
      PROVE  {server'[x], cal'.ver[x], cal'.etag[x], disk'.cal.ver[x], disk'.cal.etag[x]}
               \subseteq 0..(NextVersion' - 1)
  <2>1. {server[x], cal.ver[x], cal.etag[x], disk.cal.ver[x], disk.cal.etag[x]}
          \subseteq 0..(NextVersion - 1)
    BY <1>1 DEF Older
  <2>2. {server'[x], cal'.ver[x], cal'.etag[x], disk'.cal.ver[x], disk'.cal.etag[x]}
          \subseteq {server[x], cal.ver[x], cal.etag[x], disk.cal.ver[x], disk.cal.etag[x], 0}
    OBVIOUS
  <2>3. server[x] \in 0..(NextVersion - 1)
    BY <2>1
  <2>4. 0 \in 0..(NextVersion - 1) /\ 0..(NextVersion - 1) \subseteq 0..(NextVersion' - 1)
    <3>1. \A m, n \in Nat : m <= n => 0..(m - 1) \subseteq 0..(n - 1)
      OBVIOUS
    <3>2. \A m \in Nat : \A y : y \in 0..(m - 1) => 0 \in 0..(m - 1)
      OBVIOUS
    <3> QED
      BY <1>2, <2>3, <3>1, <3>2
  <2> QED
    BY <2>1, <2>2, <2>4
<1>4. Older'
    BY <1>3 DEF Older
<1>5. TokensOK'
    BY TokensStay
<1> QED
    BY <1>4, <1>5 DEF Overall, FetchDone

(* It is enough to look at that event, unless it is given up.              *)
LEMMA OneEvent ==
    ASSUME Between, Overall', NEW e \in Events, spoilt \subseteq spoilt',
           \A x \in Events \ {e} : Unmoved(x) /\ SameSync(x),
           e \in Events \ spoilt' => Matches(e)' /\ Traced(e)'
    PROVE  Tokens'
<1>1. ASSUME NEW x \in Events \ spoilt' PROVE Matches(x)' /\ Traced(x)'
  <2>1. CASE x = e
    BY <2>1
  <2>2. CASE x # e
    <3>1. Matches(x) /\ Traced(x) /\ Unmoved(x) /\ SameSync(x)
      BY <2>2 DEF Between, Tokens
    <3> QED
      BY <3>1, UnmovedMatches, UnmovedTraced
  <2> QED
    BY <2>1, <2>2
<1> QED
    BY <1>1 DEF Tokens

(* The event is on the server as it is here, and not to be sent.           *)
LEMMA UploadedMatches ==
    ASSUME Between, NEW e \in Events \ spoilt, cal.ver[e] # 0, cal.recording[e] # "none",
           Store(e, cal.ver[e]), e \notin unsent', e \notin kept', disk' = disk,
           cal'.ver[e] = cal.ver[e], cal'.recording[e] = cal.recording[e],
           cal'.SyncToken = cal.SyncToken,
           pc' \in Informed => pc \in Informed /\ sync'.token = sync.token
    PROVE  /\ Matches(e)' /\ stamp'[e] > cal'.SyncToken
           /\ pc' \in Informed => ~(stamp'[e] <= sync'.token)
<1>1. Types /\ Matches(e)
    BY DEF Between, IInv, Tokens
<1>2. server'[e] = cal.ver[e] /\ stamp'[e] = rev + 1
    BY <1>1, StoreEffect, Numbers
<1>3. /\ Known(cal, unsent, e)' /\ Known(disk.cal, kept, e)'
      /\ Based(cal, e)' /\ Based(disk.cal, e)'
      /\ stamp'[e] > cal'.SyncToken
      /\ pc' \in Informed => ~(stamp'[e] <= sync'.token)
    BY <1>2, AheadOfTokens
<1>4. Tagged(cal, unsent, e)' /\ Tagged(disk.cal, kept, e)'
    BY <1>1, <1>2 DEF Tagged, Matches, NotTagged
<1>5. ToSendInCache(e)' /\ NotTagged(e)'
    BY <1>1 DEF ToSendInCache, TaggedInCache, Matches, NotTagged
<1>6. Matches(e)'
    BY <1>3, <1>4, <1>5 DEF Matches
<1> QED
    BY <1>3, <1>6

(* The event is not on the server, the tokens do not stand for that, and it*)
(* is not to be sent.                                                      *)
LEMMA RemovedMatches ==
    ASSUME Between, NEW e \in Events \ spoilt, Running,
           server'[e] = 0, stamp'[e] > cal.SyncToken, stamp'[e] \in Nat,
           e \notin unsent', e \notin kept', disk' = disk,
           cal'.ver[e] \in {0, cal.ver[e]}, cal'.recording[e] = cal.recording[e],
           cal'.SyncToken = cal.SyncToken
    PROVE  Matches(e)'
<1>1. Types /\ Matches(e) /\ TokensOK
    BY DEF Between, IInv, Tokens, Overall
<1>2. cal.SyncToken \in Nat /\ disk.cal.SyncToken \in Nat
      /\ disk.cal.SyncToken <= cal.SyncToken
    BY <1>1, Numbers DEF TokensOK
<1>3. ~(stamp'[e] <= cal'.SyncToken) /\ ~(stamp'[e] <= disk'.cal.SyncToken)
    BY <1>2
<1>4. Known(cal, unsent, e)' /\ Known(disk.cal, kept, e)' /\ Based(cal, e)'
      /\ Based(disk.cal, e)'
    BY <1>3 DEF Known, Based
<1>5. Tagged(cal, unsent, e)' /\ Tagged(disk.cal, kept, e)'
    BY DEF Tagged
<1>6. ToSendInCache(e)' /\ NotTagged(e)'
    BY <1>1 DEF ToSendInCache, TaggedInCache, Matches, NotTagged
<1> QED
    BY <1>4, <1>5, <1>6 DEF Matches

(* A removal is sent: the server has not got the event then, and it is not *)
(* the tokens that said so.                                                *)
LEMMA RemovalSent ==
    ASSUME Between, NEW e \in Events \ spoilt, cal.recording[e] = "removed", Store(e, 0)
    PROVE  /\ server'[e] = 0 /\ stamp'[e] \in Nat /\ stamp'[e] > cal.SyncToken
           /\ \/ server[e] = 0 /\ stamp'[e] = stamp[e]
              \/ stamp'[e] = rev + 1
<1>1. Types /\ Matches(e) /\ TokensOK
    BY DEF Between, IInv, Tokens, Overall
<1>2. /\ 0 \in Version /\ cal.SyncToken \in Nat /\ rev \in Nat /\ stamp[e] \in Nat
      /\ cal.SyncToken <= rev
    BY <1>1, Numbers DEF TokensOK
<1>3. /\ server'[e] = 0
      /\ \/ server[e] = 0 /\ stamp'[e] = stamp[e]
         \/ stamp'[e] = rev + 1
    BY <1>1, <1>2, StoreEffect
<1>4. server[e] = 0 => ~(stamp[e] <= cal.SyncToken)
    BY <1>1 DEF Matches, Based
<1> QED
    BY <1>2, <1>3, <1>4

(* The record of an event that was added here, or changed here and not on  *)
(* the server, is sent.                                                    *)
LEMMA UploadTokens ==
    ASSUME Between, NEW e \in Events, Syncing, pc = "send", e \in sync.todo,
           AddComponent(e) \/ (ChangeComponent(e) /\ ~Dropped(e) /\ ~Later(e))
    PROVE  Tokens'
<1>1. Types /\ Overall /\ Shape
    BY DEF Between, IInv, Tokens
<1>2. /\ Upload(e) /\ cal.ver[e] # 0 /\ cal.recording[e] \in {"added", "changed"}
      /\ sync' = [Taken(e) EXCEPT !.sent = TRUE] /\ pc' = pc /\ spoilt \subseteq spoilt'
      /\ Removed(e) => cal.recording[e] = "added"
    BY DEF AddComponent, ChangeComponent, Handling, Dropped, Between
<1>3. /\ UNCHANGED <<disk, mode>> /\ Store(e, cal.ver[e]) /\ Sent(e)
      /\ cal' = [cal EXCEPT !.etag[e] = cal.ver[e]]
    BY <1>2 DEF Upload
<1>4. /\ cal'.ver = cal.ver /\ cal'.recording = cal.recording
      /\ cal'.SyncToken = cal.SyncToken /\ cal'.etag[e] = cal.ver[e]
      /\ \A x \in Events \ {e} : cal'.etag[x] = cal.etag[x]
    BY <1>1, <1>3 DEF Types, TypeOK, CICalendar
<1>5. /\ sync'.news = sync.news /\ sync'.seen = sync.seen /\ sync'.token = sync.token
      /\ sync'.changed = sync.changed /\ sync'.todo = sync.todo \ {e}
      /\ sync'.both = sync.both /\ sync'.winner = sync.winner /\ sync'.fetch = sync.fetch
    BY <1>1, <1>2 DEF Types, SyncOK, Synchronisation, Taken
<1>6. /\ server'[e] = cal.ver[e] /\ rev <= rev' /\ NeverThere'
      /\ \A x \in Events \ {e} : server'[x] = server[x] /\ stamp'[x] = stamp[x]
    BY <1>1, <1>3, StoreEffect, StoredThere, Numbers DEF Overall
<1>7. Overall'
    BY <1>2, <1>3, <1>4, <1>5, <1>6, StepOverall DEF Running
<1>8. \A x \in Events \ {e} : Unmoved(x) /\ SameSync(x)
    BY <1>2, <1>3, <1>4, <1>5, <1>6 DEF Unmoved, SameSync, Sent
<1>9. ASSUME e \in Events \ spoilt' PROVE Matches(e)' /\ Traced(e)'
  <2>1. e \notin unsent' /\ e \notin kept' /\ Traced(e)
    BY <1>2, <1>3, <1>9 DEF Sent, Between, Tokens
  <2>2. /\ Matches(e)' /\ stamp'[e] > cal'.SyncToken
        /\ pc' \in Informed => ~(stamp'[e] <= sync'.token)
    BY <1>2, <1>3, <1>4, <1>5, <1>9, <2>1, UploadedMatches
  <2>3. Reported(e)'
    BY <1>2, <1>4, <1>5, <2>1, <2>2 DEF Reported, Removed, Traced, Informed
  <2>4. Contended(e)'
    BY <1>1, <1>5 DEF Contended, Shape, BothOK, Order
  <2>5. GetsRead(e)' /\ Followed(e)'
    BY <2>1, <2>2 DEF GetsRead, Followed, TaggedInCache
  <2> QED
    BY <2>2, <2>3, <2>4, <2>5 DEF Traced
<1> QED
    BY <1>2, <1>7, <1>8, <1>9, OneEvent

(* The record of an event that was removed here.                           *)
LEMMA RemoveTokens ==
    ASSUME Between, NEW e \in Events, RemoveComponent(e)
    PROVE  Tokens'
<1>1. Types /\ Overall /\ Shape
    BY DEF Between, IInv, Tokens
<1>2. /\ Running /\ pc = "send" /\ pc' = pc /\ UNCHANGED <<cal, disk, mode, spoilt>>
      /\ e \in sync.todo /\ cal.recording[e] = "removed"
      /\ ToRemove(e) <=> ~Removed(e)
      /\ \/ Sent(e)
         \/ ~ToRemove(e) /\ ~sync.changed /\ UNCHANGED dueVars
    BY DEF RemoveComponent, Handling, Syncing, ToRemove, Between
<1>3. /\ IF ToRemove(e) THEN Store(e, 0) ELSE UNCHANGED serverVars
      /\ sync' = IF ToRemove(e) THEN [Taken(e) EXCEPT !.sent = TRUE, !.news = @ \ {e}]
                 ELSE Taken(e)
    BY DEF RemoveComponent
<1>4. /\ sync'.news = (IF ToRemove(e) THEN sync.news \ {e} ELSE sync.news)
      /\ sync'.seen = sync.seen /\ sync'.token = sync.token
      /\ sync'.changed = sync.changed /\ sync'.todo = sync.todo \ {e}
      /\ sync'.both = sync.both /\ sync'.winner = sync.winner /\ sync'.fetch = sync.fetch
    BY <1>1, <1>3 DEF Types, SyncOK, Synchronisation, Taken
<1>5. /\ rev <= rev' /\ NeverThere' /\ server'[e] \in {0, server[e]}
      /\ \A x \in Events \ {e} : server'[x] = server[x] /\ stamp'[x] = stamp[x]
    BY <1>1, <1>3, StoreEffect, StoredThere, Numbers DEF Overall, serverVars, NeverThere
<1>6. Overall'
    BY <1>2, <1>4, <1>5, StepOverall DEF Running
<1>7. \A x \in Events \ {e} : Unmoved(x) /\ SameSync(x)
    BY <1>2, <1>4, <1>5 DEF Unmoved, SameSync, Sent, dueVars
<1>8. ASSUME e \in Events \ spoilt' PROVE Matches(e)' /\ Traced(e)'
  <2>1. Matches(e) /\ Reported(e)
    BY <1>2, <1>8 DEF Traced, Between, Tokens
  <2>2. /\ server'[e] = 0 /\ stamp'[e] \in Nat /\ stamp'[e] > cal.SyncToken
        /\ \/ server[e] = 0 /\ stamp'[e] = stamp[e]
           \/ stamp'[e] = rev + 1 /\ ToRemove(e)
    <3>1. CASE ToRemove(e)
      BY <1>2, <1>3, <1>8, <3>1, RemovalSent
    <3>2. CASE ~ToRemove(e)
      BY <1>1, <1>2, <1>3, <2>1, <3>2, Numbers DEF Reported, Removed, serverVars
    <3> QED
      BY <3>1, <3>2
  <2>3. e \notin unsent' /\ e \notin kept'
    BY <1>2, <2>1 DEF Sent, Reported, Removed
  <2>4. Matches(e)'
    BY <1>2, <1>8, <2>2, <2>3, RemovedMatches
  <2>5. Reported(e)'
    <3>1. ~Removed(e)' \/ server'[e] = 0
      BY <2>2
    <3>2. e \in sync'.news => e \in sync.news /\ Removed(e)
      BY <1>2, <1>4
    <3>3. CASE e \in sync'.news
      BY <1>2, <1>4, <2>1, <2>2, <3>1, <3>2, <3>3 DEF Reported, Informed, Removed
    <3>4. CASE e \notin sync'.news
      <4>1. ~(stamp'[e] <= sync'.token) \/ cal.ver[e] = 0
        <5>1. CASE stamp'[e] = rev + 1
          <6>1. cal'.SyncToken = cal.SyncToken /\ disk'.cal.SyncToken = disk.cal.SyncToken
                /\ pc' \in Informed /\ pc \in Informed /\ sync'.token = sync.token
            BY <1>2, <1>4 DEF Informed
          <6> QED
            BY <5>1, <6>1, AheadOfTokens
        <5>2. CASE server[e] = 0 /\ stamp'[e] = stamp[e]
          BY <1>2, <1>4, <2>1, <2>2, <3>4, <5>2 DEF Reported, Removed, Informed
        <5> QED
          BY <2>2, <5>1, <5>2
      <4> QED
        BY <1>2, <1>4, <2>2, <3>1, <3>4, <4>1 DEF Reported, Informed
    <3> QED
      BY <3>3, <3>4
  <2>6. Contended(e)'
    BY <1>1, <1>2, <1>4 DEF Contended, Shape, BothOK, Order
  <2>7. GetsRead(e)' /\ Followed(e)'
    BY <1>2, <1>4, <2>3 DEF GetsRead, Followed, TaggedInCache, Removed
  <2> QED
    BY <2>4, <2>5, <2>6, <2>7 DEF Traced
<1> QED
    BY <1>2, <1>6, <1>7, <1>8, OneEvent

(* The record of an event that is not there: nobody waits for it.          *)
LEMMA SkipTokens ==
    ASSUME Between, NEW e \in Events, SkipComponent(e)
    PROVE  Tokens'
<1>1. Types /\ Overall /\ Shape
    BY DEF Between, IInv, Tokens
<1>2. /\ Running /\ pc = "send" /\ pc' = pc /\ e \in sync.todo
      /\ UNCHANGED <<server, stamp, rev, cal, disk, mode, spoilt>>
      /\ cal.recording[e] = "added" /\ cal.ver[e] = 0 /\ Sent(e) /\ sync' = Taken(e)
    BY DEF SkipComponent, Handling, Syncing, Local, serverVars
<1>3. /\ sync'.news = sync.news /\ sync'.seen = sync.seen /\ sync'.token = sync.token
      /\ sync'.changed = sync.changed /\ sync'.todo = sync.todo \ {e}
      /\ sync'.both = sync.both /\ sync'.winner = sync.winner /\ sync'.fetch = sync.fetch
    BY <1>1, <1>2 DEF Types, SyncOK, Synchronisation, Taken
<1>4. Overall'
  <2>1. rev <= rev'
    BY <1>1, <1>2, Numbers
  <2>2. NeverThere'
    BY <1>1, <1>2 DEF Overall, NeverThere
  <2> QED
    BY <1>2, <1>3, <2>1, <2>2, StepOverall DEF Running
<1>5. \A x \in Events \ {e} : Unmoved(x) /\ SameSync(x)
    BY <1>2, <1>3 DEF Unmoved, SameSync, Sent
<1>6. ASSUME e \in Events \ spoilt' PROVE Matches(e)' /\ Traced(e)'
  <2>1. Matches(e) /\ Traced(e)
    BY <1>2, <1>6 DEF Between, Tokens
  <2>2. e \notin unsent /\ e \notin kept
    BY <1>2, <1>6, <2>1
    DEF Between, IInv, Edits, InMemory, Waiting, Fits, Matches, ToSendInCache
  <2>3. Matches(e)'
    BY <1>2, <2>1, <2>2, UnmovedMatches DEF Unmoved, Sent
  <2>4. Reported(e)'
    BY <1>2, <1>3, <2>1 DEF Traced, Reported, Removed
  <2>5. Contended(e)' /\ GetsRead(e)' /\ Followed(e)'
    BY <1>1, <1>2, <1>3, <2>2
    DEF Contended, GetsRead, Followed, TaggedInCache, Sent, Shape, Order, BothOK
  <2> QED
    BY <2>3, <2>4, <2>5 DEF Traced
<1> QED
    BY <1>2, <1>4, <1>5, <1>6, OneEvent

(* The record of an event that was changed here: it is removed there, or it*)
(* is seen to later, or else it is sent.                                   *)
LEMMA ChangeTokens ==
    ASSUME Between, NEW e \in Events, ChangeComponent(e)
    PROVE  Tokens'
<1>1. Types /\ Overall /\ Shape
    BY DEF Between, IInv, Tokens
<1>2. /\ Syncing /\ Running /\ pc = "send" /\ pc' = pc /\ spoilt' = spoilt
      /\ e \in sync.todo /\ cal.recording[e] = "changed"
    BY DEF ChangeComponent, Handling, Syncing
<1>3. CASE ~Dropped(e) /\ ~Later(e)
    BY <1>2, <1>3, UploadTokens
<1>4. CASE Dropped(e)
  <2>1. /\ UNCHANGED <<server, stamp, rev, disk, mode>> /\ Sent(e) /\ sync' = Taken(e)
        /\ cal' = [cal EXCEPT !.ver[e] = 0] /\ Removed(e)
    BY <1>4 DEF ChangeComponent, Local, serverVars, Dropped
  <2>2. /\ sync'.news = sync.news /\ sync'.seen = sync.seen /\ sync'.token = sync.token
        /\ sync'.changed = sync.changed /\ sync'.todo = sync.todo \ {e}
        /\ sync'.both = sync.both /\ sync'.winner = sync.winner /\ sync'.fetch = sync.fetch
    BY <1>1, <2>1 DEF Types, SyncOK, Synchronisation, Taken
  <2>3. /\ cal'.etag = cal.etag /\ cal'.recording = cal.recording
        /\ cal'.SyncToken = cal.SyncToken /\ cal'.ver[e] = 0
        /\ \A x \in Events \ {e} : cal'.ver[x] = cal.ver[x]
    BY <1>1, <2>1 DEF Types, TypeOK, CICalendar
  <2>4. Overall'
    <3>1. rev <= rev'
      BY <1>1, <2>1, Numbers
    <3>2. NeverThere'
      BY <1>1, <2>1 DEF Overall, NeverThere
    <3> QED
      BY <1>2, <2>1, <2>2, <2>3, <3>1, <3>2, StepOverall DEF Running
  <2>5. \A x \in Events \ {e} : Unmoved(x) /\ SameSync(x)
    BY <1>2, <2>1, <2>2, <2>3 DEF Unmoved, SameSync, Sent
  <2>6. ASSUME e \in Events \ spoilt' PROVE Matches(e)' /\ Traced(e)'
    <3>1. Reported(e)
      BY <1>2, <2>6 DEF Between, Tokens, Traced
    <3>2. server[e] = 0 /\ stamp[e] > cal.SyncToken /\ stamp[e] \in Nat
      BY <1>1, <1>2, <2>1, <3>1, Numbers DEF Reported, Removed
    <3>3. e \notin unsent' /\ e \notin kept'
      BY <2>1 DEF Sent
    <3>4. Matches(e)'
      BY <1>2, <2>1, <2>3, <2>6, <3>2, <3>3, RemovedMatches
    <3>5. Reported(e)'
      BY <1>2, <2>1, <2>2, <2>3, <3>1, <3>2 DEF Reported, Removed
    <3>6. Contended(e)' /\ GetsRead(e)' /\ Followed(e)'
      BY <1>1, <1>2, <2>1, <2>2, <3>3
      DEF Contended, GetsRead, Followed, TaggedInCache, Shape, Order, BothOK, Removed
    <3> QED
      BY <3>4, <3>5, <3>6 DEF Traced
  <2> QED
    BY <1>2, <2>4, <2>5, <2>6, OneEvent
<1>5. CASE Later(e) /\ ~Dropped(e)
  <2>1. /\ UNCHANGED <<server, stamp, rev, cal, disk, mode, unsent, kept>>
        /\ sync' = [Taken(e) EXCEPT !.both = @ \cup {e}] /\ Listed(e)
    BY <1>5 DEF ChangeComponent, Local, serverVars, dueVars, Later, Between
  <2>2. /\ sync'.news = sync.news /\ sync'.seen = sync.seen /\ sync'.token = sync.token
        /\ sync'.changed = sync.changed /\ sync'.todo = sync.todo \ {e}
        /\ sync'.both = sync.both \cup {e} /\ sync'.winner = sync.winner
        /\ sync'.fetch = sync.fetch
    BY <1>1, <2>1 DEF Types, SyncOK, Synchronisation, Taken
  <2>3. Overall'
    <3>1. rev <= rev'
      BY <1>1, <2>1, Numbers
    <3>2. NeverThere'
      BY <1>1, <2>1 DEF Overall, NeverThere
    <3> QED
      BY <1>2, <2>1, <2>2, <3>1, <3>2, StepOverall DEF Running
  <2>4. \A x \in Events \ {e} : Unmoved(x) /\ SameSync(x)
    BY <1>2, <2>1, <2>2 DEF Unmoved, SameSync
  <2>5. ASSUME e \in Events \ spoilt' PROVE Matches(e)' /\ Traced(e)'
    <3>1. Matches(e) /\ Traced(e)
      BY <1>2, <2>5 DEF Between, Tokens
    <3>2. Matches(e)'
      BY <2>1, <3>1, UnmovedMatches DEF Unmoved
    <3>3. Reported(e)'
      BY <1>2, <2>1, <2>2, <3>1 DEF Traced, Reported, Removed, Listed
    <3>4. Contended(e)' /\ GetsRead(e)' /\ Followed(e)'
      BY <1>1, <1>2, <2>1, <2>2, <3>1
      DEF Traced, Contended, GetsRead, Followed, TaggedInCache, Shape, Order, Listed
    <3> QED
      BY <3>2, <3>3, <3>4 DEF Traced
  <2> QED
    BY <1>2, <2>3, <2>4, <2>5, OneEvent
<1> QED
    BY <1>3, <1>4, <1>5

(* The synchronisation goes on with what is left to do.                    *)
LEMMA ProceedFacts ==
    ASSUME NEW s, Proceed(s)
    PROVE  /\ sync' = s /\ pc' \in {"resolve", "fetch", "token"} /\ pc' \in Informed
           /\ pc' # "send" /\ (pc' = "token" => sync'.fetch = {})
           /\ pc' = "resolve" => sync'.both \cup sync'.winner # {}
BY DEF Proceed, After, Informed

(* A change on both sides is looked at: one of the two is kept, or the     *)
(* event is to be sent.                                                    *)
LEMMA ResolveTokens ==
    ASSUME Between, NEW e \in Events, Resolve(e)
    PROVE  Tokens'
<1>1. Types /\ Overall /\ Shape
    BY DEF Between, IInv, Tokens
<1>2. /\ Running /\ pc = "resolve" /\ sync.winner = {} /\ e \in sync.both
      /\ UNCHANGED <<server, stamp, rev, disk, mode, spoilt>>
    BY DEF Resolve, Syncing, Local, serverVars
<1> DEFINE there == IF Listed(e) THEN server[e] ELSE 0
           rest == [sync EXCEPT !.both = @ \ {e}]
<1>3. \/ there \in {0, cal.ver[e]} /\ Proceed(rest) /\ Sent(e) /\ cal' = cal
      \/ /\ there \notin {0, cal.ver[e]} /\ Proceed(rest) /\ Sent(e)
         /\ cal' = [cal EXCEPT !.ver[e] = there, !.etag[e] = there]
      \/ /\ there \notin {0, cal.ver[e]} /\ Proceed([rest EXCEPT !.winner = {e}])
         /\ UNCHANGED <<cal, unsent, kept>>
    BY DEF Resolve, dueVars
<1>4. /\ sync'.news = sync.news /\ sync'.seen = sync.seen /\ sync'.token = sync.token
      /\ sync'.changed = sync.changed /\ sync'.todo = sync.todo
      /\ sync'.both = sync.both \ {e} /\ sync'.fetch = sync.fetch
      /\ \/ sync'.winner = {} /\ Sent(e)
         \/ sync'.winner = {e} /\ UNCHANGED <<unsent, kept>>
      /\ pc' \in {"resolve", "fetch", "token"} /\ pc' \in Informed
      /\ pc' = "token" => sync'.fetch = {}
  <2>1. rest \in Synchronisation /\ rest.both = sync.both \ {e}
        /\ rest.news = sync.news /\ rest.seen = sync.seen /\ rest.token = sync.token
        /\ rest.changed = sync.changed /\ rest.todo = sync.todo
        /\ rest.fetch = sync.fetch /\ rest.winner = {}
    BY <1>1, <1>2 DEF Types, SyncOK, Synchronisation
  <2> HIDE DEF there, rest
  <2>2. CASE Proceed(rest) /\ Sent(e)
    BY <2>1, <2>2, ProceedFacts
  <2>3. CASE Proceed([rest EXCEPT !.winner = {e}]) /\ UNCHANGED <<unsent, kept>>
    <3>1. PICK s : s = [rest EXCEPT !.winner = {e}]
      OBVIOUS
    <3>2. /\ s.both = rest.both /\ s.news = rest.news /\ s.seen = rest.seen
          /\ s.token = rest.token /\ s.changed = rest.changed /\ s.todo = rest.todo
          /\ s.fetch = rest.fetch /\ s.winner = {e}
      BY <2>1, <3>1 DEF Synchronisation
    <3>3. sync' = s /\ pc' \in {"resolve", "fetch", "token"} /\ pc' \in Informed
          /\ (pc' = "token" => sync'.fetch = {})
      BY <2>3, <3>1, ProceedFacts
    <3> QED
      BY <2>1, <2>3, <3>2, <3>3
  <2> QED
    BY <1>3, <2>2, <2>3
<1>5. /\ cal'.recording = cal.recording /\ cal'.SyncToken = cal.SyncToken
      /\ \A x \in Events \ {e} : cal'.ver[x] = cal.ver[x] /\ cal'.etag[x] = cal.etag[x]
      /\ \/ cal'.ver[e] = cal.ver[e] /\ cal'.etag[e] = cal.etag[e]
            /\ (there \in {0, cal.ver[e]} \/ sync'.winner = {e})
         \/ /\ there \notin {0, cal.ver[e]} /\ Sent(e)
            /\ cal'.ver[e] = there /\ cal'.etag[e] = there
  <2>1. cal \in CICalendar
    BY <1>1 DEF Types, TypeOK
  <2>2. CASE there \in {0, cal.ver[e]} /\ cal' = cal
    BY <2>2
  <2>3. CASE /\ there \notin {0, cal.ver[e]} /\ Sent(e)
             /\ cal' = [cal EXCEPT !.ver[e] = there, !.etag[e] = there]
    <3> HIDE DEF there
    <3> QED
      BY <2>1, <2>3 DEF CICalendar
  <2>4. CASE Proceed([rest EXCEPT !.winner = {e}]) /\ cal' = cal
    <3>1. rest \in Synchronisation
      BY <1>1 DEF Types, SyncOK, Synchronisation
    <3> HIDE DEF rest
    <3>2. [rest EXCEPT !.winner = {e}].winner = {e}
      BY <3>1 DEF Synchronisation
    <3> QED
      BY <2>4, <3>2, ProceedFacts
  <2> QED
    BY <1>3, <2>2, <2>3, <2>4
<1>6. Overall'
  <2>1. rev <= rev'
    BY <1>1, <1>2, Numbers
  <2>2. NeverThere'
    BY <1>1, <1>2 DEF Overall, NeverThere
  <2> QED
    BY <1>2, <1>4, <1>5, <2>1, <2>2, StepOverall DEF Running, Informed
<1>7. \A x \in Events \ {e} : Unmoved(x) /\ SameSync(x)
    BY <1>2, <1>4, <1>5 DEF Unmoved, SameSync, Sent
<1>8. ASSUME e \in Events \ spoilt' PROVE Matches(e)' /\ Traced(e)'
  <2>1. /\ Matches(e) /\ Traced(e) /\ Listed(e) /\ cal.recording[e] = "changed"
        /\ cal.ver[e] # 0 /\ cal.etag[e] # sync.seen[e] /\ there = server[e]
    BY <1>2, <1>8 DEF Between, Tokens, Traced, Contended
  <2>2. /\ stamp[e] \in Nat /\ cal.SyncToken \in Nat /\ disk.cal.SyncToken \in Nat
        /\ stamp[e] > cal.SyncToken /\ disk.cal.SyncToken <= cal.SyncToken
        /\ e \in sync.news /\ sync.seen[e] # 0
    BY <1>1, <1>2, <2>1, Numbers DEF Traced, Reported, Listed, Overall, TokensOK
  <2>3. ~(stamp[e] <= cal.SyncToken) /\ ~(stamp[e] <= disk.cal.SyncToken)
    BY <2>2
  <2>4. Known(cal, unsent, e)' /\ Known(disk.cal, kept, e)' /\ Based(cal, e)'
        /\ Based(disk.cal, e)'
    BY <1>2, <1>5, <2>3 DEF Known, Based
  <2>5. Reported(e)' /\ Contended(e)'
    BY <1>2, <1>4, <1>5, <2>1
    DEF Traced, Reported, Contended, Removed, Listed, Informed, Overall
  <2>6. stamp[e] <= sync.token => sync.seen[e] = server[e]
    BY <1>2, <2>1, <2>2 DEF Traced, Reported, Informed
  <2>7. CASE sync'.winner = {e} /\ UNCHANGED <<unsent, kept>>
             /\ cal'.ver[e] = cal.ver[e] /\ cal'.etag[e] = cal.etag[e]
    <3>1. Unmoved(e)
      BY <1>2, <1>5, <2>7 DEF Unmoved
    <3>2. GetsRead(e)' /\ Followed(e)'
      BY <1>2, <1>4, <1>5, <2>1, <2>7
      DEF Traced, GetsRead, Followed, TaggedInCache, Removed
    <3> QED
      BY <2>1, <2>5, <3>1, <3>2, UnmovedMatches DEF Traced
  <2>8. CASE Sent(e) /\ cal'.ver[e] = cal.ver[e] /\ cal'.etag[e] = cal.etag[e]
             /\ server[e] \in {0, cal.ver[e]}
    <3>1. Tagged(cal, unsent, e)' /\ Tagged(disk.cal, kept, e)' /\ NotTagged(e)'
      BY <1>2, <1>5, <2>1, <2>8 DEF Tagged, Matches, NotTagged
    <3>2. ToSendInCache(e)' /\ Followed(e)'
      BY <2>8 DEF Sent, ToSendInCache, TaggedInCache, Followed
    <3>3. GetsRead(e)'
      BY <1>2, <1>4, <2>2, <2>6, <2>8 DEF GetsRead
    <3> QED
      BY <2>4, <2>5, <3>1, <3>2, <3>3 DEF Matches, Traced
  <2>9. CASE Sent(e) /\ cal'.ver[e] = server[e] /\ cal'.etag[e] = server[e]
    <3>1. disk.cal.etag[e] = server[e] /\ server[e] # 0 => disk.cal.ver[e] \in {0, server[e]}
      <4>1. TaggedInCache(e) => cal.etag[e] = server[e] /\ sync.seen[e] = server[e]
        BY <2>1, <2>2 DEF Matches, ToSendInCache, Traced, Followed
      <4>2. ~TaggedInCache(e) /\ Tagged(disk.cal, kept, e)
        BY <2>1, <4>1 DEF Matches
      <4> QED
        BY <4>2 DEF TaggedInCache, Tagged
    <3>2. Tagged(cal, unsent, e)' /\ Tagged(disk.cal, kept, e)' /\ NotTagged(e)'
      BY <1>2, <2>9, <3>1 DEF Tagged, NotTagged
    <3>3. ToSendInCache(e)' /\ Followed(e)'
      BY <2>9 DEF Sent, ToSendInCache, TaggedInCache, Followed
    <3>4. GetsRead(e)'
      BY <1>2, <1>4, <2>9 DEF GetsRead
    <3> QED
      BY <2>4, <2>5, <3>2, <3>3, <3>4 DEF Matches, Traced
  <2> QED
    BY <1>4, <1>5, <2>1, <2>7, <2>8, <2>9
<1> QED
    BY <1>2, <1>6, <1>7, <1>8, OneEvent

(* The event is newer here, and sent.                                      *)
LEMMA OverwriteTokens ==
    ASSUME Between, NEW e \in Events, Overwrite(e)
    PROVE  Tokens'
<1>1. Types /\ Overall
    BY DEF Between, IInv, Tokens
<1>2. /\ Running /\ pc = "resolve" /\ e \in sync.winner
      /\ UNCHANGED <<disk, mode, spoilt>> /\ Store(e, cal.ver[e]) /\ Sent(e)
      /\ cal' = [cal EXCEPT !.etag[e] = cal.ver[e]]
      /\ Proceed([sync EXCEPT !.winner = @ \ {e}, !.sent = TRUE])
    BY DEF Overwrite, Upload, Syncing
<1>3. /\ cal'.ver = cal.ver /\ cal'.recording = cal.recording
      /\ cal'.SyncToken = cal.SyncToken /\ cal'.etag[e] = cal.ver[e]
      /\ \A x \in Events \ {e} : cal'.etag[x] = cal.etag[x]
    BY <1>1, <1>2 DEF Types, TypeOK, CICalendar
<1>4. /\ sync'.news = sync.news /\ sync'.seen = sync.seen /\ sync'.token = sync.token
      /\ sync'.changed = sync.changed /\ sync'.todo = sync.todo
      /\ sync'.both = sync.both /\ sync'.winner = sync.winner \ {e}
      /\ sync'.fetch = sync.fetch
      /\ pc' \in {"resolve", "fetch", "token"} /\ pc' \in Informed
      /\ pc' = "token" => sync'.fetch = {}
  <2>1. PICK s : s = [sync EXCEPT !.winner = @ \ {e}, !.sent = TRUE]
    OBVIOUS
  <2>2. /\ s.news = sync.news /\ s.seen = sync.seen /\ s.token = sync.token
        /\ s.changed = sync.changed /\ s.todo = sync.todo /\ s.both = sync.both
        /\ s.winner = sync.winner \ {e} /\ s.fetch = sync.fetch
    BY <1>1, <2>1 DEF Types, SyncOK, Synchronisation
  <2>3. Proceed(s)
    BY <1>2, <2>1
  <2> QED
    BY <2>2, <2>3, ProceedFacts
<1>5. /\ server'[e] \in {0, cal.ver[e]} /\ rev <= rev' /\ NeverThere'
      /\ \A x \in Events \ {e} : server'[x] = server[x] /\ stamp'[x] = stamp[x]
    BY <1>1, <1>2, StoreEffect, StoredThere, Numbers DEF Overall
<1>6. Overall'
    BY <1>2, <1>3, <1>4, <1>5, StepOverall DEF Running, Informed
<1>7. \A x \in Events \ {e} : Unmoved(x) /\ SameSync(x)
    BY <1>2, <1>3, <1>4, <1>5 DEF Unmoved, SameSync, Sent
<1>8. ASSUME e \in Events \ spoilt' PROVE Matches(e)' /\ Traced(e)'
  <2>1. /\ Matches(e) /\ Traced(e) /\ Listed(e) /\ cal.recording[e] = "changed"
        /\ cal.ver[e] # 0 /\ e \notin sync.both
    BY <1>2, <1>8 DEF Between, Tokens, Traced, Contended
  <2>2. e \notin unsent' /\ e \notin kept'
    BY <1>2 DEF Sent
  <2>3. /\ Matches(e)' /\ stamp'[e] > cal'.SyncToken
        /\ pc' \in Informed => ~(stamp'[e] <= sync'.token)
    BY <1>2, <1>3, <1>4, <1>8, <2>1, <2>2, UploadedMatches DEF Informed
  <2>4. Reported(e)'
    BY <1>4, <2>1, <2>3 DEF Traced, Reported, Removed, Listed
  <2>5. Contended(e)' /\ GetsRead(e)' /\ Followed(e)'
    BY <1>4, <2>1, <2>2, <2>3 DEF Contended, GetsRead, Followed, TaggedInCache
  <2> QED
    BY <2>3, <2>4, <2>5 DEF Traced
<1> QED
    BY <1>2, <1>6, <1>7, <1>8, OneEvent

(* A change is sent, and the answer does not come back.                    *)
LEMMA UnansweredTokens ==
    ASSUME Between, NEW e \in Events, SendUnanswered(e)
    PROVE  Tokens'
<1>1. Types /\ Overall /\ Shape
    BY DEF Between, IInv, Tokens
<1>2. /\ Running /\ UNCHANGED <<cal, disk, mode, spoilt>> /\ Store(e, cal.ver[e]) /\ Sent(e)
      /\ pc' = "idle" /\ sync' = NoSync /\ Sending(e)
    BY DEF SendUnanswered, Throw, Sending, Handling, Syncing
<1>3. /\ server'[e] \in {0, cal.ver[e]} /\ rev <= rev' /\ NeverThere'
      /\ \A x \in Events \ {e} : server'[x] = server[x] /\ stamp'[x] = stamp[x]
    BY <1>1, <1>2, StoreEffect, StoredThere, Numbers DEF Overall
<1>4. Overall'
    BY <1>2, <1>3, StepOverall DEF Running, Informed
<1>5. ASSUME NEW x \in Events \ spoilt' PROVE Matches(x)' /\ Traced(x)'
  <2>1. Traced(x)'
    BY <1>2, Untraced, NoSyncEmpty DEF Informed
  <2>2. Matches(x) /\ Traced(x)
    BY <1>2 DEF Between, Tokens
  <2>3. CASE x # e
    <3>1. Unmoved(x)
      BY <1>2, <1>3, <2>3 DEF Unmoved, Sent
    <3> QED
      BY <2>1, <2>2, <3>1, UnmovedMatches
  <2>4. CASE x = e
    <3>1. e \notin unsent' /\ e \notin kept' /\ pc' \notin Informed
      BY <1>2 DEF Sent, Informed
    <3>2. CASE cal.ver[e] # 0
      <4>1. cal.recording[e] # "none"
        BY <1>2, <2>2, <2>4 DEF Sending, Handling, Traced, Contended
      <4> QED
        BY <1>2, <2>1, <2>4, <3>1, <3>2, <4>1, UploadedMatches
    <3>3. CASE cal.ver[e] = 0
      <4>1. cal.recording[e] = "removed"
        BY <1>2, <2>2, <2>4, <3>3 DEF Sending, Handling, Traced, Contended
      <4>2. server'[e] = 0 /\ stamp'[e] \in Nat /\ stamp'[e] > cal.SyncToken
        BY <1>2, <2>4, <3>3, <4>1, RemovalSent
      <4> QED
        BY <1>2, <2>1, <2>4, <3>1, <3>3, <4>2, RemovedMatches
    <3> QED
      BY <3>2, <3>3
  <2> QED
    BY <2>3, <2>4
<1> QED
    BY <1>4, <1>5 DEF Tokens

(* A change that is refused is given up.                                   *)
LEMMA RefusedTokens ==
    ASSUME Between, NEW e \in Events, SendRefused(e) \/ ReadRefused(e)
    PROVE  Tokens'
<1>1. Types /\ Overall /\ Shape
    BY DEF Between, IInv, Tokens
<1>2. /\ Running /\ pc \in {"send", "resolve"}
      /\ UNCHANGED <<server, stamp, rev, cal, disk, mode>> /\ Sent(e)
      /\ spoilt' = spoilt \cup {e}
    BY DEF SendRefused, ReadRefused, Refuse, Sending, Handling, Syncing, serverVars
<1> DEFINE rest == [Taken(e) EXCEPT !.sent = TRUE, !.winner = @ \ {e}]
<1>3. \/ pc' = pc /\ sync' = rest
      \/ pc' = pc /\ sync' = [rest EXCEPT !.news = @ \ {e}]
      \/ pc = "resolve" /\ Proceed(rest)
      \/ pc = "resolve" /\ Proceed([sync EXCEPT !.both = @ \ {e}])
    BY <1>2 DEF SendRefused, ReadRefused
<1>4. PICK s \in {rest, [rest EXCEPT !.news = @ \ {e}], [sync EXCEPT !.both = @ \ {e}]} :
        \/ pc' = pc /\ pc \in Informed /\ sync' = s /\ pc # "token"
        \/ pc = "resolve" /\ Proceed(s)
    BY <1>2, <1>3 DEF Informed
<1>5. /\ s.seen = sync.seen /\ s.token = sync.token
      /\ s.changed = sync.changed /\ s.fetch = sync.fetch
      /\ \A x \in Events \ {e} :
           /\ x \in s.news <=> x \in sync.news
           /\ x \in s.todo <=> x \in sync.todo
           /\ x \in s.both <=> x \in sync.both
           /\ x \in s.winner <=> x \in sync.winner
  <2>1. sync \in Synchronisation
    BY <1>1 DEF Types, SyncOK
  <2>2. rest \in Synchronisation /\ rest.seen = sync.seen /\ rest.token = sync.token
        /\ rest.changed = sync.changed /\ rest.fetch = sync.fetch /\ rest.news = sync.news
        /\ rest.todo = sync.todo \ {e} /\ rest.both = sync.both
        /\ rest.winner = sync.winner \ {e}
    BY <2>1 DEF Synchronisation, Taken
  <2> HIDE DEF rest
  <2>3. CASE s = rest
    BY <2>2, <2>3
  <2>4. CASE s = [rest EXCEPT !.news = @ \ {e}]
    BY <2>2, <2>4 DEF Synchronisation
  <2>5. CASE s = [sync EXCEPT !.both = @ \ {e}]
    BY <2>1, <2>5 DEF Synchronisation
  <2> QED
    BY <2>3, <2>4, <2>5
<1> HIDE DEF rest
<1>6. /\ sync' = s /\ pc' \in Informed /\ pc \in Informed
      /\ pc' = "token" => sync'.fetch = {}
      /\ \/ pc' = pc
         \/ pc = "resolve" /\ pc' \in {"fetch", "token"}
    BY <1>2, <1>4, ProceedFacts DEF Informed
<1>7. Overall'
  <2>1. rev <= rev'
    BY <1>1, <1>2, Numbers
  <2>2. NeverThere'
    BY <1>1, <1>2 DEF Overall, NeverThere
  <2> QED
    BY <1>2, <1>5, <1>6, <2>1, <2>2, StepOverall DEF Running
<1>8. \A x \in Events \ {e} : Unmoved(x) /\ SameSync(x)
    BY <1>2, <1>5, <1>6 DEF Unmoved, SameSync, Sent
<1> QED
    BY <1>2, <1>7, <1>8, OneEvent

-----------------------------------------------------------------------------
(* What is here is compared with what has been told, and read.             *)

(* What is gone or older here goes: the report has told of it, and nobody  *)
(* waits for it.                                                           *)
LEMMA GoneMatches ==
    ASSUME Between, NEW e \in Events \ spoilt, pc = "send", sync.todo = {},
           e \in Gone \cup Stale
    PROVE  /\ e \in sync.news /\ e \notin sync.both \cup sync.winner
           /\ stamp[e] > cal.SyncToken /\ (e \in kept => cal.recording[e] = "none")
<1>1. Shape /\ Traced(e)
    BY DEF Between, IInv, Tokens
<1>2. e \in sync.news /\ e \notin sync.both
    BY <1>1 DEF Gone, Stale, Removed, Listed, Shape, BothOK, Between
<1>3. sync.winner = {}
    BY <1>1 DEF Shape, Order
<1> QED
    BY <1>1, <1>2, <1>3 DEF Traced, Reported, Followed, Informed

(* What stays, and is not to be read, is as the server had it.             *)
LEMMA KeptAsTold ==
    ASSUME Between, NEW e \in Events \ spoilt, Running, pc = "send", sync.todo = {},
           e \notin Gone \cup Stale \cup New, e \notin sync.both,
           e \in sync.news, stamp[e] <= sync.token
    PROVE  cal.ver[e] = server[e]
<1>1. /\ Matches(e) /\ Traced(e) /\ hasSync
      /\ e \in unsent => cal.recording[e] # "none"
    BY DEF Between, IInv, Tokens, Edits, InMemory, Waiting, Fits
<1>2. sync.seen[e] = server[e]
    BY <1>1 DEF Traced, Reported, Informed
<1>3. CASE Removed(e) \/ cal.ver[e] = 0
    BY <1>1, <1>2, <1>3 DEF Gone, New, Here, Present, Removed, Listed
<1>4. CASE ~Removed(e) /\ cal.ver[e] # 0
  <2>1. e \in Here /\ Listed(e)
    BY <1>4 DEF Here, Present, Removed, Listed
  <2>2. cal.etag[e] = server[e] /\ server[e] # 0
    BY <1>2, <2>1 DEF Stale, Listed
  <2>3. cal.recording[e] = "none"
    BY <1>1, <1>4 DEF Traced, GetsRead, Informed
  <2> QED
    BY <1>1, <1>4, <2>2, <2>3 DEF Matches, Tagged
<1> QED
    BY <1>3, <1>4

LEMMA ScanTokens ==
    ASSUME Between, Scan
    PROVE  Tokens'
<1>1. Types /\ Overall /\ Shape /\ sync.winner = {}
    BY DEF Between, IInv, Tokens, Scan, Shape, Order
<1>2. /\ Running /\ pc = "send" /\ sync.todo = {}
      /\ UNCHANGED <<server, stamp, rev, disk, mode, unsent, kept, spoilt>>
    BY DEF Scan, Syncing, Local, serverVars, dueVars
<1>3. CASE sync.changed
  <2>1. /\ cal' = [cal EXCEPT !.ver = [e \in Events |->
                                         IF e \in Gone \cup Stale THEN 0 ELSE @[e]]]
        /\ Proceed([sync EXCEPT !.fetch = Stale \cup New, !.winner = Unchanged,
                                !.both = (@ \cap Here) \ Unchanged])
    BY <1>3 DEF Scan
  <2>2. /\ cal'.etag = cal.etag /\ cal'.recording = cal.recording
        /\ cal'.SyncToken = cal.SyncToken
        /\ \A e \in Events : cal'.ver[e] = IF e \in Gone \cup Stale THEN 0 ELSE cal.ver[e]
    BY <1>1, <2>1 DEF Types, TypeOK, CICalendar
  <2>3. /\ sync'.news = sync.news /\ sync'.seen = sync.seen /\ sync'.token = sync.token
        /\ sync'.changed = sync.changed /\ sync'.todo = {}
        /\ sync'.fetch = Stale \cup New /\ sync'.winner = Unchanged
        /\ sync'.both = (sync.both \cap Here) \ Unchanged
        /\ pc' \in {"resolve", "fetch", "token"} /\ pc' \in Informed
        /\ pc' = "token" => sync'.fetch = {}
    <3>1. PICK s : s = [sync EXCEPT !.fetch = Stale \cup New, !.winner = Unchanged,
                                    !.both = (@ \cap Here) \ Unchanged]
      OBVIOUS
    <3>2. /\ s.news = sync.news /\ s.seen = sync.seen /\ s.token = sync.token
          /\ s.changed = sync.changed /\ s.todo = sync.todo
          /\ s.fetch = Stale \cup New /\ s.winner = Unchanged
          /\ s.both = (sync.both \cap Here) \ Unchanged
      BY <1>1, <3>1 DEF Types, SyncOK, Synchronisation
    <3>3. Proceed(s)
      BY <2>1, <3>1
    <3> QED
      BY <1>2, <3>2, <3>3, ProceedFacts
  <2>4. Overall'
    <3>1. rev <= rev'
      BY <1>1, <1>2, Numbers
    <3>2. NeverThere'
      BY <1>1, <1>2 DEF Overall, NeverThere
    <3>3. pc \in Informed
      BY <1>2 DEF Informed
    <3> QED
      BY <1>2, <2>2, <2>3, <3>1, <3>2, <3>3, StepOverall DEF Running
  <2>5. ASSUME NEW e \in Events \ spoilt' PROVE Matches(e)' /\ Traced(e)'
    <3>1. Matches(e) /\ Traced(e) /\ (e \in sync.both => Listed(e) /\ cal.recording[e] = "changed")
      BY <1>2, <2>5 DEF Between, Tokens, Traced, Contended
    <3>2. Reported(e)'
      BY <1>2, <2>2, <2>3, <3>1 DEF Traced, Reported, Removed, Informed
    <3>3. CASE e \in Gone \cup Stale
      <4>1. /\ e \in sync.news /\ e \notin sync.both \cup sync.winner
            /\ stamp[e] > cal.SyncToken /\ (e \in kept => cal.recording[e] = "none")
            /\ cal'.ver[e] = 0
        BY <1>2, <2>2, <2>5, <3>3, GoneMatches
      <4>2. stamp[e] \in Nat /\ cal.SyncToken \in Nat
        BY <1>1, Numbers
      <4>3. Matches(e)'
        BY <1>2, <2>2, <3>1, <4>1, <4>2
        DEF Matches, Known, Based, Tagged, ToSendInCache, TaggedInCache, NotTagged
      <4>4. Contended(e)' /\ Followed(e)'
        BY <1>2, <2>2, <2>3, <3>1, <4>1
        DEF Traced, Contended, Followed, TaggedInCache, Unchanged
      <4>5. GetsRead(e)'
        <5>1. Removed(e) /\ stamp[e] <= sync.token => server[e] = 0
          BY <1>2, <3>1, <4>1 DEF Traced, Reported, Removed, Informed
        <5>2. e \in Stale \/ Removed(e)
          BY <3>3 DEF Gone, Between
        <5> QED
          BY <1>2, <2>3, <4>1, <5>1, <5>2 DEF GetsRead
      <4> QED
        BY <3>2, <4>3, <4>4, <4>5 DEF Traced
    <3>4. CASE e \notin Gone \cup Stale
      <4>1. cal'.ver[e] = cal.ver[e]
        BY <2>2, <3>4
      <4>2. Matches(e)'
        BY <1>2, <2>2, <3>1, <4>1, UnmovedMatches DEF Unmoved
      <4>3. Contended(e)'
        BY <1>2, <2>2, <2>3, <3>1, <4>1
        DEF Contended, Listed, Unchanged, Here, Present
      <4>4. Followed(e)'
        <5>1. e \in kept /\ e \in sync.both => e \in Here
          BY <3>1 DEF Matches, ToSendInCache, Here, Present
        <5>2. e \in kept => cal.recording[e] = "none" \/ e \in sync.both
          BY <1>1, <1>2, <3>1 DEF Traced, Followed, Informed
        <5>3. TaggedInCache(e)' => TaggedInCache(e)
          BY <1>2 DEF TaggedInCache
        <5> QED
          BY <1>2, <2>2, <2>3, <3>1, <5>1, <5>2, <5>3 DEF Traced, Followed
      <4>5. GetsRead(e)'
        <5>1. SUFFICES ASSUME e \in sync.news, stamp[e] <= sync.token
                       PROVE  cal.ver[e] = server[e]
                              \/ e \in sync'.fetch \cup sync'.both \cup sync'.winner
          BY <1>2, <2>3, <4>1 DEF GetsRead
        <5>2. CASE e \in sync.both
          BY <2>3, <3>1, <5>2 DEF New, Here, Unchanged
        <5>3. CASE e \in New
          BY <2>3, <5>3
        <5>4. CASE e \notin sync.both /\ e \notin New
          BY <1>2, <2>5, <3>4, <5>1, <5>4, KeptAsTold
        <5> QED
          BY <5>2, <5>3, <5>4
      <4> QED
        BY <3>2, <4>2, <4>3, <4>4, <4>5 DEF Traced
    <3> QED
      BY <3>3, <3>4
  <2> QED
    BY <2>4, <2>5 DEF Tokens
<1>4. CASE ~sync.changed
  <2>1. cal' = cal /\ Proceed(sync)
    BY <1>4 DEF Scan
  <2>2. /\ sync' = sync /\ pc' \in {"resolve", "fetch", "token"} /\ pc' \in Informed
        /\ pc' = "token" => sync'.fetch = {}
    BY <2>1, ProceedFacts
  <2>3. Overall'
    <3>1. rev <= rev'
      BY <1>1, <1>2, Numbers
    <3>2. NeverThere'
      BY <1>1, <1>2 DEF Overall, NeverThere
    <3>3. pc \in Informed
      BY <1>2 DEF Informed
    <3> QED
      BY <1>2, <2>1, <2>2, <3>1, <3>2, <3>3, StepOverall DEF Running
  <2>4. ASSUME NEW e \in Events \ spoilt' PROVE Matches(e)' /\ Traced(e)'
    <3>1. Matches(e) /\ Traced(e)
      BY <1>2, <2>4 DEF Between, Tokens
    <3>2. e \notin sync.news /\ e \notin sync.both \cup sync.winner
      BY <1>1, <1>4, <3>1 DEF Traced, Reported, Contended, Listed
    <3>3. Matches(e)'
      BY <1>2, <2>1, <3>1, UnmovedMatches DEF Unmoved
    <3>4. Reported(e)'
      BY <1>2, <2>1, <2>2, <3>1, <3>2 DEF Traced, Reported, Removed, Informed
    <3>5. Contended(e)' /\ GetsRead(e)' /\ Followed(e)'
      BY <1>2, <2>1, <2>2, <3>1, <3>2
      DEF Traced, Contended, GetsRead, Followed, TaggedInCache, Informed
    <3> QED
      BY <3>3, <3>4, <3>5 DEF Traced
  <2> QED
    BY <2>3, <2>4 DEF Tokens
<1> QED
    BY <1>3, <1>4

(* What was to be read is here as it is there, if the server had it.       *)
LEMMA FetchTokens ==
    ASSUME Between, Fetch
    PROVE  Tokens'
<1> DEFINE read(old) == [e \in Events |-> IF e \in sync.fetch THEN server[e] ELSE old[e]]
<1>1. Types /\ Overall /\ Shape
    BY DEF Between, IInv, Tokens
<1>2. /\ Running /\ pc = "fetch"
      /\ UNCHANGED <<server, stamp, rev, disk, mode, unsent, kept, spoilt>>
      /\ cal' = [cal EXCEPT !.ver = read(@), !.etag = read(@)]
      /\ Proceed([sync EXCEPT !.fetch = {}])
    BY DEF Fetch, Syncing, Local, serverVars, dueVars
<1>3. /\ cal'.recording = cal.recording /\ cal'.SyncToken = cal.SyncToken
      /\ \A e \in Events :
           /\ cal'.ver[e] = IF e \in sync.fetch THEN server[e] ELSE cal.ver[e]
           /\ cal'.etag[e] = IF e \in sync.fetch THEN server[e] ELSE cal.etag[e]
    BY <1>1, <1>2 DEF Types, TypeOK, CICalendar
<1>4. /\ sync'.news = sync.news /\ sync'.seen = sync.seen /\ sync'.token = sync.token
      /\ sync'.changed = sync.changed /\ sync'.todo = {} /\ sync'.both = {}
      /\ sync'.winner = {} /\ sync'.fetch = {} /\ pc' = "token"
  <2>1. sync.todo = {} /\ sync.both = {} /\ sync.winner = {}
    BY <1>1, <1>2 DEF Shape, Order
  <2> HIDE DEF read
  <2> QED
    BY <1>1, <1>2, <2>1 DEF Types, SyncOK, Synchronisation, Proceed, After
<1> HIDE DEF read
<1>5. Overall'
  <2>1. rev <= rev'
    BY <1>1, <1>2, Numbers
  <2>2. NeverThere'
    BY <1>1, <1>2 DEF Overall, NeverThere
  <2>3. pc \in Informed
    BY <1>2 DEF Informed
  <2> QED
    BY <1>2, <1>3, <1>4, <2>1, <2>2, <2>3, StepOverall DEF Running
<1>6. ASSUME NEW e \in Events \ spoilt' PROVE Matches(e)' /\ Traced(e)'
  <2>1. Matches(e) /\ Traced(e)
    BY <1>2, <1>6 DEF Between, Tokens
  <2>2. CASE e \notin sync.fetch
    <3>1. Unmoved(e)
      BY <1>2, <1>3, <2>2 DEF Unmoved
    <3>2. SameSync(e)
      <4>1. sync.todo = {} /\ sync.both = {} /\ sync.winner = {}
        BY <1>1, <1>2 DEF Shape, Order
      <4> QED
        BY <1>2, <1>4, <2>2, <4>1 DEF SameSync
    <3> QED
      BY <2>1, <3>1, <3>2, UnmovedMatches, UnmovedTraced
  <2>3. CASE e \in sync.fetch
    <3>1. cal'.ver[e] = server[e] /\ cal'.etag[e] = server[e]
      BY <1>3, <2>3
    <3>2. e \in kept => cal.recording[e] = "none"
      BY <1>1, <1>2, <2>1 DEF Shape, Order, Traced, Followed, Informed
    <3>3. ToSendInCache(e)' /\ NotTagged(e)'
      BY <1>2, <1>3, <2>1, <3>1, <3>2
      DEF Matches, ToSendInCache, TaggedInCache, NotTagged, Tagged
    <3>4. Matches(e)'
      BY <1>2, <1>3, <2>1, <3>1, <3>3 DEF Matches, Known, Based, Tagged
    <3>5. Reported(e)'
      BY <1>2, <1>3, <1>4, <2>1, <3>1 DEF Traced, Reported, Removed, Informed
    <3>6. Contended(e)' /\ GetsRead(e)' /\ Followed(e)'
      BY <1>2, <1>3, <1>4, <2>1, <3>1, <3>2
      DEF Traced, Contended, GetsRead, Followed, TaggedInCache
    <3> QED
      BY <3>4, <3>5, <3>6 DEF Traced
  <2> QED
    BY <2>2, <2>3
<1> QED
    BY <1>5, <1>6 DEF Tokens

(* What is not read is given up.                                           *)
LEMMA FetchRefusedTokens ==
    ASSUME Between, FetchRefused
    PROVE  Tokens'
<1>1. Types /\ Overall /\ Shape
    BY DEF Between, IInv, Tokens
<1>2. /\ Running /\ pc = "fetch" /\ spoilt' = spoilt \cup sync.fetch
      /\ UNCHANGED <<server, stamp, rev, cal, disk, mode, unsent, kept>>
      /\ Proceed([sync EXCEPT !.fetch = {}])
    BY DEF FetchRefused, Refuse, Syncing, serverVars, dueVars
<1>3. sync.todo = {} /\ sync.both = {} /\ sync.winner = {}
    BY <1>1, <1>2 DEF Shape, Order
<1>4. /\ sync'.news = sync.news /\ sync'.seen = sync.seen /\ sync'.token = sync.token
      /\ sync'.changed = sync.changed /\ sync'.todo = {} /\ sync'.both = {}
      /\ sync'.winner = {} /\ sync'.fetch = {} /\ pc' = "token"
    BY <1>1, <1>2, <1>3 DEF Types, SyncOK, Synchronisation, Proceed, After
<1>5. Overall'
  <2>1. rev <= rev'
    BY <1>1, <1>2, Numbers
  <2>2. NeverThere'
    BY <1>1, <1>2 DEF Overall, NeverThere
  <2>3. pc \in Informed
    BY <1>2 DEF Informed
  <2> QED
    BY <1>2, <1>4, <2>1, <2>2, <2>3, StepOverall DEF Running
<1>6. ASSUME NEW e \in Events \ spoilt' PROVE Matches(e)' /\ Traced(e)'
  <2>1. Matches(e) /\ Traced(e) /\ Unmoved(e) /\ SameSync(e)
    BY <1>2, <1>3, <1>4, <1>6 DEF Between, Tokens, Unmoved, SameSync
  <2> QED
    BY <2>1, UnmovedMatches, UnmovedTraced
<1> QED
    BY <1>5, <1>6 DEF Tokens

-----------------------------------------------------------------------------
(* The theorems.                                                           *)

(* The first start.                                                        *)
LEMMA TokensInitially == Init => Tokens
<1> SUFFICES ASSUME Init PROVE Overall /\ \A e \in Events \ spoilt : Matches(e) /\ Traced(e)
    BY DEF Tokens
<1>1. /\ server \in [Events -> {0, 1}] /\ rev = 1 /\ stamp = server /\ cal = Empty
      /\ disk.cal = Empty /\ mode = "stopped" /\ pc = "idle" /\ sync = NoSync
      /\ spent.edits = 0 /\ spent.others = 0
    BY DEF Init, StoreInit
<1>2. NextVersion = 2
    BY <1>1 DEF NextVersion
<1>3. Older /\ NeverThere
    BY <1>1, <1>2, EmptyFields DEF Older, NeverThere
<1>4. TokensOK /\ FetchDone
    BY <1>1, EmptyFields DEF TokensOK, FetchDone, Running, Informed
<1>5. ASSUME NEW e \in Events PROVE Matches(e) /\ Traced(e)
  <2>1. stamp[e] <= 0 => server[e] = 0
    BY <1>1
  <2>2. Matches(e)
    BY <1>1, <2>1, EmptyFields
    DEF Matches, Known, Based, Tagged, ToSendInCache, TaggedInCache, NotTagged
  <2>3. Traced(e)
    BY <1>1, NoSyncEmpty
    DEF Traced, Reported, Contended, GetsRead, Followed, Removed, Informed, TaggedInCache
  <2> QED
    BY <2>2, <2>3
<1> QED
    BY <1>3, <1>4, <1>5 DEF Overall

(* No step changes what the server is.                                     *)
LEMMA SameServer == [Next]_vars => hasSync' = hasSync
BY DEF Next, vars, storeVars, OtherClient, EditOffline, EditOnline, EditFails, EditRefused,
       Editing, Save, Crash, CrashInSave, Stop, StartOffline, GoOffline, GoOnline, StartOnline,
       CheckCalendar, SyncStep, Local, ReadOnly, FastSync, CalendarChanged, GetComponentInfo,
       Request, AddComponent, SkipComponent, RemoveComponent, ChangeComponent, Resolve,
       Overwrite, Upload, NullComponent, Scan, Fetch, UpdateSyncToken, RequestFails,
       UpdateFails, Throw, SendUnanswered, Refuse, ReportRefused, CheckRefused,
       ListRefused, FetchRefused, UpdateRefused, Refused, SendRefused, ReadRefused

(* Every step of a calendar whose server has the sync report.              *)
LEMMA TokensPreserved ==
    ASSUME IInv, IInv', Tokens, [Next]_vars
    PROVE  Tokens'
<1>1. hasSync' = hasSync
    BY SameServer
<1>2. CASE ~hasSync
    BY <1>1, <1>2 DEF Tokens
<1>3. CASE hasSync
  <2>1. Between
    BY <1>3, LaterVersions DEF Between
  <2>2. CASE OtherClient /\ Aside
    BY <2>1, <2>2, OtherTokens
  <2>3. CASE EditOffline /\ Aside
    BY <2>1, <2>3, EditOfflineTokens
  <2>4. CASE EditOnline /\ Aside
    BY <2>1, <2>4, EditOnlineTokens
  <2>5. CASE EditFails /\ Aside
    BY <2>1, <2>5, EditFailsTokens
  <2>6. CASE EditRefused /\ Aside
    BY <2>1, <2>6, EditRefusedTokens
  <2>7. CASE Save /\ Aside
    BY <2>1, <2>7, SaveTokens
  <2>8. CASE Crash /\ Aside
    BY <2>1, <2>8, CrashTokens
  <2>9. CASE CrashInSave /\ Aside
    BY <2>1, <2>9, CrashInSaveTokens
  <2>10. CASE StartOffline /\ Aside
    BY <2>1, <2>10, StartTokens
  <2>11. CASE (GoOffline /\ Aside) \/ (GoOnline /\ Aside) \/ CheckCalendar \/ RequestFails
    BY <2>1, <2>11, IdleTokens
  <2>12. CASE StartOnline
    BY <2>1, <2>12, StartTokens
  <2>13. CASE FastSync
    BY <2>1, <2>13, FastSyncTokens
  <2>14. CASE CalendarChanged \/ GetComponentInfo \/ CheckRefused \/ ListRefused
    <3>1. pc \notin {"check", "list"}
      BY <1>3 DEF IInv, Types, TypeOK
    <3> QED
      BY <2>14, <3>1 DEF CalendarChanged, GetComponentInfo, CheckRefused, ListRefused
  <2>15. ASSUME NEW e \in Events, Request(e) PROVE Tokens'
    <3>1. CASE AddComponent(e)
      <4>1. Syncing /\ pc = "send" /\ e \in sync.todo
        BY <3>1 DEF AddComponent, Handling
      <4> QED
        BY <2>1, <3>1, <4>1, UploadTokens
    <3>2. CASE SkipComponent(e)
      BY <2>1, <3>2, SkipTokens
    <3>3. CASE RemoveComponent(e)
      BY <2>1, <3>3, RemoveTokens
    <3>4. CASE ChangeComponent(e)
      BY <2>1, <3>4, ChangeTokens
    <3>5. CASE Resolve(e)
      BY <2>1, <3>5, ResolveTokens
    <3>6. CASE Overwrite(e)
      BY <2>1, <3>6, OverwriteTokens
    <3> QED
      BY <2>15, <3>1, <3>2, <3>3, <3>4, <3>5, <3>6 DEF Request
  <2>16. CASE \E e \in Events : NullComponent(e)
    BY <2>1, <2>16, CrashTokens
  <2>17. CASE Scan
    BY <2>1, <2>17, ScanTokens
  <2>18. CASE Fetch
    BY <2>1, <2>18, FetchTokens
  <2>19. CASE UpdateSyncToken \/ UpdateRefused
    BY <2>1, <2>19, UpdateTokens
  <2>20. CASE UpdateFails
    BY <2>1, <2>20, UpdateFailsTokens
  <2>21. CASE \E e \in Events : SendUnanswered(e)
    BY <2>1, <2>21, UnansweredTokens
  <2>22. CASE ReportRefused
    BY <2>1, <2>22, ReportRefusedTokens
  <2>23. CASE FetchRefused
    BY <2>1, <2>23, FetchRefusedTokens
  <2>24. CASE \E e \in Events : Refused(e)
    BY <2>1, <2>24, RefusedTokens DEF Refused
  <2>25. CASE UNCHANGED vars
    <3>1. Overall'
      BY <2>1, <2>25 DEF vars, storeVars, serverVars, dueVars, Between, Tokens, Overall,
                         Older, NeverThere, TokensOK, FetchDone, Running, NextVersion
    <3>2. \A e \in Events \ spoilt' : Matches(e) /\ Traced(e) /\ Unmoved(e) /\ SameSync(e)
      BY <2>1, <2>25 DEF vars, storeVars, serverVars, dueVars, Between, Tokens, Unmoved,
                         SameSync
    <3> QED
      BY <3>1, <3>2, UnmovedMatches, UnmovedTraced DEF Tokens
  <2> QED
    BY <2>2, <2>3, <2>4, <2>5, <2>6, <2>7, <2>8, <2>9, <2>10, <2>11, <2>12, <2>13, <2>14,
       <2>15, <2>16, <2>17, <2>18, <2>19, <2>20, <2>21, <2>22, <2>23, <2>24, <2>25
    DEF Next, SyncStep
<1> QED
    BY <1>2, <1>3

(* What the token stands for and what a synchronisation knows, of every    *)
(* event whose change has not been given up, in every state.               *)
THEOREM TokensInductive == Spec => []TokenInv
<1>1. Init => Tokens
    BY TokensInitially
<1>2. IInv /\ IInv' /\ Tokens /\ [Next]_vars => Tokens'
    BY TokensPreserved
<1> QED
    BY <1>1, <1>2, Inductive, PTL DEF Spec, TokenInv

(* The sync token, in memory and in the cache, never stands for more than  *)
(* has been read: an event the server has not changed since, and that is   *)
(* not recorded to be sent, is here as it is there, whatever was changed   *)
(* on both sides, failed, was refused, or was interrupted by a crash       *)
(* (SetSyncToken at the end of SyncComponentsFromServerFast).              *)
THEOREM TokensAreSound == Spec => []TokenSound
<1>1. TokenInv => TokenSound
  <2> SUFFICES ASSUME IInv, Tokens, hasSync PROVE Sound(disk.cal) /\ (Running => Sound(cal))
    BY DEF TokenInv, TokenSound
  <2>1. ASSUME NEW e \in Events \ spoilt
        PROVE  /\ Known(cal, unsent, e) /\ Known(disk.cal, kept, e)
               /\ Running /\ e \in unsent => cal.recording[e] # "none"
               /\ e \in kept => disk.cal.recording[e] # "none"
    BY DEF IInv, Edits, InMemory, InCache, Waiting, Stored, Fits, Tokens, Matches
  <2> QED
    BY <2>1 DEF Sound, Known
<1> QED
    BY <1>1, TokensInductive, PTL
=============================================================================
