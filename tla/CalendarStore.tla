---------------------------- MODULE CalendarStore ----------------------------
(***************************************************************************)
(* A subscribed calendar of a CalDAV account: the events on the server,     *)
(* where other clients change them too, the calendar in memory with its     *)
(* recording of the changes that still have to be sent, and the two files   *)
(* it is cached in.  This module has the state and everything but the       *)
(* synchronisation: the user's changes, on line and off, other clients,     *)
(* going off and on line, crashes and restarts.                             *)
(*                                                                         *)
(* An event is named by its UID, which is also its resource on the server.  *)
(* What it says is a version: a number, 0 for no event.  An entity tag is   *)
(* the version it belongs to.                                               *)
(***************************************************************************)
EXTENDS Integers, FiniteSets

CONSTANTS
    Events,     \* UIDs
    Servers,    \* kinds of server considered: "fast" has the sync report
    MaxEdits,   \* bound on the user's changes
    MaxOthers,  \* bound on the changes of other clients
    MaxFaults,  \* bound on requests that fail or are refused
    MaxCrashes  \* bound on crashes

ASSUME CalendarAssumption ==
    /\ Servers \subseteq {"fast", "slow"}
    /\ {MaxEdits, MaxOthers, MaxFaults, MaxCrashes} \subseteq Nat

Version == 0..(1 + MaxEdits + MaxOthers)

(* CICalendarComponentRecord's action, or none.                            *)
Recordable == {"none", "added", "changed", "removed"}

CICalendar == [ver : [Events -> Version], etag : [Events -> Version],
               recording : [Events -> Recordable], ETag : Nat, SyncToken : Nat]

Empty == [ver |-> [e \in Events |-> 0], etag |-> [e \in Events |-> 0],
          recording |-> [e \in Events |-> "none"], ETag |-> 0, SyncToken |-> 0]

VARIABLES
    hasSync,  \* the server has the sync report (GetHasSync)
    server,   \* version of each event on the server
    stamp,    \* revision of the server's calendar that last changed the event
    rev,      \* that revision: the server's ctag and sync token
    cal,      \* the calendar in memory
    disk,     \* its cache: whether the .ics file is there, what the files say
    mode,     \* "online", "offline", "stopped": the program is not running
    watched,  \* the calendar is in the list that is checked periodically
    pc,       \* where the synchronisation or the saving of the cache is
    unsent,   \* auxiliary: events with a change by the user still to be sent
    kept,     \* auxiliary: those for which that, or an earlier change still to
              \*   be sent, is in the cache
    spoilt,   \* auxiliary: events whose change has been given up (see below)
    spent     \* auxiliary: what has been used of the bounds

serverVars == <<server, stamp, rev>>
dueVars == <<unsent, kept>>
storeVars == <<hasSync, serverVars, cal, disk, mode, watched, pc, dueVars,
               spoilt, spent>>

Running == mode # "stopped"
Idle == Running /\ pc = "idle"
Present(v) == {e \in Events : v[e] # 0}
Recorded(c) == {e \in Events : c.recording[e] # "none"}

Spend(what) == spent' = [spent EXCEPT ![what] = @ + 1]
Left(what, max) == spent[what] < max
NextVersion == 2 + spent.edits + spent.others

StoreInit ==
    /\ hasSync \in {s = "fast" : s \in Servers}
    /\ \E S \in SUBSET Events : server = [e \in Events |-> IF e \in S THEN 1 ELSE 0]
    /\ rev = 1
    /\ stamp = server   \* revision 1 has every event there is
    /\ cal = Empty
    /\ disk = [file |-> FALSE, cal |-> Empty]
    /\ mode = "stopped"
    /\ watched = FALSE
    /\ pc = "idle"
    /\ unsent = {}
    /\ kept = {}
    /\ spoilt = {}
    /\ spent = [edits |-> 0, others |-> 0, faults |-> 0, crashes |-> 0]

-----------------------------------------------------------------------------
(* The server performs a PUT or a DELETE of one event.                     *)
Store(e, v) ==
    IF v = 0 /\ server[e] = 0 THEN UNCHANGED serverVars
    ELSE /\ server' = [server EXCEPT ![e] = v]
         /\ rev' = rev + 1
         /\ stamp' = [stamp EXCEPT ![e] = rev + 1]

(* What an event can become: a UID is never used twice.                    *)
Fresh(e) == stamp[e] = 0 /\ cal.ver[e] = 0 /\ disk.cal.ver[e] = 0
Revisions(v, e) ==
    IF v # 0 THEN {0, NextVersion} ELSE IF Fresh(e) THEN {NextVersion} ELSE {}

OtherClient ==
    /\ Left("others", MaxOthers)
    /\ \E e \in Events : \E v \in Revisions(server[e], e) : Store(e, v)
    /\ Spend("others")
    /\ UNCHANGED <<hasSync, cal, disk, mode, watched, pc, dueVars, spoilt>>

-----------------------------------------------------------------------------
(* The library's record of what the server has to be told of an event.     *)
RecordAction(c, e, v) ==
    CASE c.ver[e] = 0 -> "added"
      [] c.ver[e] # 0 /\ v # 0 -> IF c.recording[e] = "added" THEN "added" ELSE "changed"
      [] OTHER -> IF c.recording[e] = "added" THEN "none" ELSE "removed"

Edited(c, e, v) ==
    [c EXCEPT !.recording[e] = RecordAction(c, e, v), !.ver[e] = v]

ClearRecording(c) == [c EXCEPT !.recording = Empty.recording]

(* The user changes event e to v, or removes it (0).                       *)
Editing(e, v) ==
    /\ Left("edits", MaxEdits)
    /\ v \in Revisions(cal.ver[e], e)
    /\ UNCHANGED <<hasSync, disk, mode, watched>>

(* It now waits to be sent, unless it was added here and is removed again. *)
ToSend(e) ==
    unsent' = IF cal'.recording[e] = "none" THEN unsent \ {e} ELSE unsent \cup {e}

(* Off line the cache is the primary store, and is written at once.  There *)
(* must be one: the calendar has been read on line before.                 *)
EditOffline ==
    /\ mode = "offline" /\ pc = "idle" /\ disk.file
    /\ \E e \in Events, v \in Version :
         /\ Editing(e, v)
         /\ cal' = Edited(cal, e, v)
         /\ ToSend(e)
    /\ pc' = "save"
    /\ Spend("edits")
    /\ UNCHANGED <<serverVars, kept, spoilt>>

(* On line the change is sent at once.  With the answer, the calendar takes*)
(* everything that was recorded for sent: a change recorded earlier, whose *)
(* request failed or that was made off line, is given up.                  *)
EditOnline ==
    /\ mode = "online" /\ pc = "idle"
    /\ \E e \in Events, v \in Version :
         /\ Editing(e, v)
         /\ Store(e, v)
         /\ cal' = ClearRecording([Edited(cal, e, v) EXCEPT !.etag[e] = v])
         /\ spoilt' = spoilt \cup (unsent \ {e})
    /\ unsent' = {}
    /\ pc' = "save"
    /\ Spend("edits")
    /\ UNCHANGED kept

(* The request fails, performed or not: the change stays recorded, in      *)
(* memory.                                                                 *)
EditFails ==
    /\ mode = "online" /\ pc = "idle" /\ Left("faults", MaxFaults)
    /\ \E e \in Events, v \in Version :
         /\ Editing(e, v)
         /\ cal' = Edited(cal, e, v)
         /\ \/ Store(e, v) /\ unsent' = unsent \ {e}
            \/ UNCHANGED serverVars /\ ToSend(e)
    /\ spent' = [spent EXCEPT !.edits = @ + 1, !.faults = @ + 1]
    /\ UNCHANGED <<pc, kept, spoilt>>

(* The server answers with an error, which is shown and forgotten.         *)
EditRefused ==
    /\ mode = "online" /\ pc = "idle" /\ Left("faults", MaxFaults)
    /\ \E e \in Events, v \in Version :
         /\ Editing(e, v)
         /\ cal' = ClearRecording(Edited(cal, e, v))
         /\ spoilt' = spoilt \cup unsent \cup {e}
    /\ unsent' = {}
    /\ pc' = "save"
    /\ spent' = [spent EXCEPT !.edits = @ + 1, !.faults = @ + 1]
    /\ UNCHANGED <<serverVars, kept>>

-----------------------------------------------------------------------------
(* _WriteFullCalendar: the .ics file has the events and their tags, the    *)
(* .xml file the recording and the calendar's tags.  What was recorded in  *)
(* memory is then on disk.                                                 *)
Save ==
    /\ Running /\ pc = "save"
    /\ disk' = [file |-> TRUE, cal |-> cal]
    /\ kept' = unsent
    /\ pc' = "idle"
    /\ UNCHANGED <<hasSync, serverVars, cal, mode, watched, unsent, spoilt, spent>>

(* The files after a crash between removing and renaming the old and the   *)
(* new ones: no .ics file, the new one with the old .xml file, or without. *)
Torn ==
    {[file |-> FALSE, cal |-> Empty],
     [file |-> TRUE, cal |-> [disk.cal EXCEPT !.ver = cal.ver, !.etag = cal.etag]],
     [file |-> TRUE, cal |-> [Empty EXCEPT !.ver = cal.ver, !.etag = cal.etag]]}

Stop ==
    /\ Left("crashes", MaxCrashes)
    /\ mode' = "stopped"
    /\ pc' = "idle"
    /\ cal' = Empty
    /\ Spend("crashes")
    /\ UNCHANGED <<hasSync, serverVars, watched>>

(* What was in memory only is gone, and what is in the cache is back.      *)
Crash ==
    /\ Running
    /\ Stop
    /\ unsent' = kept
    /\ UNCHANGED <<disk, kept, spoilt>>

(* The record of an event fits what there is of it.                        *)
Told(c, e) ==
    CASE c.recording[e] = "none" -> FALSE
      [] c.recording[e] = "removed" -> c.ver[e] = 0
      [] OTHER -> c.ver[e] # 0

(* A crash in the middle of _WriteFullCalendar: changes that wait to be    *)
(* sent may be lost with the file they were recorded in.                   *)
CrashInSave ==
    /\ Running /\ pc = "save"
    /\ Stop
    /\ disk' \in Torn
    /\ spoilt' = spoilt \cup {e \in unsent : ~Told(disk'.cal, e)}
    /\ kept' = unsent
    /\ UNCHANGED unsent

(* OpenCalendar, with the program off line: it reads the cache.            *)
StartOffline ==
    /\ mode = "stopped" /\ disk.file
    /\ mode' = "offline"
    /\ cal' = disk.cal
    /\ watched' = TRUE
    /\ UNCHANGED <<hasSync, serverVars, disk, pc, dueVars, spoilt, spent>>

(* Both wait until no check is running.                                    *)
GoOffline ==
    /\ mode = "online" /\ pc = "idle"
    /\ mode' = "offline"
    /\ UNCHANGED <<hasSync, serverVars, cal, disk, watched, pc, dueVars, spoilt, spent>>

GoOnline ==
    /\ mode = "offline" /\ pc = "idle"
    /\ mode' = "online"
    /\ UNCHANGED <<hasSync, serverVars, cal, disk, watched, pc, dueVars, spoilt, spent>>
=============================================================================
