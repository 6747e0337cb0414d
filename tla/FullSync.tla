------------------------------- MODULE FullSync -------------------------------
(***************************************************************************)
(* A calendar that is one resource of a WebDAV server: it is read and       *)
(* written as a whole.  SyncFullFromServer brings the calendar, its cache   *)
(* and the server together, WriteFullCalendar sends a change the user makes *)
(* on line.  A server of kind "lock" can lock resources; on one of kind     *)
(* "put" a write is refused when the entity tag is no longer the server's.  *)
(* Each request is a step; between two of them other clients may change the *)
(* calendar or lock it, a request may fail or the program die.              *)
(*                                                                         *)
(* What a calendar says is the set of changes it contains, a number each.   *)
(* Merging two calendars (CICalendarSync) is the union.                     *)
(***************************************************************************)
EXTENDS Integers, FiniteSets

CONSTANTS
    Kinds,      \* kinds of server considered
    MaxEdits,   \* bound on the user's changes
    MaxOthers,  \* bound on what other clients do
    MaxFaults,  \* bound on requests that fail
    MaxCrashes  \* bound on crashes

ASSUME FullSyncAssumption ==
    /\ Kinds \subseteq {"put", "lock"}
    /\ {MaxEdits, MaxOthers, MaxFaults, MaxCrashes} \subseteq Nat

Change == 1..(MaxEdits + MaxOthers)
CICalendar == [has : SUBSET Change, recorded : BOOLEAN, ETag : Nat]
Empty == [has |-> {}, recorded |-> FALSE, ETag |-> 0]
Locks == {"none", "held", "write", "stale", "other"}

VARIABLES
    kind,     \* the kind of server (HasDAVLocking)
    server,   \* what its calendar has, and its entity tag
    lock,     \* who has locked it: the client by _LockCalendar ("held"), by
              \*   WriteFullCalendar_Lock ("write"), by a token it has
              \*   forgotten ("stale"), or another client
    cal,      \* the calendar in memory; recorded: it has changes to be sent
    disk,     \* its cache: whether the file is there, what the files say
    mode,     \* "online", "offline", "stopped"
    watched,  \* the calendar is in the list that is checked periodically
    pc,       \* the request that is next
    run,      \* the operation under way:
              \*   what     "sync" or "edit"
              \*   opening  it is OpenCalendar's
              \*   held     mLockTokens has a token for the calendar
              \*   token    lock_token of WriteFullCalendar_Lock is one
              \*   merged   the two sides have been merged
    mine,     \* auxiliary: the user's changes
    saved,    \*   those of them that have been in the cache
    theirs,   \*   other clients' changes
    lost,     \*   changes that have been given up
    spent     \*   what has been used of the bounds

aux == <<mine, saved, theirs, lost, spent>>
vars == <<kind, server, lock, cal, disk, mode, watched, pc, run, aux>>

NoRun == [what |-> "none", opening |-> FALSE, held |-> FALSE, token |-> FALSE,
          merged |-> FALSE]

Init ==
    /\ kind \in Kinds
    /\ server = [has |-> {}, tag |-> 1]
    /\ lock = "none"
    /\ cal = Empty
    /\ disk = [file |-> FALSE, cal |-> Empty]
    /\ mode = "stopped"
    /\ watched = FALSE
    /\ pc = "idle"
    /\ run = NoRun
    /\ mine = {} /\ saved = {} /\ theirs = {} /\ lost = {}
    /\ spent = [edits |-> 0, others |-> 0, faults |-> 0, crashes |-> 0]

Running == mode # "stopped"
Requests == {"lock", "compare", "read", "merge", "writelock", "writeetag",
             "writemerge", "put", "puttag", "writeunlock", "unlock"}
Spend(what) == spent' = [spent EXCEPT ![what] = @ + 1]
Left(what, max) == spent[what] < max
Fault == Left("faults", MaxFaults) /\ Spend("faults")
NextChange == 1 + spent.edits + spent.others

(* The user's changes that only this calendar has.                         *)
OnlyHere == (mine \cap cal.has) \ server.has

At(step) == Running /\ pc = step
Goto(step) == pc' = step /\ run' = (IF step = "idle" THEN NoRun ELSE run)

(* Calendar c has a change, and will send it.                              *)
Waits(n, c) == n \in c.has /\ c.recorded

(* A step that only touches the calendar in memory.                        *)
Local == UNCHANGED <<kind, server, lock, disk, mode, watched, mine, saved,
                     theirs, spent>>

-----------------------------------------------------------------------------
OtherClient ==
    /\ Left("others", MaxOthers)
    /\ lock \in {"none", "other"}
    /\ server' = [has |-> server.has \cup {NextChange}, tag |-> server.tag + 1]
    /\ theirs' = theirs \cup {NextChange}
    /\ Spend("others")
    /\ UNCHANGED <<kind, lock, cal, disk, mode, watched, pc, run, mine, saved, lost>>

OtherLocks ==
    /\ kind = "lock" /\ lock = "none"
    /\ Left("others", MaxOthers)
    /\ lock' = "other"
    /\ Spend("others")
    /\ UNCHANGED <<kind, server, cal, disk, mode, watched, pc, run, mine, saved,
                   theirs, lost>>

(* The other client unlocks, or a lock times out (after five minutes: that *)
(* the client's own does, in the middle of an operation, is a fault).      *)
LockEnds ==
    /\ \/ lock \in {"other", "stale"} /\ UNCHANGED spent
       \/ lock \in {"held", "write"} /\ Fault
    /\ lock' = "none"
    /\ UNCHANGED <<kind, server, cal, disk, mode, watched, pc, run, mine, saved,
                   theirs, lost>>

-----------------------------------------------------------------------------
(* WriteFullCalendar at the server: with a lock, or a conditional PUT.     *)
WriteStepLocks == "writelock"   \* Faulty: HasDAVLocking is not asked

WriteStep == IF kind = "lock" THEN "writelock" ELSE "put"

Edit ==
    /\ Left("edits", MaxEdits)
    /\ cal' = [cal EXCEPT !.has = @ \cup {NextChange}, !.recorded = TRUE]
    /\ mine' = mine \cup {NextChange}
    /\ Spend("edits")
    /\ UNCHANGED <<kind, server, lock, disk, mode, watched, saved, theirs, lost>>

EditOffline ==
    /\ mode = "offline" /\ pc = "idle" /\ disk.file
    /\ Edit
    /\ pc' = "save"
    /\ run' = [NoRun EXCEPT !.what = "edit"]

EditOnline ==
    /\ mode = "online" /\ pc = "idle"
    /\ Edit
    /\ pc' = WriteStep
    /\ run' = [NoRun EXCEPT !.what = "edit"]

(* LOCK: refused when there is a lock, the client's own included.          *)
WriteLock ==
    /\ At("writelock")
    /\ lock' = IF lock = "none" THEN "write" ELSE lock
    /\ run' = [run EXCEPT !.token = (lock = "none")]
    /\ pc' = "writeetag"
    /\ UNCHANGED <<kind, server, cal, disk, mode, watched, aux>>

(* For another reason: there is no lock, the operation goes on without.    *)
LockRefused ==
    /\ Fault
    /\ \/ /\ At("lock")
          /\ run' = [run EXCEPT !.held = FALSE]
          /\ pc' = "compare"
       \/ /\ At("writelock")
          /\ run' = [run EXCEPT !.token = FALSE]
          /\ pc' = "writeetag"
    /\ UNCHANGED <<kind, server, lock, cal, disk, mode, watched, mine, saved,
                   theirs, lost>>

(* Faulty: what the server has is not read before it is overwritten.       *)
WriteETagUnmerged ==
    /\ At("writeetag")
    /\ Goto("put")
    /\ Local /\ UNCHANGED <<cal, lost>>

WriteETag ==
    /\ At("writeetag")
    /\ Goto(IF cal.ETag \notin {0, server.tag} THEN "writemerge" ELSE "put")
    /\ Local /\ UNCHANGED <<cal, lost>>

(* The calendar merged with another, from the server: cal gets its changes *)
(* and its tag.                                                            *)
Merged(other) == [cal EXCEPT !.has = @ \cup other.has, !.ETag = other.tag]

(* The other calendar when the server has refused to have it read.         *)
Unread == [has |-> {}, tag |-> 0]

WriteMergeWith(cal_server) ==
    /\ At("writemerge")
    /\ cal' = Merged(cal_server)
    /\ Goto("put")

WriteMerge == WriteMergeWith(server) /\ Local /\ UNCHANGED lost

(* What the server makes of the PUT: with a token the lock must still be   *)
(* the client's; without one there must be none, and the tag that of the   *)
(* calendar's, if it has any.                                              *)
Accepted ==
    IF run.token THEN lock = "write" ELSE lock = "none" /\ cal.ETag \in {0, server.tag}

(* Without a tag nothing has been compared or read, with the lock or not:  *)
(* what the server has is overwritten unseen.                              *)
Stored ==
    /\ server' = [has |-> cal.has, tag |-> server.tag + 1]
    /\ lost' = lost \cup (IF cal.ETag = 0 THEN server.has \ cal.has ELSE {})

(* The recording was cleared by the merge already: with a PUT that fails,  *)
(* nothing will send the changes any more.                                 *)
GivenUp == IF run.merged THEN OnlyHere ELSE {}

AfterPut == IF kind = "lock" THEN "writeunlock"
            ELSE IF run.what = "sync" /\ ~run.merged THEN "idle" ELSE "save"

(* The answer has the new tag, or the server is asked for it.              *)
PutCalendar ==
    /\ At("put") /\ Accepted
    /\ Stored
    /\ \/ /\ cal' = [cal EXCEPT !.recorded = FALSE, !.ETag = server.tag + 1]
          /\ Goto(AfterPut)
       \/ /\ cal' = [cal EXCEPT !.recorded = FALSE]
          /\ Goto("puttag")
    /\ UNCHANGED <<kind, lock, disk, mode, watched, mine, saved, theirs, spent>>

(* What another client has written meanwhile now counts as read.           *)
PutTag ==
    /\ At("puttag")
    /\ cal' = [cal EXCEPT !.ETag = server.tag]
    /\ lost' = lost \cup (server.has \ cal.has)
    /\ Goto(AfterPut)
    /\ Local

(* A refusal, for this or another reason, is displayed and forgotten.      *)
PutRefused ==
    /\ At("put")
    /\ \/ ~Accepted /\ UNCHANGED spent
       \/ Fault
    /\ lost' = lost \cup GivenUp
    /\ Goto(AfterPut)
    /\ UNCHANGED <<kind, server, lock, cal, disk, mode, watched, mine, saved, theirs>>

AfterUnlock == IF run.what = "sync" /\ ~run.merged THEN "unlock" ELSE "save"

WriteUnlock ==
    /\ At("writeunlock")
    /\ lock' = IF run.token /\ lock = "write" THEN "none" ELSE lock
    /\ Goto(AfterUnlock)
    /\ UNCHANGED <<kind, server, cal, disk, mode, watched, aux>>

-----------------------------------------------------------------------------
(* SyncFullFromServer.                                                     *)
Begin(opening) ==
    /\ pc' = IF kind = "lock" THEN "lock" ELSE "compare"
    /\ run' = [NoRun EXCEPT !.what = "sync", !.opening = opening]

StartOnline ==
    /\ mode = "stopped"
    /\ mode' = "online"
    /\ cal' = disk.cal
    /\ watched' = TRUE
    /\ Begin(TRUE)
    /\ UNCHANGED <<kind, server, lock, disk, aux>>

(* Faulty: only a calendar with changes is checked.                        *)
CheckCalendarIfRecorded ==
    /\ mode = "online" /\ pc = "idle" /\ watched /\ cal.recorded
    /\ Begin(FALSE)
    /\ UNCHANGED <<kind, server, lock, cal, disk, mode, watched, aux>>

CheckCalendar ==
    /\ mode = "online" /\ pc = "idle" /\ watched
    /\ Begin(FALSE)
    /\ UNCHANGED <<kind, server, lock, cal, disk, mode, watched, aux>>

LockCalendar ==
    /\ At("lock")
    /\ lock' = IF lock = "none" THEN "held" ELSE lock
    /\ run' = [run EXCEPT !.held = (lock = "none")]
    /\ pc' = "compare"
    /\ UNCHANGED <<kind, server, cal, disk, mode, watched, aux>>

Finish == IF kind = "lock" THEN "unlock" ELSE "idle"

(* Faulty: a change on the server wins over one in the calendar.           *)
ComparedServerFirst(server_changed) ==
    Goto(IF server_changed THEN "read" ELSE IF cal.recorded THEN WriteStep ELSE Finish)

(* The tags are compared, and the sides that have changed decide.  Without *)
(* a tag the server counts as changed, and the calendar as not.            *)
Compared(server_changed) ==
    LET cache_changed == cal.ETag # 0 /\ cal.recorded
    IN  Goto(CASE server_changed /\ ~cache_changed -> "read"
               [] ~server_changed /\ cache_changed -> WriteStep
               [] server_changed /\ cache_changed -> "merge"
               [] OTHER -> Finish)

Compare ==
    /\ At("compare")
    /\ Compared(cal.ETag # server.tag)   \* also when it is 0
    /\ Local /\ UNCHANGED <<cal, lost>>

(* No answer to the question for the tag is another tag, or none.          *)
TagRefused ==
    /\ Fault
    /\ \/ At("compare") /\ cal.ETag # 0 /\ Compared(TRUE) /\ UNCHANGED cal
       \/ At("writeetag") /\ UNCHANGED cal
          /\ Goto(IF cal.ETag # 0 THEN "writemerge" ELSE "put")
       \/ At("puttag") /\ Goto(AfterPut) /\ cal' = [cal EXCEPT !.ETag = 0]
    /\ UNCHANGED <<kind, server, lock, disk, mode, watched, mine, saved, theirs, lost>>

(* The server overwrites the calendar, also what was changed in one that   *)
(* has no tag.                                                             *)
ReadFullCalendar ==
    /\ At("read")
    /\ cal' = [cal EXCEPT !.has = server.has, !.ETag = server.tag]
    /\ lost' = lost \cup (IF cal.ETag = 0 THEN OnlyHere ELSE {})
    /\ Goto("save")
    /\ Local

(* The two are merged, the recording is cleared, and both sides written.   *)
SyncBothWith(temp) ==
    /\ At("merge")
    /\ cal' = [Merged(temp) EXCEPT !.recorded = FALSE]
    /\ pc' = WriteStep
    /\ run' = [run EXCEPT !.merged = TRUE]

SyncBoth == SyncBothWith(server) /\ Local /\ UNCHANGED lost

(* _ReadFullCalendar displays the refusal and returns FALSE, which none of *)
(* its callers looks at: the cache is written with what was not read, or   *)
(* the calendar is merged with an empty one and goes to the server.        *)
ReadRefused ==
    /\ Fault
    /\ \/ At("read") /\ Goto("save") /\ UNCHANGED cal
       \/ WriteMergeWith(Unread)
       \/ SyncBothWith(Unread)
    /\ UNCHANGED <<kind, server, lock, disk, mode, watched, mine, saved, theirs, lost>>

UnlockCalendar ==
    /\ At("unlock")
    /\ lock' = IF run.held /\ lock = "held" THEN "none" ELSE lock
    /\ Goto("idle")
    /\ UNCHANGED <<kind, server, cal, disk, mode, watched, aux>>

(* UNLOCK is refused: the token has been forgotten all the same.           *)
UnlockRefused ==
    /\ Fault
    /\ \/ At("writeunlock") /\ run.token /\ lock = "write" /\ Goto(AfterUnlock)
       \/ At("unlock") /\ run.held /\ lock = "held" /\ Goto("idle")
    /\ lock' = "stale"
    /\ UNCHANGED <<kind, server, cal, disk, mode, watched, mine, saved, theirs, lost>>

(* _WriteFullCalendar of the cache.                                        *)
Save ==
    /\ At("save")
    /\ disk' = [file |-> TRUE, cal |-> cal]
    /\ saved' = saved \cup (mine \cap cal.has)
    /\ Goto(IF run.what = "sync" THEN Finish ELSE "idle")
    /\ UNCHANGED <<kind, server, lock, cal, mode, watched, mine, theirs, lost, spent>>

-----------------------------------------------------------------------------
(* An exception: the calendar is unlocked, if that works, and nothing else *)
(* is done.  A lock of WriteFullCalendar_Lock is left to its timeout.      *)
Throw ==
    /\ Running /\ pc \in Requests
    /\ pc = "compare" => cal.ETag # 0   \* no request without a tag
    /\ Fault
    /\ Goto("idle")
    /\ watched' = (watched /\ ~run.opening)
    /\ \/ lock' = IF lock = "held" THEN "none" ELSE IF lock = "write" THEN "stale" ELSE lock
       \/ lock \in {"held", "write"} /\ lock' = "stale"
    /\ UNCHANGED <<kind, cal, disk, mode, mine, saved, theirs>>

RequestFails ==
    /\ Throw
    /\ lost' = lost \cup GivenUp
    /\ UNCHANGED server

PutUnanswered ==
    /\ Throw
    /\ pc = "put" /\ Accepted
    /\ Stored

(* What is in memory only is gone, and the client's locks are forgotten.   *)
Stop ==
    /\ Running
    /\ Left("crashes", MaxCrashes)
    /\ Spend("crashes")
    /\ mode' = "stopped"
    /\ cal' = Empty
    /\ Goto("idle")
    /\ lock' = IF lock \in {"held", "write"} THEN "stale" ELSE lock
    /\ UNCHANGED <<kind, server, watched, saved, theirs>>

Forgotten == mine' = mine \ (OnlyHere \ (saved \cup disk'.cal.has))

Crash == Stop /\ UNCHANGED <<disk, lost>> /\ Forgotten

(* The files after a crash in the middle of Save: none, the new calendar   *)
(* with the old tag and recording, or without any.                         *)
Torn ==
    {[file |-> FALSE, cal |-> Empty],
     [file |-> TRUE, cal |-> [disk.cal EXCEPT !.has = cal.has]],
     [file |-> TRUE, cal |-> [Empty EXCEPT !.has = cal.has]]}

CrashInSave ==
    /\ pc = "save"
    /\ Stop
    /\ disk' \in Torn
    /\ Forgotten
    /\ lost' = lost \cup {n \in mine \ server.has : ~Waits(n, disk'.cal)}

StartOffline ==
    /\ mode = "stopped" /\ disk.file
    /\ mode' = "offline"
    /\ cal' = disk.cal
    /\ watched' = TRUE
    /\ UNCHANGED <<kind, server, lock, disk, pc, run, aux>>

GoOffline ==
    /\ mode = "online" /\ pc = "idle"
    /\ mode' = "offline"
    /\ UNCHANGED <<kind, server, lock, cal, disk, watched, pc, run, aux>>

GoOnline ==
    /\ mode = "offline" /\ pc = "idle"
    /\ mode' = "online"
    /\ UNCHANGED <<kind, server, lock, cal, disk, watched, pc, run, aux>>

-----------------------------------------------------------------------------
(* What goes on by itself once it has been started.                        *)
Step ==
    \/ LockCalendar \/ Compare \/ ReadFullCalendar \/ SyncBoth \/ UnlockCalendar
    \/ WriteLock \/ WriteETag \/ WriteMerge \/ PutCalendar \/ PutTag \/ PutRefused
    \/ WriteUnlock \/ Save

Next ==
    \/ OtherClient \/ OtherLocks \/ LockEnds
    \/ EditOffline \/ EditOnline
    \/ StartOnline \/ StartOffline \/ GoOffline \/ GoOnline \/ CheckCalendar
    \/ Step
    \/ LockRefused \/ TagRefused \/ ReadRefused \/ UnlockRefused
    \/ RequestFails \/ PutUnanswered \/ Crash \/ CrashInSave

Spec == Init /\ [][Next]_vars

(* The timer starts a check again and again, and what has been started     *)
(* goes on, as long as the program runs.                                   *)
FairSpec == Spec /\ WF_vars(CheckCalendar) /\ WF_vars(Step)

-----------------------------------------------------------------------------
(* Types; in particular a server without locks is never asked for one      *)
(* (HasDAVLocking in _LockCalendar and _WriteFullCalendar).                *)
TypeOK ==
    /\ kind \in Kinds
    /\ server \in [has : SUBSET Change, tag : Nat]
    /\ lock \in (IF kind = "lock" THEN Locks ELSE {"none"})
    /\ cal \in CICalendar
    /\ disk \in [file : BOOLEAN, cal : CICalendar]
    /\ mode \in {"online", "offline", "stopped"}
    /\ pc \in {"idle", "save"} \cup Requests
    /\ mine \cup saved \cup theirs \cup lost \subseteq Change

(* The calendar is on its way to the server after a merge.                 *)
Writing(n) == run.merged /\ n \in cal.has

Kept(n) ==
    \/ n \in server.has
    \/ Running /\ (Waits(n, cal) \/ Writing(n))
    \/ ~Running /\ Waits(n, disk.cal)

(* A change of the user's is on the server, or will be sent: it is in the  *)
(* calendar, and marked as such, also after a restart if it was saved      *)
(* (SyncFullFromServer, WriteFullCalendar and the cache, wherever a request*)
(* fails or the program stops).                                            *)
EditsKept == \A n \in mine \ lost : Kept(n)

(* What another client has put on the server is overwritten only by a      *)
(* calendar that contains it: the entity tag or the lock of                *)
(* WriteFullCalendar_Put is what prevents it.  The code does overwrite it  *)
(* in two cases (lost): by a calendar without a tag, which is one that was *)
(* never read, or lost its tag to a crash or a refused question for it, or *)
(* was merged when the server refused to have its calendar read; and after *)
(* a tag that was asked for too late.                                      *)
OthersKept == theirs \ lost \subseteq server.has

InSync == cal.has \ lost = server.has \ lost /\ ~cal.recorded

(* Without locks: when the program stays on line and CheckCalendar is done *)
(* again and again, the calendar and the server become the same and stay   *)
(* so, whatever has been changed, has failed or was interrupted.           *)
Converges ==
    <>[](mode = "online" /\ watched) => <>[](kind = "put" => InSync)
=============================================================================
