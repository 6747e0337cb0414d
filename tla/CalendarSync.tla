----------------------------- MODULE CalendarSync -----------------------------
(***************************************************************************)
(* The two synchronisations of a CalDAV calendar with its server,           *)
(* SyncComponentsFromServerFast (the server reports what has changed since  *)
(* a token) and SyncComponentsFromServerSlow (it has a tag that changes     *)
(* with the calendar, and is asked for everything).  Each request is a step *)
(* of its own: other clients may change the server between two of them,     *)
(* each may fail, with an exception that ends the synchronisation, or be    *)
(* refused, which the code does not notice, and the program may die.        *)
(* The user changes the calendar before and after a synchronisation, not    *)
(* in the middle of one.                                                    *)
(***************************************************************************)
EXTENDS CalendarStore

VARIABLE
    sync    \* the locals of the synchronisation:
            \*   opening  it was started by OpenCalendar
            \*   news     the events the server has told about (changed,
            \*            removed and comps of the code)
            \*   seen     what it has said: the tag of each, 0 for removed
            \*   token    the sync token it has returned
            \*   changed  server_changed
            \*   sent     changes_made
            \*   todo     the records that are still to be handled
            \*   both     the events changed on both sides
            \*   winner   one of them, found to be newer here
            \*   fetch    the events to be read from the server

vars == <<storeVars, sync>>

(* The server has the last change, and does not need an earlier one.       *)
Sent(e) == unsent' = unsent \ {e} /\ kept' = kept \ {e}

NoSync == [opening |-> FALSE, news |-> {}, seen |-> Empty.ver, token |-> 0,
           changed |-> FALSE, sent |-> FALSE, todo |-> {}, both |-> {},
           winner |-> {}, fetch |-> {}]

Init == StoreInit /\ sync = NoSync

Steps == {"report", "check", "list", "send", "resolve", "fetch", "token"}

Syncing == Running /\ pc \in Steps
Listed(e) == e \in sync.news /\ sync.seen[e] # 0
Removed(e) == e \in sync.news /\ sync.seen[e] = 0

(* Faulty: GetHasSync is not asked.                                        *)
BeginWithReport(opening) ==
    /\ pc' = "report"
    /\ sync' = [NoSync EXCEPT !.opening = opening]

Begin(opening) ==
    /\ pc' = IF hasSync THEN "report" ELSE "check"
    /\ sync' = [NoSync EXCEPT !.opening = opening]

(* OpenCalendar on line: the cache, if there is one, and a synchronisation.*)
StartOnline ==
    /\ mode = "stopped"
    /\ mode' = "online"
    /\ cal' = disk.cal
    /\ watched' = TRUE
    /\ Begin(TRUE)
    /\ UNCHANGED <<hasSync, serverVars, disk, dueVars, spoilt, spent>>

(* Faulty: only a calendar with changes is checked.                        *)
CheckCalendarIfRecorded ==
    /\ mode = "online" /\ pc = "idle" /\ watched /\ Recorded(cal) # {}
    /\ Begin(FALSE)
    /\ UNCHANGED <<hasSync, serverVars, cal, disk, mode, watched, dueVars, spoilt,
                   spent>>

(* The periodic check of the subscribed calendars.                         *)
CheckCalendar ==
    /\ mode = "online" /\ pc = "idle" /\ watched
    /\ Begin(FALSE)
    /\ UNCHANGED <<hasSync, serverVars, cal, disk, mode, watched, dueVars, spoilt,
                   spent>>

(* A step that only touches the calendar and the synchronisation.          *)
Local == UNCHANGED <<hasSync, serverVars, disk, mode, watched, spent>>
ReadOnly == Local /\ UNCHANGED <<cal, dueVars, spoilt>>

-----------------------------------------------------------------------------
(* Step 1, fast: the sync report, for the token the calendar has.  Without *)
(* a token the server only tells what it has: an event that is here and not*)
(* there is not told to be removed, and stays for good.                    *)
FastSync ==
    /\ Syncing /\ pc = "report"
    /\ LET news == IF cal.SyncToken = 0 THEN Present(server)
                   ELSE {e \in Events : stamp[e] > cal.SyncToken}
       IN  sync' = [sync EXCEPT !.news = news, !.seen = server, !.token = rev,
                                !.changed = rev # cal.SyncToken,
                                !.todo = Recorded(cal)]
    /\ pc' = "send"
    /\ spoilt' = spoilt \cup
         (IF cal.SyncToken = 0
          THEN {e \in Present(cal.ver) : server[e] = 0 /\ ~Told(cal, e)} ELSE {})
    /\ Local /\ UNCHANGED <<cal, dueVars>>

(* The library reads the cache again into the calendar: what is there      *)
(* already stays, what is missing comes back.                              *)
Reread(c, d) ==
    [c EXCEPT
       !.ver = [e \in Events |-> IF c.ver[e] # 0 THEN c.ver[e] ELSE d.ver[e]],
       !.etag = [e \in Events |-> IF c.ver[e] # 0 THEN c.etag[e] ELSE d.etag[e]],
       !.recording = [e \in Events |-> IF c.recording[e] # "none" THEN c.recording[e]
                                       ELSE d.recording[e]]]

(* Step 1, slow: the tag of the calendar.                                  *)
CalendarChanged ==
    /\ Syncing /\ pc = "check"
    /\ IF rev # cal.ETag
       THEN /\ pc' = "list"
            /\ UNCHANGED <<cal, sync, unsent>>
       ELSE /\ pc' = "send"
            /\ cal' = Reread(cal, disk.cal)
            /\ sync' = [sync EXCEPT !.todo = Recorded(cal')]
            /\ unsent' = unsent \cup (kept \ Recorded(cal))
    /\ Local /\ UNCHANGED <<kept, spoilt>>

(* and the list of what is in it, if it has changed.                       *)
GetComponentInfo ==
    /\ Syncing /\ pc = "list"
    /\ sync' = [sync EXCEPT !.news = Events, !.seen = server, !.changed = TRUE,
                            !.todo = Recorded(cal)]
    /\ pc' = "send"
    /\ ReadOnly

-----------------------------------------------------------------------------
(* Step 2: the records.                                                    *)
Taken(e) == [sync EXCEPT !.todo = @ \ {e}]

(* Event e is written to the server as it is in the calendar, whatever the *)
(* server has.                                                             *)
Upload(e) ==
    /\ Store(e, cal.ver[e])
    /\ cal' = [cal EXCEPT !.etag[e] = cal.ver[e]]
    /\ Sent(e)
    /\ UNCHANGED <<hasSync, disk, mode, watched, spent>>

Handling(action, e) ==
    Syncing /\ pc = "send" /\ e \in sync.todo /\ cal.recording[e] = action

(* 2.1 An event added here.  Under a new name each time: when an earlier   *)
(* attempt has come through, the server now has the event twice, and what  *)
(* becomes of the two is not followed.                                     *)
AddComponent(e) ==
    /\ Handling("added", e) /\ cal.ver[e] # 0
    /\ Upload(e)
    /\ sync' = [Taken(e) EXCEPT !.sent = TRUE]
    /\ spoilt' = spoilt \cup (IF server[e] # 0 THEN {e} ELSE {})
    /\ UNCHANGED pc

(* 2.2 An event removed here, when the server is known to have it (slow),  *)
(* or not known not to have it (fast).                                     *)
ToRemove(e) == IF hasSync THEN ~Removed(e) ELSE Listed(e)

RemoveComponent(e) ==
    /\ Handling("removed", e)
    /\ IF ToRemove(e)
       THEN /\ Store(e, 0)
            /\ sync' = [Taken(e) EXCEPT !.sent = TRUE, !.news = @ \ {e}]
       ELSE /\ sync' = Taken(e)
            /\ UNCHANGED serverVars
    /\ IF ToRemove(e) \/ sync.changed THEN Sent(e) ELSE UNCHANGED dueVars
    /\ UNCHANGED <<hasSync, cal, disk, mode, watched, pc, spoilt, spent>>

(* 2.3 An event changed here.  The removal of it on the server wins (fast, *)
(* slow sees to it later); a change there is compared with it later.       *)
Dropped(e) == hasSync /\ Removed(e)
Later(e) == IF hasSync THEN Listed(e) ELSE sync.changed

ChangeComponent(e) ==
    /\ Handling("changed", e)
    /\ cal.ver[e] # 0 \/ Later(e) \/ Dropped(e)
    /\ IF Dropped(e)
       THEN /\ cal' = [cal EXCEPT !.ver[e] = 0]
            /\ Sent(e)
            /\ sync' = Taken(e)
            /\ Local
       ELSE IF Later(e)
       THEN /\ sync' = [Taken(e) EXCEPT !.both = @ \cup {e}]
            /\ Local /\ UNCHANGED <<cal, dueVars>>
       ELSE /\ Upload(e)
            /\ sync' = [Taken(e) EXCEPT !.sent = TRUE]
    /\ UNCHANGED <<pc, spoilt>>

(* After a crash in the middle of Save a record may be of an event that is *)
(* not there: one that was added is passed over, one that was changed is   *)
(* followed as a null pointer, on which the program stops.                 *)
SkipComponent(e) ==
    /\ Handling("added", e) /\ cal.ver[e] = 0
    /\ sync' = Taken(e)
    /\ Sent(e)
    /\ Local /\ UNCHANGED <<cal, pc, spoilt>>

NullComponent(e) ==
    /\ Handling("changed", e) /\ cal.ver[e] = 0
    /\ ~Later(e) /\ ~Dropped(e)
    /\ mode' = "stopped"
    /\ pc' = "idle"
    /\ cal' = Empty
    /\ sync' = NoSync
    /\ unsent' = kept
    /\ UNCHANGED <<hasSync, serverVars, disk, watched, kept, spoilt, spent>>

-----------------------------------------------------------------------------
(* Steps 3 and 4: what the server has told, against what is here.          *)
Here == Present(cal.ver)
Gone == {e \in Here : IF hasSync THEN Removed(e) ELSE ~Listed(e) /\ e \notin sync.both}
Stale == {e \in Here \ sync.both : Listed(e) /\ cal.etag[e] # sync.seen[e]}
New == {e \in Events \ Here : Listed(e)}
Unchanged == {e \in sync.both \cap Here : cal.etag[e] = sync.seen[e]}

After(s) == IF s.both \cup s.winner # {} THEN "resolve"
            ELSE IF s.fetch # {} THEN "fetch" ELSE "token"

Proceed(s) == sync' = s /\ pc' = After(s)

(* Faulty: an event that turns out not to be changed on the server is taken*)
(* off the list, and not sent.                                             *)
ScanUnchangedSkipped ==
    /\ Syncing /\ pc = "send" /\ sync.todo = {}
    /\ IF sync.changed
       THEN /\ cal' = [cal EXCEPT !.ver = [e \in Events |->
                                             IF e \in Gone \cup Stale THEN 0 ELSE @[e]]]
            /\ Proceed([sync EXCEPT !.fetch = Stale \cup New,
                                    !.both = (@ \cap Here) \ Unchanged])
       ELSE Proceed(sync) /\ UNCHANGED cal
    /\ Local /\ UNCHANGED <<dueVars, spoilt>>

(* What is gone is removed here, and so is what is to be read again.  On a *)
(* slow server an event added in step 2 is among what is gone: the list is *)
(* older, and the name it was recorded with is not the one it was given.   *)
Scan ==
    /\ Syncing /\ pc = "send" /\ sync.todo = {}
    /\ IF sync.changed
       THEN /\ cal' = [cal EXCEPT !.ver = [e \in Events |->
                                             IF e \in Gone \cup Stale THEN 0 ELSE @[e]]]
            /\ Proceed([sync EXCEPT !.fetch = Stale \cup New, !.winner = Unchanged,
                                    !.both = (@ \cap Here) \ Unchanged])
       ELSE Proceed(sync) /\ UNCHANGED cal
    /\ Local /\ UNCHANGED <<dueVars, spoilt>>

(* 3.2.2 An event changed on both sides: the server's is read, and the     *)
(* newer of the two is kept.  When it is gone by now, neither is taken.    *)
Resolve(e) ==
    /\ Syncing /\ pc = "resolve" /\ sync.winner = {} /\ e \in sync.both
    /\ LET there == IF Listed(e) THEN server[e] ELSE 0
           rest == [sync EXCEPT !.both = @ \ {e}]
       IN  \/ /\ there \in {0, cal.ver[e]}
              /\ Proceed(rest)
              /\ Sent(e)
              /\ UNCHANGED cal
           \/ /\ there \notin {0, cal.ver[e]}   \* newer there
              /\ cal' = [cal EXCEPT !.ver[e] = there, !.etag[e] = there]
              /\ Sent(e)
              /\ Proceed(rest)
           \/ /\ there \notin {0, cal.ver[e]}   \* newer here
              /\ Proceed([rest EXCEPT !.winner = {e}])
              /\ UNCHANGED <<cal, dueVars>>
    /\ Local /\ UNCHANGED spoilt

Overwrite(e) ==
    /\ Syncing /\ pc = "resolve" /\ e \in sync.winner
    /\ Upload(e)
    /\ Proceed([sync EXCEPT !.winner = @ \ {e}, !.sent = TRUE])
    /\ UNCHANGED spoilt

(* The multiget report: the events as they are on the server now.          *)
Fetch ==
    /\ Syncing /\ pc = "fetch"
    /\ LET read(old) == [e \in Events |-> IF e \in sync.fetch THEN server[e] ELSE old[e]]
       IN  cal' = [cal EXCEPT !.ver = read(@), !.etag = read(@)]
    /\ Proceed([sync EXCEPT !.fetch = {}])
    /\ Local /\ UNCHANGED <<dueVars, spoilt>>

(* The end: everything recorded counts as sent.  On a slow server that has *)
(* not changed, no list was read, and no removal has been sent.            *)
Forgotten ==
    IF hasSync \/ sync.changed THEN {}
    ELSE {e \in unsent : cal.recording[e] = "removed"}

(* Faulty: the token is taken when all is done, not that of the report.    *)
FinishedLate == ClearRecording(IF hasSync THEN [cal EXCEPT !.SyncToken = rev] ELSE cal)

Finished == ClearRecording(IF hasSync THEN [cal EXCEPT !.SyncToken = sync.token] ELSE cal)

UpdateSyncToken ==
    /\ Syncing /\ pc = "token"
    /\ cal' = IF sync.changed \/ sync.sent THEN [Finished EXCEPT !.ETag = rev]
              ELSE Finished
    /\ pc' = "save"
    /\ sync' = NoSync
    /\ spoilt' = spoilt \cup Forgotten
    /\ Local /\ UNCHANGED dueVars

-----------------------------------------------------------------------------
(* A request fails: the exception ends the synchronisation.  When it was   *)
(* OpenCalendar's, the calendar is not entered in the list of those to     *)
(* check.                                                                  *)
Throw ==
    /\ Left("faults", MaxFaults)
    /\ Spend("faults")
    /\ pc' = "idle"
    /\ sync' = NoSync
    /\ watched' = (watched /\ ~sync.opening)
    /\ UNCHANGED <<hasSync, disk, mode>>

Requesting ==
    /\ Syncing
    /\ pc = "send" => sync.todo # {}

RequestFails ==
    /\ Requesting /\ pc # "token"
    /\ Throw
    /\ UNCHANGED <<serverVars, cal, dueVars, spoilt>>

(* Not performed, as far as the client knows.                              *)
Sending(e) ==
    \/ Handling("added", e) /\ cal.ver[e] # 0
    \/ Handling("removed", e) /\ ToRemove(e)
    \/ Handling("changed", e) /\ cal.ver[e] # 0 /\ ~Later(e) /\ ~Dropped(e)
    \/ Syncing /\ pc = "resolve" /\ e \in sync.winner

SendUnanswered(e) ==
    /\ Sending(e)
    /\ Throw
    /\ Store(e, cal.ver[e])
    /\ Sent(e)
    /\ UNCHANGED <<cal, spoilt>>

(* The records have been cleared before the last request.                  *)
UpdateFails ==
    /\ Syncing /\ pc = "token" /\ (sync.changed \/ sync.sent)
    /\ Throw
    /\ cal' = ClearRecording(cal)
    /\ spoilt' = spoilt \cup Forgotten
    /\ UNCHANGED <<serverVars, dueVars>>

-----------------------------------------------------------------------------
(* The server answers with an error.  It is displayed, and the code goes   *)
(* on as if there had been an answer that says nothing.                    *)
Refuse ==
    /\ Left("faults", MaxFaults)
    /\ Spend("faults")
    /\ UNCHANGED <<hasSync, serverVars, disk, mode, watched>>

(* Without a token there is nothing to do; with one it is kept.            *)
ReportRefused ==
    /\ Syncing /\ pc = "report"
    /\ Refuse
    /\ IF cal.SyncToken = 0
       THEN pc' = "idle" /\ sync' = NoSync
       ELSE /\ pc' = "send"
            /\ sync' = [sync EXCEPT !.token = cal.SyncToken, !.todo = Recorded(cal)]
    /\ UNCHANGED <<cal, dueVars, spoilt>>

(* No tag counts as a changed one.                                         *)
CheckRefused ==
    /\ Syncing /\ pc = "check"
    /\ Refuse
    /\ pc' = "list"
    /\ UNCHANGED <<cal, sync, dueVars, spoilt>>

(* No list counts as an empty one.                                         *)
ListRefused ==
    /\ Syncing /\ pc = "list"
    /\ Refuse
    /\ sync' = [sync EXCEPT !.changed = TRUE, !.todo = Recorded(cal)]
    /\ pc' = "send"
    /\ spoilt' = spoilt \cup unsent
    /\ UNCHANGED <<cal, dueVars>>

SendRefused(e) ==
    /\ Sending(e)
    /\ Refuse
    /\ LET rest == [Taken(e) EXCEPT !.sent = TRUE, !.winner = @ \ {e}]
       IN  IF pc = "send"
           THEN /\ sync' = IF cal.recording[e] = "removed"
                           THEN [rest EXCEPT !.news = @ \ {e}] ELSE rest
                /\ UNCHANGED pc
           ELSE Proceed(rest)
    /\ Sent(e)
    /\ spoilt' = spoilt \cup {e}
    /\ UNCHANGED cal

ReadRefused(e) ==
    /\ Syncing /\ pc = "resolve" /\ sync.winner = {} /\ e \in sync.both
    /\ Refuse
    /\ Proceed([sync EXCEPT !.both = @ \ {e}])
    /\ Sent(e)
    /\ spoilt' = spoilt \cup {e}
    /\ UNCHANGED cal

FetchRefused ==
    /\ Syncing /\ pc = "fetch"
    /\ Refuse
    /\ Proceed([sync EXCEPT !.fetch = {}])
    /\ spoilt' = spoilt \cup sync.fetch
    /\ UNCHANGED <<cal, dueVars>>

UpdateRefused ==
    /\ Syncing /\ pc = "token" /\ (sync.changed \/ sync.sent)
    /\ Refuse
    /\ cal' = [Finished EXCEPT !.ETag = 0]
    /\ pc' = "save"
    /\ sync' = NoSync
    /\ spoilt' = spoilt \cup Forgotten
    /\ UNCHANGED dueVars

-----------------------------------------------------------------------------
Request(e) ==
    AddComponent(e) \/ SkipComponent(e) \/ RemoveComponent(e) \/ ChangeComponent(e)
    \/ Resolve(e) \/ Overwrite(e)

Refused(e) == SendRefused(e) \/ ReadRefused(e)

(* The synchronisation as it goes when nothing fails.                      *)
SyncStep ==
    \/ FastSync \/ CalendarChanged \/ GetComponentInfo
    \/ \E e \in Events : Request(e) \/ NullComponent(e)
    \/ Scan \/ Fetch \/ UpdateSyncToken

(* Of the rest only a crash touches a synchronisation.                     *)
Aside == sync' = IF pc' = "idle" THEN NoSync ELSE sync

Next ==
    \/ OtherClient /\ Aside
    \/ EditOffline /\ Aside
    \/ EditOnline /\ Aside
    \/ EditFails /\ Aside
    \/ EditRefused /\ Aside
    \/ Save /\ Aside
    \/ Crash /\ Aside
    \/ CrashInSave /\ Aside
    \/ StartOffline /\ Aside
    \/ GoOffline /\ Aside
    \/ GoOnline /\ Aside
    \/ StartOnline \/ CheckCalendar
    \/ SyncStep
    \/ RequestFails \/ UpdateFails
    \/ \E e \in Events : SendUnanswered(e)
    \/ ReportRefused \/ CheckRefused \/ ListRefused \/ FetchRefused \/ UpdateRefused
    \/ \E e \in Events : Refused(e)

Spec == Init /\ [][Next]_vars

(* The timer starts a check again and again, and what has been started goes*)
(* on, as long as the program runs.  Nothing is assumed of the user, other *)
(* clients and failures.                                                   *)
FairSpec == Spec /\ WF_vars(CheckCalendar) /\ WF_vars(SyncStep) /\ WF_vars(Save /\ Aside)

-----------------------------------------------------------------------------
(* Types; in particular a server is never asked for what it does not have  *)
(* (GetHasSync in SyncComponentsFromServer).                               *)
TypeOK ==
    /\ hasSync \in BOOLEAN
    /\ server \in [Events -> Version] /\ stamp \in [Events -> Nat] /\ rev \in Nat
    /\ cal \in CICalendar
    /\ disk.file \in BOOLEAN /\ disk.cal \in CICalendar
    /\ mode \in {"online", "offline", "stopped"}
    /\ watched \in BOOLEAN
    /\ pc \in {"idle", "save"} \cup Steps
    /\ IF hasSync THEN pc \notin {"check", "list"} ELSE pc # "report"
    /\ unsent \cup kept \cup spoilt \subseteq Events
    /\ sync.news \cup sync.todo \cup sync.both \cup sync.winner \cup sync.fetch
         \subseteq Events

(* A change of the user's that the server does not have yet is recorded,   *)
(* in memory and, once the cache has been written, on disk: whatever fails *)
(* and wherever the program stops, a later synchronisation sends it (where *)
(* SyncComponentsFromServerFast and Slow clear the recording).             *)
EditsKept ==
    \A e \in Events \ spoilt :
        /\ Running /\ e \in unsent => cal.recording[e] # "none"
        /\ e \in kept => disk.cal.recording[e] # "none"

Sound(c) ==
    \A e \in Events \ spoilt :
        c.recording[e] = "none" /\ stamp[e] <= c.SyncToken => c.ver[e] = server[e]

(* What a sync token stands for: an event that the server has not changed  *)
(* since, and that is not to be sent, is here as it is there.  A report for*)
(* the token then tells all that is missing (SetSyncToken at the end of    *)
(* SyncComponentsFromServerFast, and its cached copy after a crash).       *)
TokenSound == hasSync => Sound(disk.cal) /\ (Running => Sound(cal))

InSync ==
    \A e \in Events \ spoilt :
        cal.ver[e] = server[e] /\ cal.recording[e] = "none" /\ e \notin unsent

(* With the sync report: when the program stays on line and the calendar is*)
(* being checked, the calendar and the server become the same and stay so, *)
(* whatever has been changed on both sides, has failed or was interrupted. *)
Converges == <>[](mode = "online" /\ watched) => <>[]InSync

(* Step 2.2: a synchronisation that ends has removed on the server what was*)
(* removed here.                                                           *)
RemovalsSent ==
    [][pc = "token" /\ pc' = "save" =>
         \A e \in Events : cal.recording[e] = "removed" => server[e] = 0]_vars
=============================================================================
