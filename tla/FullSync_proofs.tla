--------------------------- MODULE FullSync_proofs ---------------------------
(***************************************************************************)
(* Theorems about a calendar that is one resource, for any number of       *)
(* changes, failures and crashes.                                          *)
(***************************************************************************)
EXTENDS FullSync, TLAPS

LockSteps == {"lock", "writelock", "writeetag", "writemerge", "writeunlock", "unlock"}

RunOK == run \in [what : {"none", "sync", "edit"}, opening : BOOLEAN, held : BOOLEAN,
                  token : BOOLEAN, merged : BOOLEAN]

SpentOK ==
    /\ spent \in [edits : Nat, others : Nat, faults : Nat, crashes : Nat]
    /\ spent.edits <= MaxEdits /\ spent.others <= MaxOthers

(* Without locks the steps that lock are never reached; nothing is under   *)
(* way while the program does not run.                                     *)
PcOK ==
    /\ kind = "put" => pc \notin LockSteps
    /\ ~Running => pc = "idle"

Types == TypeOK /\ RunOK /\ SpentOK /\ PcOK

(* Tags only grow: the server's next one is new to the calendar and cache. *)
TagsGrow == cal.ETag <= server.tag /\ disk.cal.ETag <= server.tag

(* What a tag stands for: all of what the server has under it has been     *)
(* read, or given up.                                                      *)
IsRead(tag, has) == tag # 0 /\ tag = server.tag => server.has \ lost \subseteq has

CalendarRead == IsRead(cal.ETag, cal.has)

(* The tag of the cache stands for the events of the calendar as well: a   *)
(* crash may leave these two together.                                     *)
CacheRead ==
    /\ IsRead(disk.cal.ETag, disk.cal.has)
    /\ Running => IsRead(disk.cal.ETag, cal.has)

(* Under the lock nothing changes between the comparison and the PUT.      *)
LockedPut ==
    pc = "put" /\ run.token /\ lock = "write" => cal.ETag \in {0, server.tag}

(* The user's changes have numbers that have been used.                    *)
Numbered ==
    server.has \cup cal.has \cup disk.cal.has \cup saved \cup mine
        \subseteq 1..(spent.edits + spent.others)

(* Only a calendar without changes to be sent, or without a tag, is read.  *)
Reading == pc = "read" => cal.ETag = 0 \/ ~cal.recorded

(* After a merge, its changes are on their way until the PUT is answered.  *)
After == {"puttag", "writeunlock", "save", "unlock"}

Merging ==
    /\ run.merged => pc \in {"writelock", "writeetag", "writemerge", "put"} \cup After
    /\ run.merged /\ pc \in After => OnlyHere \subseteq lost

(* What has been in the cache and is not on the server waits there.        *)
SavedWait ==
    \A n \in mine \ (lost \cup server.has) :
        n \in saved \cup disk.cal.has => Waits(n, disk.cal)

Known == TagsGrow /\ CalendarRead /\ CacheRead /\ OthersKept

EditsHere == Numbered /\ Reading /\ Merging /\ SavedWait /\ EditsKept

IInv == Types /\ Known /\ LockedPut /\ EditsHere

-----------------------------------------------------------------------------
(* Types.                                                                  *)

(* At the start, with nothing read and nothing under way.                  *)
LEMMA TypesInitially == Init => Types
BY FullSyncAssumption DEF Init, Types, TypeOK, RunOK, SpentOK, PcOK, LockSteps,
   CICalendar, Empty, Locks, NoRun, Change, Requests, Running

(* What a refused read does: nothing, or a merge that adds nothing, after   *)
(* which the calendar has no tag.                                          *)
LEMMA RefusedRead ==
    ASSUME Types, ReadRefused
    PROVE  /\ UNCHANGED <<kind, server, lock, disk, mode, watched, mine, saved, theirs, lost>>
           /\ Running
           /\ cal' \in CICalendar /\ cal'.has = cal.has
           /\ \/ pc = "read" /\ pc' = "save" /\ UNCHANGED <<run, cal>>
              \/ /\ pc = "writemerge" /\ pc' = "put" /\ UNCHANGED run
                 /\ cal'.recorded = cal.recorded /\ cal'.ETag = 0
              \/ /\ pc = "merge" /\ pc' = WriteStep /\ cal'.ETag = 0
                 /\ run' = [run EXCEPT !.merged = TRUE]
<1> USE DEF Types, TypeOK, CICalendar, At, Goto
<1>1. UNCHANGED <<kind, server, lock, disk, mode, watched, mine, saved, theirs, lost>>
    BY DEF ReadRefused
<1>2. CASE At("read") /\ Goto("save") /\ UNCHANGED cal
    BY <1>1, <1>2
<1>3. CASE WriteMergeWith(Unread)
    BY <1>1, <1>3 DEF WriteMergeWith, Merged, Unread
<1>4. CASE SyncBothWith(Unread)
    BY <1>1, <1>4 DEF SyncBothWith, Merged, Unread
<1> QED
    BY <1>2, <1>3, <1>4 DEF ReadRefused

(* Every step keeps the types, and the bounds on what has been spent.      *)
LEMMA TypesPreserved == Types /\ [Next]_vars => Types'
<1> SUFFICES ASSUME Types, [Next]_vars PROVE Types'
    OBVIOUS
<1> USE FullSyncAssumption DEF Types, TypeOK, RunOK, SpentOK, PcOK, LockSteps,
        CICalendar, Empty, Locks, NoRun, Change, Requests, At, Goto, Local, Fault,
        Left, Spend, NextChange, Running, aux
<1>a. \A t \in Nat : /\ [cal EXCEPT !.ETag = t] \in CICalendar
                   /\ [cal EXCEPT !.recorded = FALSE] \in CICalendar
                   /\ [cal EXCEPT !.recorded = FALSE, !.ETag = t] \in CICalendar
    OBVIOUS
<1>b. \A step : Goto(step) => RunOK'
    OBVIOUS
<1>1. CASE OtherClient
    BY <1>1 DEF OtherClient
<1>2. CASE OtherLocks
    BY <1>2 DEF OtherLocks
<1>3. CASE LockEnds
  <2>1. SpentOK'
    BY <1>3 DEF LockEnds
  <2>2. lock' = "none" /\ UNCHANGED <<kind, server, cal, disk, mode, watched, pc, run, mine, saved, theirs, lost>>
    BY <1>3 DEF LockEnds
  <2> QED
    BY <2>1, <2>2
<1>4. CASE EditOffline
  <2>1. NextChange \in Change /\ SpentOK'
    BY <1>4 DEF EditOffline, Edit
  <2>2. cal' \in CICalendar /\ mine' \subseteq Change
    BY <1>4, <2>1 DEF EditOffline, Edit
  <2>3. RunOK'
    BY <1>4 DEF EditOffline
  <2> QED
    BY <1>4, <2>1, <2>2, <2>3 DEF EditOffline, Edit
<1>5. CASE EditOnline
  <2>1. NextChange \in Change /\ SpentOK'
    BY <1>5 DEF EditOnline, Edit
  <2>2. cal' \in CICalendar /\ mine' \subseteq Change
    BY <1>5, <2>1 DEF EditOnline, Edit
  <2>3. RunOK'
    BY <1>5 DEF EditOnline
  <2> QED
    BY <1>5, <2>1, <2>2, <2>3 DEF EditOnline, Edit, WriteStep
<1>6. CASE StartOnline
    BY <1>6 DEF StartOnline, Begin
<1>7. CASE StartOffline
    BY <1>7 DEF StartOffline
<1>8. CASE GoOffline
    BY <1>8 DEF GoOffline
<1>9. CASE GoOnline
    BY <1>9 DEF GoOnline
<1>10. CASE CheckCalendar
    BY <1>10 DEF CheckCalendar, Begin
<1>11. CASE LockCalendar
    BY <1>11 DEF LockCalendar
<1>12. CASE Compare
    BY <1>12 DEF Compare, Compared, WriteStep, Finish
<1>13. CASE ReadFullCalendar
    BY <1>13 DEF ReadFullCalendar, OnlyHere
<1>14. CASE SyncBoth
    BY <1>14 DEF SyncBoth, SyncBothWith, Merged, WriteStep
<1>15. CASE UnlockCalendar
    BY <1>15 DEF UnlockCalendar
<1>16. CASE WriteLock
    BY <1>16 DEF WriteLock
<1>17. CASE WriteETag
    BY <1>17 DEF WriteETag
<1>18. CASE WriteMerge
    BY <1>18 DEF WriteMerge, WriteMergeWith, Merged
<1>19. CASE PutCalendar
  <2>1. server' \in [has : SUBSET Change, tag : Nat] /\ lost' \subseteq Change
    BY <1>19 DEF PutCalendar, Stored
  <2>2. cal' \in CICalendar /\ RunOK'
    <3> server.tag + 1 \in Nat
      OBVIOUS
    <3> HIDE DEF CICalendar, Goto, RunOK
    <3>1. CASE cal' = [cal EXCEPT !.recorded = FALSE, !.ETag = server.tag + 1] /\ Goto(AfterPut)
      BY <1>a, <1>b, <3>1
    <3>2. CASE cal' = [cal EXCEPT !.recorded = FALSE] /\ Goto("puttag")
      BY <1>a, <1>b, <3>2
    <3> QED
      BY <1>19, <3>1, <3>2 DEF PutCalendar
  <2>3. pc' \in {"idle", "save", "writeunlock", "puttag"} /\ PcOK'
    BY <1>19 DEF PutCalendar, AfterPut
  <2> QED
    BY <1>19, <2>1, <2>2, <2>3 DEF PutCalendar
<1>20. CASE PutTag
    BY <1>20 DEF PutTag, AfterPut
<1>21. CASE PutRefused
    BY <1>21 DEF PutRefused, AfterPut, GivenUp, OnlyHere
<1>22. CASE WriteUnlock
    BY <1>22 DEF WriteUnlock, AfterUnlock
<1>23. CASE Save
    BY <1>23 DEF Save, Finish
<1>24. CASE TagRefused
  <2>1. SpentOK'
    BY <1>24 DEF TagRefused
  <2>2. cal' \in CICalendar
    <3>1. cal' = cal \/ cal' = [cal EXCEPT !.ETag = 0]
      BY <1>24 DEF TagRefused
    <3> QED
      BY <1>a, <3>1
  <2>3. RunOK' /\ pc' \in {"idle", "save"} \cup Requests /\ PcOK'
    <3>1. CASE At("compare") /\ Compared(TRUE)
      BY <1>24, <3>1 DEF TagRefused, Compared, WriteStep, Finish
    <3>2. CASE At("writeetag") /\ Goto(IF cal.ETag # 0 THEN "writemerge" ELSE "put")
      BY <1>24, <3>2 DEF TagRefused
    <3>3. CASE At("puttag") /\ Goto(AfterPut)
      BY <1>24, <3>3 DEF TagRefused, AfterPut
    <3> QED
      BY <1>24, <3>1, <3>2, <3>3 DEF TagRefused
  <2> QED
    BY <1>24, <2>1, <2>2, <2>3 DEF TagRefused
<1>25. CASE ReadRefused
  <2>1. SpentOK'
    BY <1>25 DEF ReadRefused
  <2>2. RunOK'
    <3>1. run' = run \/ run' = [run EXCEPT !.merged = TRUE]
      BY <1>25, RefusedRead
    <3> QED
      BY <3>1
  <2>3. pc' \in {"save", "put", WriteStep} /\ UNCHANGED <<kind, mode>> /\ Running
    BY <1>25, RefusedRead
  <2>4. WriteStep \in {"put", "writelock"} /\ (kind = "put" => WriteStep = "put")
    BY DEF WriteStep
  <2>5. pc' \in {"idle", "save"} \cup Requests /\ PcOK'
    BY <2>3, <2>4
  <2> QED
    BY <1>25, <2>1, <2>2, <2>5, RefusedRead
<1>26. CASE RequestFails
    BY <1>26 DEF RequestFails, Throw, GivenUp, OnlyHere
<1>27. CASE PutUnanswered
    BY <1>27 DEF PutUnanswered, Throw, Stored
<1>28. CASE Crash
    BY <1>28 DEF Crash, Stop, Forgotten
<1>29. CASE CrashInSave
  <2>1. disk' \in [file : BOOLEAN, cal : CICalendar]
    <3>1. [disk.cal EXCEPT !.has = cal.has] \in CICalendar /\ Empty \in CICalendar
      OBVIOUS
    <3>2. [Empty EXCEPT !.has = cal.has] \in CICalendar
      OBVIOUS
    <3> HIDE DEF CICalendar, Empty
    <3>3. Torn \subseteq [file : BOOLEAN, cal : CICalendar]
      BY <3>1, <3>2 DEF Torn
    <3> QED
      BY <1>29, <3>3 DEF CrashInSave
  <2>2. SpentOK' /\ RunOK' /\ cal' \in CICalendar
    BY <1>29 DEF CrashInSave, Stop
  <2>3. mine' \cup lost' \subseteq Change
    BY <1>29 DEF CrashInSave, Forgotten
  <2> QED
    BY <1>29, <2>1, <2>2, <2>3 DEF CrashInSave, Stop
<1>30. CASE UNCHANGED vars
    BY <1>30 DEF vars
<1>31. CASE LockRefused
  <2>1. SpentOK'
    BY <1>31 DEF LockRefused
  <2>2. RunOK' /\ pc' \in {"compare", "writeetag"} /\ PcOK'
    BY <1>31 DEF LockRefused
  <2> QED
    BY <1>31, <2>1, <2>2 DEF LockRefused
<1>32. CASE UnlockRefused
  <2>1. SpentOK'
    BY <1>32 DEF UnlockRefused
  <2>2. kind = "lock" /\ UNCHANGED kind /\ lock' \in Locks
    <3>1. lock \in {"write", "held"} /\ lock' = "stale" /\ UNCHANGED kind
      BY <1>32 DEF UnlockRefused
    <3> QED
      BY <3>1
  <2>3. pc' \in {"idle", "save", "unlock"} /\ RunOK' /\ PcOK'
    <3>1. pc' \in {"idle", "save", "unlock"} /\ (run' = run \/ run' = NoRun)
      BY <1>32 DEF UnlockRefused, AfterUnlock
    <3>2. Running /\ UNCHANGED mode
      BY <1>32 DEF UnlockRefused
    <3>3. RunOK'
      <4>1. run \in [what : {"none", "sync", "edit"}, opening : BOOLEAN, held : BOOLEAN,
                     token : BOOLEAN, merged : BOOLEAN]
        OBVIOUS
      <4>2. NoRun \in [what : {"none", "sync", "edit"}, opening : BOOLEAN, held : BOOLEAN,
                       token : BOOLEAN, merged : BOOLEAN]
        OBVIOUS
      <4> HIDE DEF NoRun
      <4> QED
        BY <3>1, <4>1, <4>2
    <3>4. PcOK'
      BY <2>2, <3>2
    <3> QED
      BY <3>1, <3>3, <3>4
  <2> QED
    BY <1>32, <2>1, <2>2, <2>3 DEF UnlockRefused
<1> QED
    BY <1>1, <1>2, <1>3, <1>4, <1>5, <1>6, <1>7, <1>8, <1>9, <1>10, <1>11, <1>12, <1>13, <1>14, <1>15, <1>16, <1>17, <1>18, <1>19, <1>20, <1>21, <1>22, <1>23, <1>24, <1>25, <1>26, <1>27, <1>28, <1>29, <1>30, <1>31, <1>32 DEF Next, Step

-----------------------------------------------------------------------------
(* What a tag stands for.                                                  *)

(* A step at the client: the calendar keeps what it has and its tag, loses *)
(* the tag, or gets the server's with all that the server has.             *)
LEMMA KnownAtClient ==
    ASSUME Types, Types', Known,
           UNCHANGED <<server, disk, theirs>>, lost \subseteq lost', Running' => Running,
           \/ cal'.ETag \in {0, cal.ETag} /\ cal.has \subseteq cal'.has
           \/ cal'.ETag = server.tag /\ server.has \ lost' \subseteq cal'.has
    PROVE  Known'
<1> USE DEF Types, TypeOK, CICalendar, Known, IsRead
<1>1. TagsGrow'
    BY DEF TagsGrow
<1>2. CalendarRead'
    BY DEF CalendarRead
<1>3. CacheRead'
    BY DEF CacheRead
<1>4. OthersKept'
    BY DEF OthersKept
<1> QED
    BY <1>1, <1>2, <1>3, <1>4

(* A PUT that is accepted: the calendar has all there is on the server, or *)
(* has no tag, and what it overwrites is given up.                         *)
LEMMA KnownAfterPut ==
    ASSUME Types, Types', Known, LockedPut, pc = "put", Accepted, Stored,
           UNCHANGED <<disk, theirs>>, Running' => Running,
           cal'.ETag \in {cal.ETag, server.tag + 1}, cal'.has = cal.has
    PROVE  Known'
<1> USE DEF Types, TypeOK, CICalendar, Known, IsRead
<1>1. cal.ETag \in {0, server.tag}
    BY DEF Accepted, LockedPut, RunOK
<1>2. server' = [has |-> cal.has, tag |-> server.tag + 1]
    BY DEF Stored
<1>3. server.has \ lost' \subseteq cal.has /\ lost \subseteq lost'
    BY <1>1 DEF CalendarRead, Stored
<1>4. TagsGrow'
    BY <1>2 DEF TagsGrow
<1>5. CalendarRead'
    BY <1>2 DEF CalendarRead, TagsGrow
<1>6. CacheRead'
    BY <1>2 DEF CacheRead, TagsGrow
<1>7. OthersKept'
    BY <1>2, <1>3 DEF OthersKept
<1> QED
    BY <1>4, <1>5, <1>6, <1>7

(* The calendar in memory is gone, the cache what it was.                  *)
LEMMA KnownWhenStopped ==
    ASSUME Types, Types', Known, UNCHANGED <<server, theirs>>, lost \subseteq lost',
           cal' = Empty, ~Running', TagsGrow', IsRead(disk.cal.ETag, disk.cal.has)'
    PROVE  Known'
BY DEF Types, TypeOK, CICalendar, Known, IsRead, CalendarRead, CacheRead, OthersKept, Empty

(* What the tags stand for, through every step.                            *)
LEMMA KnownPreserved ==
    ASSUME Types, Types', Known, LockedPut, [Next]_vars PROVE Known'
<1> USE DEF aux, Local, Goto, At, Running, Types, TypeOK, CICalendar
<1>1. CASE OtherClient
  <2>1. /\ server' = [has |-> server.has \cup {NextChange}, tag |-> server.tag + 1]
        /\ theirs' = theirs \cup {NextChange}
        /\ UNCHANGED <<cal, disk, mode, lost>>
    BY <1>1 DEF OtherClient
  <2> QED
    BY <2>1 DEF Known, IsRead, TagsGrow, CalendarRead, CacheRead, OthersKept
<1>2. CASE OtherLocks
    BY <1>2, KnownAtClient DEF OtherLocks
<1>3. CASE LockEnds
    BY <1>3, KnownAtClient DEF LockEnds
<1>4. CASE EditOffline
    BY <1>4, KnownAtClient DEF EditOffline, Edit
<1>5. CASE EditOnline
    BY <1>5, KnownAtClient DEF EditOnline, Edit
<1>6. CASE StartOnline
    BY <1>6 DEF StartOnline, Begin, Known, IsRead, TagsGrow, CalendarRead, CacheRead, OthersKept
<1>7. CASE StartOffline
    BY <1>7 DEF StartOffline, Known, IsRead, TagsGrow, CalendarRead, CacheRead, OthersKept
<1>8. CASE GoOffline
    BY <1>8, KnownAtClient DEF GoOffline
<1>9. CASE GoOnline
    BY <1>9, KnownAtClient DEF GoOnline
<1>10. CASE CheckCalendar
    BY <1>10, KnownAtClient DEF CheckCalendar, Begin
<1>11. CASE LockCalendar
    BY <1>11, KnownAtClient DEF LockCalendar
<1>12. CASE Compare
    BY <1>12, KnownAtClient DEF Compare
<1>13. CASE ReadFullCalendar
    BY <1>13, KnownAtClient DEF ReadFullCalendar
<1>14. CASE SyncBoth
    BY <1>14, KnownAtClient DEF SyncBoth, SyncBothWith, Merged
<1>15. CASE UnlockCalendar
    BY <1>15, KnownAtClient DEF UnlockCalendar
<1>16. CASE WriteLock
    BY <1>16, KnownAtClient DEF WriteLock
<1>17. CASE WriteETag
    BY <1>17, KnownAtClient DEF WriteETag
<1>18. CASE WriteMerge
    BY <1>18, KnownAtClient DEF WriteMerge, WriteMergeWith, Merged
<1>19. CASE PutCalendar
    BY <1>19, KnownAfterPut DEF PutCalendar
<1>20. CASE PutTag
    BY <1>20, KnownAtClient DEF PutTag
<1>21. CASE PutRefused
    BY <1>21, KnownAtClient DEF PutRefused
<1>22. CASE WriteUnlock
    BY <1>22, KnownAtClient DEF WriteUnlock, AfterUnlock
<1>23. CASE Save
    BY <1>23 DEF Save, Known, IsRead, TagsGrow, CalendarRead, CacheRead, OthersKept
<1>24. CASE TagRefused
    BY <1>24, KnownAtClient DEF TagRefused
<1>25. CASE ReadRefused
    BY <1>25, RefusedRead, KnownAtClient
<1>26. CASE RequestFails
    BY <1>26, KnownAtClient DEF RequestFails, Throw
<1>27. CASE PutUnanswered
    BY <1>27, KnownAfterPut DEF PutUnanswered, Throw
<1>28. CASE Crash
  <2>1. ~Running' /\ cal' = Empty /\ UNCHANGED <<server, theirs, lost, disk>>
    BY <1>28 DEF Crash, Stop
  <2>2. TagsGrow' /\ IsRead(disk.cal.ETag, disk.cal.has)'
    BY <2>1 DEF Known, TagsGrow, CacheRead, IsRead, Empty
  <2> QED
    BY <2>1, <2>2, KnownWhenStopped
<1>29. CASE CrashInSave
  <2>1. /\ ~Running' /\ cal' = Empty /\ UNCHANGED <<server, theirs>>
        /\ lost \subseteq lost' /\ disk' \in Torn
    BY <1>29 DEF CrashInSave, Stop
  <2>2. Running
    BY <1>29 DEF CrashInSave, Stop
  <2>3. \/ disk'.cal.ETag = 0
        \/ disk'.cal.ETag = disk.cal.ETag /\ disk'.cal.has = cal.has
    BY <2>1 DEF Torn, Empty
  <2>4. TagsGrow' /\ IsRead(disk.cal.ETag, disk.cal.has)'
    BY <2>1, <2>2, <2>3 DEF Known, TagsGrow, CacheRead, IsRead, Empty
  <2> QED
    BY <2>1, <2>4, KnownWhenStopped
<1>30. CASE UNCHANGED vars
    BY <1>30, KnownAtClient DEF vars
<1>31. CASE LockRefused
    BY <1>31, KnownAtClient DEF LockRefused
<1>32. CASE UnlockRefused
    BY <1>32, KnownAtClient DEF UnlockRefused, AfterUnlock
<1> QED
    BY <1>1, <1>2, <1>3, <1>4, <1>5, <1>6, <1>7, <1>8, <1>9, <1>10, <1>11, <1>12, <1>13, <1>14, <1>15, <1>16, <1>17, <1>18, <1>19, <1>20, <1>21, <1>22, <1>23, <1>24, <1>25, <1>26, <1>27, <1>28, <1>29, <1>30, <1>31, <1>32 DEF Next, Step

(* Under the client's lock nobody else changes the calendar.               *)
LEMMA LockedPutPreserved ==
    ASSUME Types, Types', LockedPut, [Next]_vars PROVE LockedPut'
<1> USE DEF aux, Local, Goto, At, Types, TypeOK, CICalendar, NoRun, LockedPut
<1>1. CASE OtherClient
    BY <1>1 DEF OtherClient
<1>2. CASE OtherLocks
    BY <1>2 DEF OtherLocks
<1>3. CASE LockEnds
    BY <1>3 DEF LockEnds
<1>4. CASE EditOffline
    BY <1>4 DEF EditOffline
<1>5. CASE EditOnline
    BY <1>5 DEF EditOnline
<1>6. CASE StartOnline
    BY <1>6 DEF StartOnline, Begin
<1>7. CASE StartOffline
    BY <1>7 DEF StartOffline, PcOK, Running
<1>8. CASE GoOffline
    BY <1>8 DEF GoOffline
<1>9. CASE GoOnline
    BY <1>9 DEF GoOnline
<1>10. CASE CheckCalendar
    BY <1>10 DEF CheckCalendar, Begin
<1>11. CASE LockCalendar
    BY <1>11 DEF LockCalendar
<1>12. CASE Compare
    BY <1>12 DEF Compare, Compared, WriteStep, Finish
<1>13. CASE ReadFullCalendar
    BY <1>13 DEF ReadFullCalendar
<1>14. CASE SyncBoth
    BY <1>14 DEF SyncBoth, SyncBothWith, Merged
<1>15. CASE UnlockCalendar
    BY <1>15 DEF UnlockCalendar
<1>16. CASE WriteLock
    BY <1>16 DEF WriteLock
<1>17. CASE WriteETag
    BY <1>17 DEF WriteETag
<1>18. CASE WriteMerge
    BY <1>18 DEF WriteMerge, WriteMergeWith, Merged
<1>19. CASE PutCalendar
    BY <1>19 DEF PutCalendar, AfterPut
<1>20. CASE PutTag
    BY <1>20 DEF PutTag, AfterPut
<1>21. CASE PutRefused
    BY <1>21 DEF PutRefused, AfterPut
<1>22. CASE WriteUnlock
    BY <1>22 DEF WriteUnlock, AfterUnlock
<1>23. CASE Save
    BY <1>23 DEF Save, Finish
<1>24. CASE TagRefused
    BY <1>24 DEF TagRefused, Compared, WriteStep, Finish, AfterPut
<1>25. CASE ReadRefused
    BY <1>25, RefusedRead DEF WriteStep
<1>26. CASE RequestFails
    BY <1>26 DEF RequestFails, Throw
<1>27. CASE PutUnanswered
    BY <1>27 DEF PutUnanswered, Throw
<1>28. CASE Crash
    BY <1>28 DEF Crash, Stop
<1>29. CASE CrashInSave
    BY <1>29 DEF CrashInSave, Stop
<1>30. CASE UNCHANGED vars
    BY <1>30 DEF vars
<1>31. CASE LockRefused
    BY <1>31 DEF LockRefused
<1>32. CASE UnlockRefused
    BY <1>32 DEF UnlockRefused, AfterUnlock
<1> QED
    BY <1>1, <1>2, <1>3, <1>4, <1>5, <1>6, <1>7, <1>8, <1>9, <1>10, <1>11, <1>12, <1>13, <1>14, <1>15, <1>16, <1>17, <1>18, <1>19, <1>20, <1>21, <1>22, <1>23, <1>24, <1>25, <1>26, <1>27, <1>28, <1>29, <1>30, <1>31, <1>32 DEF Next, Step

-----------------------------------------------------------------------------
(* The user's changes.                                                     *)

(* No number comes up before its change is made.                           *)
LEMMA NumberedPreserved ==
    ASSUME Types, Types', Numbered, [Next]_vars PROVE Numbered'
<1> USE DEF aux, Local, Goto, At, Fault, Spend, Types, TypeOK, CICalendar, SpentOK, Numbered
<1>1. CASE OtherClient
    BY <1>1 DEF OtherClient, NextChange
<1>2. CASE OtherLocks
    BY <1>2 DEF OtherLocks
<1>3. CASE LockEnds
    BY <1>3 DEF LockEnds
<1>4. CASE EditOffline
    BY <1>4 DEF EditOffline, Edit, NextChange
<1>5. CASE EditOnline
    BY <1>5 DEF EditOnline, Edit, NextChange
<1>6. CASE StartOnline
    BY <1>6 DEF StartOnline, Begin
<1>7. CASE StartOffline
    BY <1>7 DEF StartOffline
<1>8. CASE GoOffline
    BY <1>8 DEF GoOffline
<1>9. CASE GoOnline
    BY <1>9 DEF GoOnline
<1>10. CASE CheckCalendar
    BY <1>10 DEF CheckCalendar, Begin
<1>11. CASE LockCalendar
    BY <1>11 DEF LockCalendar
<1>12. CASE Compare
    BY <1>12 DEF Compare
<1>13. CASE ReadFullCalendar
    BY <1>13 DEF ReadFullCalendar
<1>14. CASE SyncBoth
    BY <1>14 DEF SyncBoth, SyncBothWith, Merged
<1>15. CASE UnlockCalendar
    BY <1>15 DEF UnlockCalendar
<1>16. CASE WriteLock
    BY <1>16 DEF WriteLock
<1>17. CASE WriteETag
    BY <1>17 DEF WriteETag
<1>18. CASE WriteMerge
    BY <1>18 DEF WriteMerge, WriteMergeWith, Merged
<1>19. CASE PutCalendar
  <2>1. server'.has = cal.has /\ cal'.has = cal.has
    BY <1>19 DEF PutCalendar, Stored
  <2> QED
    BY <1>19, <2>1 DEF PutCalendar
<1>20. CASE PutTag
    BY <1>20 DEF PutTag
<1>21. CASE PutRefused
    BY <1>21 DEF PutRefused
<1>22. CASE WriteUnlock
    BY <1>22 DEF WriteUnlock, AfterUnlock
<1>23. CASE Save
    BY <1>23 DEF Save
<1>24. CASE TagRefused
  <2>1. cal'.has = cal.has
    BY <1>24 DEF TagRefused
  <2> QED
    BY <1>24, <2>1 DEF TagRefused
<1>25. CASE ReadRefused
  <2>1. spent'.edits = spent.edits /\ spent'.others = spent.others
    BY <1>25 DEF ReadRefused
  <2> QED
    BY <1>25, <2>1, RefusedRead
<1>26. CASE RequestFails
    BY <1>26 DEF RequestFails, Throw
<1>27. CASE PutUnanswered
    BY <1>27 DEF PutUnanswered, Throw, Stored
<1>28. CASE Crash
    BY <1>28 DEF Crash, Stop, Forgotten, Empty
<1>29. CASE CrashInSave
    BY <1>29 DEF CrashInSave, Stop, Forgotten, Torn, Empty
<1>30. CASE UNCHANGED vars
    BY <1>30 DEF vars
<1>31. CASE LockRefused
    BY <1>31 DEF LockRefused
<1>32. CASE UnlockRefused
    BY <1>32 DEF UnlockRefused, AfterUnlock
<1> QED
    BY <1>1, <1>2, <1>3, <1>4, <1>5, <1>6, <1>7, <1>8, <1>9, <1>10, <1>11, <1>12, <1>13, <1>14, <1>15, <1>16, <1>17, <1>18, <1>19, <1>20, <1>21, <1>22, <1>23, <1>24, <1>25, <1>26, <1>27, <1>28, <1>29, <1>30, <1>31, <1>32 DEF Next, Step

(* Only a calendar without changes to be sent, or without a tag, is read.   *)
LEMMA ReadingPreserved ==
    ASSUME Types, Types', Reading, [Next]_vars PROVE Reading'
<1> USE DEF aux, Local, Goto, At, Types, TypeOK, CICalendar, PcOK, Reading
<1>1. CASE OtherClient
    BY <1>1 DEF OtherClient
<1>2. CASE OtherLocks
    BY <1>2 DEF OtherLocks
<1>3. CASE LockEnds
    BY <1>3 DEF LockEnds
<1>4. CASE EditOffline
    BY <1>4 DEF EditOffline
<1>5. CASE EditOnline
    BY <1>5 DEF EditOnline, WriteStep
<1>6. CASE StartOnline
    BY <1>6 DEF StartOnline, Begin
<1>7. CASE StartOffline
    BY <1>7 DEF StartOffline, Running
<1>8. CASE GoOffline
    BY <1>8 DEF GoOffline
<1>9. CASE GoOnline
    BY <1>9 DEF GoOnline
<1>10. CASE CheckCalendar
    BY <1>10 DEF CheckCalendar, Begin
<1>11. CASE LockCalendar
    BY <1>11 DEF LockCalendar
<1>12. CASE Compare
    BY <1>12 DEF Compare, Compared, WriteStep, Finish
<1>13. CASE ReadFullCalendar
    BY <1>13 DEF ReadFullCalendar
<1>14. CASE SyncBoth
    BY <1>14 DEF SyncBoth, SyncBothWith, WriteStep
<1>15. CASE UnlockCalendar
    BY <1>15 DEF UnlockCalendar
<1>16. CASE WriteLock
    BY <1>16 DEF WriteLock
<1>17. CASE WriteETag
    BY <1>17 DEF WriteETag
<1>18. CASE WriteMerge
    BY <1>18 DEF WriteMerge, WriteMergeWith
<1>19. CASE PutCalendar
    BY <1>19 DEF PutCalendar, AfterPut
<1>20. CASE PutTag
    BY <1>20 DEF PutTag, AfterPut
<1>21. CASE PutRefused
    BY <1>21 DEF PutRefused, AfterPut
<1>22. CASE WriteUnlock
    BY <1>22 DEF WriteUnlock, AfterUnlock
<1>23. CASE Save
    BY <1>23 DEF Save, Finish
<1>24. CASE TagRefused
    BY <1>24 DEF TagRefused, Compared, WriteStep, Finish, AfterPut
<1>25. CASE ReadRefused
    BY <1>25, RefusedRead DEF WriteStep
<1>26. CASE RequestFails
    BY <1>26 DEF RequestFails, Throw
<1>27. CASE PutUnanswered
    BY <1>27 DEF PutUnanswered, Throw
<1>28. CASE Crash
    BY <1>28 DEF Crash, Stop
<1>29. CASE CrashInSave
    BY <1>29 DEF CrashInSave, Stop
<1>30. CASE UNCHANGED vars
    BY <1>30 DEF vars
<1>31. CASE LockRefused
    BY <1>31 DEF LockRefused
<1>32. CASE UnlockRefused
    BY <1>32 DEF UnlockRefused, AfterUnlock
<1> QED
    BY <1>1, <1>2, <1>3, <1>4, <1>5, <1>6, <1>7, <1>8, <1>9, <1>10, <1>11, <1>12, <1>13, <1>14, <1>15, <1>16, <1>17, <1>18, <1>19, <1>20, <1>21, <1>22, <1>23, <1>24, <1>25, <1>26, <1>27, <1>28, <1>29, <1>30, <1>31, <1>32 DEF Next, Step

(* After a merge, the changes are on their way until the answer to the PUT. *)
LEMMA MergingPreserved ==
    ASSUME Types, Types', Known, LockedPut, Merging, [Next]_vars PROVE Merging'
<1> USE DEF aux, Local, Goto, At, Types, TypeOK, CICalendar, PcOK, RunOK, NoRun, Merging,
        After, OnlyHere
<1>1. CASE OtherClient
    BY <1>1 DEF OtherClient
<1>2. CASE OtherLocks
    BY <1>2 DEF OtherLocks
<1>3. CASE LockEnds
    BY <1>3 DEF LockEnds
<1>4. CASE EditOffline
    BY <1>4 DEF EditOffline
<1>5. CASE EditOnline
    BY <1>5 DEF EditOnline, WriteStep
<1>6. CASE StartOnline
    BY <1>6 DEF StartOnline, Begin
<1>7. CASE StartOffline
    BY <1>7 DEF StartOffline, Running
<1>8. CASE GoOffline
    BY <1>8 DEF GoOffline
<1>9. CASE GoOnline
    BY <1>9 DEF GoOnline
<1>10. CASE CheckCalendar
    BY <1>10 DEF CheckCalendar, Begin
<1>11. CASE LockCalendar
    BY <1>11 DEF LockCalendar
<1>12. CASE Compare
    BY <1>12 DEF Compare, Compared, WriteStep, Finish
<1>13. CASE ReadFullCalendar
    BY <1>13 DEF ReadFullCalendar
<1>14. CASE SyncBoth
    BY <1>14 DEF SyncBoth, SyncBothWith, WriteStep, Merged
<1>15. CASE UnlockCalendar
    BY <1>15 DEF UnlockCalendar
<1>16. CASE WriteLock
    BY <1>16 DEF WriteLock
<1>17. CASE WriteETag
    BY <1>17 DEF WriteETag
<1>18. CASE WriteMerge
    BY <1>18 DEF WriteMerge, WriteMergeWith, Merged
<1>19. CASE PutCalendar
  <2>1. server'.has = cal.has /\ cal'.has = cal.has
    BY <1>19 DEF PutCalendar, Stored
  <2>2. pc' \in After \/ (pc' = "idle" /\ ~run'.merged)
    BY <1>19 DEF PutCalendar, AfterPut
  <2> QED
    BY <2>1, <2>2
<1>20. CASE PutTag
    BY <1>20 DEF PutTag, AfterPut
<1>21. CASE PutRefused
    BY <1>21 DEF PutRefused, AfterPut, GivenUp
<1>22. CASE WriteUnlock
    BY <1>22 DEF WriteUnlock, AfterUnlock
<1>23. CASE Save
    BY <1>23 DEF Save, Finish
<1>24. CASE TagRefused
    BY <1>24 DEF TagRefused, Compared, WriteStep, Finish, AfterPut
<1>25. CASE ReadRefused
    BY <1>25, RefusedRead DEF WriteStep
<1>26. CASE RequestFails
    BY <1>26 DEF RequestFails, Throw
<1>27. CASE PutUnanswered
    BY <1>27 DEF PutUnanswered, Throw
<1>28. CASE Crash
    BY <1>28 DEF Crash, Stop
<1>29. CASE CrashInSave
    BY <1>29 DEF CrashInSave, Stop
<1>30. CASE UNCHANGED vars
    BY <1>30 DEF vars
<1>31. CASE LockRefused
    BY <1>31 DEF LockRefused
<1>32. CASE UnlockRefused
    BY <1>32 DEF UnlockRefused, AfterUnlock
<1> QED
    BY <1>1, <1>2, <1>3, <1>4, <1>5, <1>6, <1>7, <1>8, <1>9, <1>10, <1>11, <1>12, <1>13, <1>14, <1>15, <1>16, <1>17, <1>18, <1>19, <1>20, <1>21, <1>22, <1>23, <1>24, <1>25, <1>26, <1>27, <1>28, <1>29, <1>30, <1>31, <1>32 DEF Next, Step

(* A step in which what waits, or is being written, goes on doing so, has  *)
(* reached the server or is given up.                                      *)
LEMMA KeptByStep ==
    ASSUME SavedWait, EditsKept,
           UNCHANGED <<mode, disk, saved, mine>>, lost \subseteq lost',
           server.has \ lost' \subseteq server'.has,
           \A n \in mine \ lost' : Running /\ (Waits(n, cal) \/ Writing(n)) =>
               n \in server'.has \/ Waits(n, cal)' \/ Writing(n)'
    PROVE  SavedWait' /\ EditsKept'
<1>1. SavedWait'
    BY DEF SavedWait, Waits
<1>2. EditsKept'
    BY DEF EditsKept, Kept, Running, Waits
<1> QED
    BY <1>1, <1>2

(* What a PUT overwrites has been read, or is given up.                    *)
LEMMA OverwrittenIsRead ==
    ASSUME Types, Known, LockedPut, pc = "put", Accepted, Stored
    PROVE  server.has \ lost' \subseteq cal.has
<1>1. cal.ETag \in {0, server.tag}
    BY DEF Accepted, LockedPut, Types, RunOK
<1> QED
    BY <1>1 DEF Known, CalendarRead, IsRead, Stored

(* The user's changes, through every step.                                  *)
LEMMA EditsKeptPreserved ==
    ASSUME Types, Types', Known, LockedPut, EditsHere, [Next]_vars
    PROVE  SavedWait' /\ EditsKept'
<1> USE DEF aux, Local, Goto, At, Types, TypeOK, CICalendar, PcOK, RunOK, NoRun, Waits,
        Writing, EditsHere, EditsKept
<1>1. CASE OtherClient
    BY <1>1, KeptByStep DEF OtherClient
<1>2. CASE OtherLocks
    BY <1>2, KeptByStep DEF OtherLocks
<1>3. CASE LockEnds
    BY <1>3, KeptByStep DEF LockEnds
<1>4. CASE EditOffline
  <2>1. NextChange \notin saved \cup disk.cal.has
    BY DEF Numbered, NextChange, SpentOK
  <2>2. /\ UNCHANGED <<server, disk, saved, lost, mode>> /\ Running
        /\ mine' = mine \cup {NextChange}
        /\ cal'.recorded /\ cal'.has = cal.has \cup {NextChange}
    BY <1>4 DEF EditOffline, Edit, Running
  <2>3. ~run.merged
    BY <1>4 DEF EditOffline, Merging, After
  <2>4. SavedWait'
    BY <2>1, <2>2 DEF SavedWait
  <2>5. EditsKept'
    BY <2>2, <2>3 DEF Kept, Running
  <2> QED
    BY <2>4, <2>5
<1>5. CASE EditOnline
  <2>1. NextChange \notin saved \cup disk.cal.has
    BY DEF Numbered, NextChange, SpentOK
  <2>2. /\ UNCHANGED <<server, disk, saved, lost, mode>> /\ Running
        /\ mine' = mine \cup {NextChange}
        /\ cal'.recorded /\ cal'.has = cal.has \cup {NextChange}
    BY <1>5 DEF EditOnline, Edit, Running
  <2>3. ~run.merged
    BY <1>5 DEF EditOnline, Merging, After
  <2>4. SavedWait'
    BY <2>1, <2>2 DEF SavedWait
  <2>5. EditsKept'
    BY <2>2, <2>3 DEF Kept, Running
  <2> QED
    BY <2>4, <2>5
<1>6. CASE StartOnline
    BY <1>6 DEF StartOnline, Begin, SavedWait, Kept, Running
<1>7. CASE StartOffline
    BY <1>7 DEF StartOffline, SavedWait, Kept, Running
<1>8. CASE GoOffline
    BY <1>8 DEF GoOffline, SavedWait, Kept, Running
<1>9. CASE GoOnline
    BY <1>9 DEF GoOnline, SavedWait, Kept, Running
<1>10. CASE CheckCalendar
    BY <1>10, KeptByStep DEF CheckCalendar, Begin, Merging, After
<1>11. CASE LockCalendar
    BY <1>11, KeptByStep DEF LockCalendar
<1>12. CASE Compare
    BY <1>12, KeptByStep DEF Compare, Compared, Merging, After
<1>13. CASE ReadFullCalendar
    BY <1>13, KeptByStep DEF ReadFullCalendar, Reading, Merging, After, EditsKept, Kept, OnlyHere
<1>14. CASE SyncBoth
    BY <1>14, KeptByStep DEF SyncBoth, SyncBothWith, Merged
<1>15. CASE UnlockCalendar
    BY <1>15, KeptByStep DEF UnlockCalendar, Merging, After, OnlyHere
<1>16. CASE WriteLock
    BY <1>16, KeptByStep DEF WriteLock
<1>17. CASE WriteETag
    BY <1>17, KeptByStep DEF WriteETag
<1>18. CASE WriteMerge
    BY <1>18, KeptByStep DEF WriteMerge, WriteMergeWith, Merged
<1>19. CASE PutCalendar
  <2>1. server'.has = cal.has /\ server.has \ lost' \subseteq cal.has /\ lost \subseteq lost'
    BY <1>19, OverwrittenIsRead DEF PutCalendar, Stored
  <2> QED
    BY <1>19, <2>1, KeptByStep DEF PutCalendar
<1>20. CASE PutTag
    BY <1>20, KeptByStep DEF PutTag, Merging, After, OnlyHere
<1>21. CASE PutRefused
    BY <1>21, KeptByStep DEF PutRefused, GivenUp, OnlyHere
<1>22. CASE WriteUnlock
    BY <1>22, KeptByStep DEF WriteUnlock, AfterUnlock
<1>23. CASE Save
    BY <1>23 DEF Save, SavedWait, Kept, Running, Merging, After, OnlyHere
<1>24. CASE TagRefused
  <2>1. /\ UNCHANGED <<server, disk, saved, mine, mode, lost>>
        /\ cal'.has = cal.has /\ cal'.recorded = cal.recorded
    BY <1>24 DEF TagRefused
  <2>2. \A n \in mine \ lost : run.merged /\ n \in cal.has =>
            n \in server.has \/ run'.merged
    <3>1. CASE pc = "compare"
      BY <3>1 DEF Merging, After
    <3>2. CASE pc = "writeetag"
      BY <1>24, <3>2 DEF TagRefused
    <3>3. CASE pc = "puttag"
      BY <3>3 DEF Merging, After, OnlyHere
    <3> QED
      BY <1>24, <3>1, <3>2, <3>3 DEF TagRefused
  <2> QED
    BY <2>1, <2>2, KeptByStep
<1>25. CASE ReadRefused
  <2>1. \A n \in mine \ lost : Waits(n, cal) \/ Writing(n) => Waits(n, cal)' \/ Writing(n)'
    BY <1>25, RefusedRead DEF Merging, After
  <2> QED
    BY <1>25, <2>1, RefusedRead, KeptByStep
<1>26. CASE RequestFails
    BY <1>26, KeptByStep DEF RequestFails, Throw, GivenUp, OnlyHere
<1>27. CASE PutUnanswered
  <2>1. server'.has = cal.has /\ server.has \ lost' \subseteq cal.has /\ lost \subseteq lost'
    BY <1>27, OverwrittenIsRead DEF PutUnanswered, Stored
  <2> QED
    BY <1>27, <2>1, KeptByStep DEF PutUnanswered, Throw
<1>28. CASE Crash
  <2>1. ~Running' /\ UNCHANGED <<server, disk, lost, saved>>
    BY <1>28 DEF Crash, Stop, Running
  <2>2. mine' = mine \ (OnlyHere \ (saved \cup disk.cal.has))
    BY <1>28 DEF Crash, Forgotten
  <2>3. Running
    BY <1>28 DEF Crash, Stop
  <2> QED
    BY <2>1, <2>2, <2>3 DEF SavedWait, Kept, OnlyHere
<1>29. CASE CrashInSave
  <2>1. ~Running' /\ UNCHANGED <<server, saved>> /\ mine' \subseteq mine
    BY <1>29 DEF CrashInSave, Stop, Forgotten, Running
  <2>2. \A n \in mine \ (lost' \cup server.has) : Waits(n, disk'.cal)
    BY <1>29 DEF CrashInSave
  <2> QED
    BY <2>1, <2>2 DEF SavedWait, Kept
<1>30. CASE UNCHANGED vars
    BY <1>30, KeptByStep DEF vars
<1>31. CASE LockRefused
    BY <1>31, KeptByStep DEF LockRefused
<1>32. CASE UnlockRefused
  <2>1. UNCHANGED <<server, cal, disk, saved, mine, mode, lost>> /\ pc \in After
    BY <1>32 DEF UnlockRefused, After
  <2> QED
    BY <2>1, KeptByStep DEF Merging, OnlyHere
<1> QED
    BY <1>1, <1>2, <1>3, <1>4, <1>5, <1>6, <1>7, <1>8, <1>9, <1>10, <1>11, <1>12, <1>13, <1>14, <1>15, <1>16, <1>17, <1>18, <1>19, <1>20, <1>21, <1>22, <1>23, <1>24, <1>25, <1>26, <1>27, <1>28, <1>29, <1>30, <1>31, <1>32 DEF Next, Step
-----------------------------------------------------------------------------
(* The inductive invariant: initially, and through every step.             *)
LEMMA IInvInitially == Init => IInv
<1> SUFFICES ASSUME Init PROVE IInv
    OBVIOUS
<1>1. Types
    BY TypesInitially
<1>2. Known
    BY DEF Init, Known, TagsGrow, CalendarRead, CacheRead, OthersKept, IsRead, Empty
<1>3. LockedPut
    BY DEF Init, LockedPut
<1>4. EditsHere
    BY DEF Init, EditsHere, Numbered, Reading, Merging, SavedWait, EditsKept, Empty, NoRun
<1> QED
    BY <1>1, <1>2, <1>3, <1>4 DEF IInv

LEMMA IInvPreserved == IInv /\ [Next]_vars => IInv'
<1> SUFFICES ASSUME IInv, [Next]_vars PROVE IInv'
    OBVIOUS
<1>1. Types /\ Known /\ LockedPut /\ EditsHere
    BY DEF IInv
<1>2. Types'
    BY <1>1, TypesPreserved
<1>3. Known' /\ LockedPut'
    BY <1>1, <1>2, KnownPreserved, LockedPutPreserved
<1>4. Numbered' /\ Reading' /\ Merging'
    BY <1>1, <1>2, NumberedPreserved, ReadingPreserved, MergingPreserved DEF EditsHere
<1>5. SavedWait' /\ EditsKept'
    BY <1>1, <1>2, EditsKeptPreserved
<1> QED
    BY <1>2, <1>3, <1>4, <1>5 DEF IInv, EditsHere

(* The invariant the other theorems follow from.                           *)
THEOREM Inductive == Spec => []IInv
BY IInvInitially, IInvPreserved, PTL DEF Spec

(* The types of all variables; in particular, a server that has no locks   *)
(* is never asked for one.                                                 *)
THEOREM TypeCorrect == Spec => []TypeOK
<1>1. IInv => TypeOK
    BY DEF IInv, Types
<1> QED
    BY <1>1, Inductive, PTL

(* Whatever the client does, and wherever it fails or stops: what another  *)
(* client has put on the server is overwritten only by a calendar that     *)
(* contains it, or in one of the two cases that OthersKept names: by a     *)
(* calendar without a tag (never read, the tag lost, or merged when the    *)
(* server refused to have its calendar read), or after a tag that was      *)
(* asked for too late (WriteFullCalendar_Put).                             *)
THEOREM OthersAreKept == Spec => []OthersKept
<1>1. IInv => OthersKept
    BY DEF IInv, Known
<1> QED
    BY <1>1, Inductive, PTL

(* A change of the user's that has not been given up is on the server, or  *)
(* is in the calendar and will be sent, also after a restart if the cache  *)
(* has had it (SyncFullFromServer, WriteFullCalendar and the cache).       *)
THEOREM EditsAreKept == Spec => []EditsKept
<1>1. IInv => EditsKept
    BY DEF IInv, EditsHere
<1> QED
    BY <1>1, Inductive, PTL
=============================================================================
