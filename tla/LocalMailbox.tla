---------------------------- MODULE LocalMailbox ----------------------------
(***************************************************************************)
(* The files of a local mailbox of a disconnected account: the mailbox     *)
(* (.mbx) has the texts of the messages, the cache (.mbc) what is shown of *)
(* each, the index (.mbi) where both are, the flags and the local UIDs by  *)
(* which the journal names the messages.  CLocalClient appends, flags and  *)
(* expunges; the program may die between any two writes, and whoever opens *)
(* the mailbox next has to make do with the files as they are.             *)
(*                                                                         *)
(* All messages have one length, and so have all cache entries: an offset  *)
(* is a number of messages, or of entries.  A step ends where a stream is  *)
(* flushed, as each seek does (basic_cdfilebuf::seekoff), and close.       *)
(***************************************************************************)
EXTENDS Naturals, Sequences, FiniteSets, SequencesExt

CONSTANTS
    Msgs,        \* the messages there may be
    StartMsgs,   \* those of the mailbox at first, a sequence
    MaxFaults    \* bound on crashes and on appends that fail, together

Torn  == "torn"   \* the beginning of a message whose end was never written
Blank == "blank"  \* a cache entry whose indices are not written yet

ASSUME LocalMailboxAssumption ==
    /\ StartMsgs \in Seq(Msgs) /\ IsInjective(StartMsgs)
    /\ MaxFaults \in Nat
    /\ {Torn, Blank} \cap Msgs = {}
Files == {"mbx", "mbc", "mbi"}

VARIABLES
    fs,         \* the files: which there are, what is in them, in the mailbox
                \*   file renamed to .2 ("old") and what is to replace them
    newer,      \* the files with a later modification time than the index
    pc,         \* what the client is at
    goal,       \* what the mailbox is validated or reconstructed for
    open,       \* the mailbox is the current one of its connection
    mIndexList, \* its records in memory
    late,       \* the record of an append that is in the stream's buffer
    moves,      \* the renames to come
    kept,       \* auxiliary: the messages appended and not expunged
    known,      \* auxiliary: the local UIDs given, with message and flag
    hidden,     \* auxiliary: the files that are not what the index has of
                \*   them although their times do not tell
    trusted,    \* auxiliary: an index is in use that is not what the files
                \*   are, by the user's choice or because nothing told
    astray,     \* auxiliary: such an index has been used since the records
                \*   were last made from the texts alone
    clean,      \* auxiliary: no crash since the mailbox was last opened
    faults      \* crashes and failed appends so far

timeVars == <<newer, hidden>>
memVars  == <<open, mIndexList>>
auxVars  == <<kept, known, trusted, astray, clean>>
vars     == <<fs, timeVars, pc, goal, memVars, late, moves, auxVars, faults>>

-----------------------------------------------------------------------------
(* SIndexHeader (size: IndexSize, next: LocalUIDNext) and the SIndexRecords*)
(* behind it; an index without a header cannot be read.                    *)
Index(size, next, recs) ==
    [valid |-> TRUE, size |-> size, next |-> next, recs |-> recs]
NoIndex == [valid |-> FALSE, size |-> 0, next |-> 0, recs |-> << >>]

(* The records of n messages one behind the other.                         *)
InOrder(n, flag, uid) ==
    [k \in 1..n |-> [start |-> k - 1, cache |-> k - 1,
                     deleted |-> flag[k], luid |-> uid[k]]]
FreshIndex(n) ==
    Index(n, n + 1, InOrder(n, [k \in 1..n |-> FALSE], [k \in 1..n |-> k]))

(* The local UIDs that records give to the messages of a mailbox file.     *)
Given(recs, mbx) ==
    {<<rec.luid, mbx[rec.start + 1], rec.deleted>> : rec \in Range(recs)}

Init ==
    /\ fs = [there |-> Files, old |-> << >>, new |-> << >>,
             mbx |-> StartMsgs, mbc |-> StartMsgs,
             mbi |-> FreshIndex(Len(StartMsgs))]
    /\ newer = {} /\ hidden = {}
    /\ pc = "closed" /\ goal = "none"
    /\ open = FALSE /\ mIndexList = << >>
    /\ late = << >> /\ moves = << >>
    /\ kept = Range(StartMsgs)
    /\ known = Given(FreshIndex(Len(StartMsgs)).recs, StartMsgs)
    /\ trusted = FALSE /\ astray = FALSE /\ clean = TRUE
    /\ faults = 0

-----------------------------------------------------------------------------
(* Modification times are whole seconds: what is written is newer than the *)
(* index unless the index was written in the same second, which is past    *)
(* when another file is newer already.                                     *)
Modified(S) ==
    IF "mbi" \in S THEN newer' = {} /\ hidden' = {}
    ELSE \/ newer' = newer \cup S /\ hidden' = hidden \ S
         \/ newer = {} /\ newer' = {} /\ hidden' = hidden \cup S

Write(f, content) ==
    /\ fs' = [fs EXCEPT ![f] = content, !.there = @ \cup {f}]
    /\ Modified({f})

(* SyncIndexHeader writes the header if the times in it are not those of   *)
(* the files, and always if the index is older than one of them.           *)
OutOfDate == newer # {}

SyncIndexHeader == \/ ~OutOfDate /\ UNCHANGED timeVars
                   \/ Modified({"mbi"})

(* ReadIndex fails when the header counts more records than there are.     *)
Whole(i)   == i.size <= Len(i.recs)
Records(i) == SubSeq(i.recs, 1, i.size)
Readable   == {"mbc", "mbi"} \subseteq fs.there /\ fs.mbi.valid

(* What the cache shows for a record.                                      *)
Shown(rec) == IF rec.cache < Len(fs.mbc) THEN fs.mbc[rec.cache + 1] ELSE Blank

-----------------------------------------------------------------------------
(* On to what the mailbox was validated for: to select it is to read the   *)
(* records, which may fail; to append takes no more than the open files.   *)
Proceed(what, i) ==
    /\ goal' = "none"
    /\ IF what = "select" /\ Whole(i)
       THEN pc' = "idle" /\ open' = TRUE /\ mIndexList' = Records(i) /\ clean' = TRUE
       ELSE /\ pc' = IF what = "append" THEN "write" ELSE "closed"
            /\ UNCHANGED <<memVars, clean>>

(* The records that show the j-th message of the mailbox file.             *)
Occurrence(s, k) == Cardinality({i \in 1..k : s[i] = s[k]})
Match(recs, j) ==
    LET seen == [k \in DOMAIN recs |-> Shown(recs[k])]
    IN  {k \in DOMAIN recs : /\ seen[k] = fs.mbx[j]
                             /\ Occurrence(seen, k) = Occurrence(fs.mbx, j)}

(* ReconstructRecover: there are as many records as messages, and each     *)
(* message is shown by one of them.                                        *)
ReconstructRecover ==
    /\ Readable /\ Whole(fs.mbi)
    /\ fs.mbi.size = Len(fs.mbx)
    /\ \A j \in DOMAIN fs.mbx : Match(Records(fs.mbi), j) # {}

Reconstructed ==
    LET n == Len(fs.mbx)
        recs == Records(fs.mbi)
        was(j) == recs[CHOOSE k \in Match(recs, j) : TRUE]
    IN  IF ReconstructRecover
        THEN Index(n, fs.mbi.next,
                   InOrder(n, [j \in 1..n |-> was(j).deleted],
                              [j \in 1..n |-> was(j).luid]))
        ELSE FreshIndex(n)

(* Reconstruct reads all the files and truncates the cache; the cache is   *)
(* written, the index truncated, its header written and its records.       *)
Reconstruct(what) ==
    /\ pc' = "recache" /\ goal' = what
    /\ fs' = [fs EXCEPT !.new = [mbi |-> Reconstructed, recovered |-> ReconstructRecover],
                        !.mbc = << >>, !.there = @ \cup {"mbc"}]
    /\ Modified({"mbc"})
    /\ UNCHANGED <<memVars, late, moves, auxVars, faults>>

RewriteCache ==
    /\ pc = "recache" /\ pc' = "reindex"
    /\ Write("mbc", fs.mbx)
    /\ UNCHANGED <<goal, memVars, late, moves, auxVars, faults>>

TruncateIndex ==
    /\ pc = "reindex" /\ pc' = "reheader"
    /\ Write("mbi", NoIndex)
    /\ known' = IF fs.new.recovered THEN known ELSE Given(fs.new.mbi.recs, fs.mbx)
    /\ UNCHANGED <<goal, memVars, late, moves, kept, trusted, astray, clean, faults>>

RewriteHeader ==
    /\ pc = "reheader" /\ pc' = "rerecord"
    /\ Write("mbi", [fs.new.mbi EXCEPT !.recs = << >>])
    /\ UNCHANGED <<goal, memVars, late, moves, auxVars, faults>>

RewriteRecords ==
    /\ pc = "rerecord"
    /\ fs' = [fs EXCEPT !.mbi = fs.new.mbi, !.new = << >>]
    /\ Modified({"mbi"})
    /\ Proceed(goal, fs.new.mbi)
    /\ trusted' = FALSE /\ astray' = (astray /\ fs.new.recovered)
    /\ UNCHANGED <<late, moves, kept, known, faults>>

-----------------------------------------------------------------------------
(* TouchMbox: a mailbox that is not there is created, empty; the messages  *)
(* a crash left in the renamed file are not its messages any more.         *)
TouchMbox(what) ==
    /\ pc = "closed" /\ "mbx" \notin fs.there
    /\ pc' = "created" /\ goal' = what
    /\ fs' = [fs EXCEPT !.there = Files, !.old = << >>]
    /\ Modified(Files \ fs.there)
    /\ kept' = {}
    /\ UNCHANGED <<memVars, late, moves, known, trusted, astray, clean, faults>>

CreateMbox == pc = "created" /\ Reconstruct(goal)

(* ValidateCache: files that cannot be read are reconstructed; if one is   *)
(* newer than the index the user is asked whether they should.  If not, the*)
(* index this connection has open is touched: to select, the mailbox's; to *)
(* append, another mailbox's or none, and then that fails and the files are*)
(* reconstructed after all.                                                *)
ValidateCache(what) ==
    /\ pc = "closed" /\ "mbx" \in fs.there
    /\ \/ /\ ~Readable \/ OutOfDate
          /\ Reconstruct(what)
       \/ /\ Readable
          /\ Proceed(what, fs.mbi)
          /\ IF OutOfDate /\ what = "select" THEN Modified({"mbi"})
                                             ELSE UNCHANGED timeVars
          /\ trusted' = (trusted \/ newer \cup hidden # {})
          /\ astray' = (astray \/ newer \cup hidden # {})
          /\ UNCHANGED <<fs, late, moves, kept, known, faults>>

SelectMbox == TouchMbox("select") \/ ValidateCache("select")

StartAppend ==
    \/ TouchMbox("append") \/ ValidateCache("append")
    \/ /\ pc = "idle" /\ pc' = "write"
       /\ UNCHANGED <<fs, timeVars, goal, memVars, late, moves, auxVars, faults>>

(* The user has a closed mailbox rebuilt: without a mailbox file that      *)
(* fails, and the cache and the index are removed.                         *)
RebuildMbox ==
    /\ pc = "closed"
    /\ IF "mbx" \in fs.there THEN Reconstruct("none")
       ELSE /\ fs' = [fs EXCEPT !.there = {}, !.mbc = << >>, !.mbi = NoIndex]
            /\ UNCHANGED <<timeVars, pc, goal, memVars, late, moves, auxVars, faults>>

CloseMbox ==
    /\ pc = "idle" /\ pc' = "closed"
    /\ open' = FALSE /\ mIndexList' = << >>
    /\ SyncIndexHeader
    /\ UNCHANGED <<fs, goal, late, moves, auxVars, faults>>

-----------------------------------------------------------------------------
(* AppendMessage: the text; the cache entry, its indices left blank; the   *)
(* local UID and the size in the header of the index.  The indices and the *)
(* record stay in the buffers until the streams are next moved or closed.  *)
Unused ==
    Msgs \ UNION {kept, Range(fs.mbx), Range(fs.old), {p[2] : p \in known}}

WriteText ==
    /\ pc = "write" /\ pc' = "text"
    /\ Unused # {}
    /\ Write("mbx", Append(fs.mbx, Torn))
    /\ UNCHANGED <<goal, memVars, late, moves, auxVars, faults>>

WriteRest ==
    /\ pc = "text" /\ pc' = "entry"
    /\ Write("mbx", ReplaceAt(fs.mbx, Len(fs.mbx), CHOOSE m \in Unused : TRUE))
    /\ UNCHANGED <<goal, memVars, late, moves, auxVars, faults>>

(* The files with what the buffers have of the message before.             *)
FlushedIndex == [fs.mbi EXCEPT !.recs = @ \o late]
FlushedCache ==
    IF late = << >> THEN fs.mbc
    ELSE ReplaceAt(fs.mbc, Len(fs.mbc), fs.mbx[late[1].start + 1])

(* The index becomes the newest file while the others are ahead of it.     *)
Overtake(i) ==
    /\ fs' = [fs EXCEPT !.mbi = i]
    /\ newer' = {} /\ hidden' = {"mbx", "mbc"}

ReadIndexHeader ==
    /\ pc = "entry" /\ pc' = "cache"
    /\ IF late = << >> THEN UNCHANGED <<fs, timeVars>> ELSE Overtake(FlushedIndex)
    /\ UNCHANGED <<goal, memVars, late, moves, auxVars, faults>>

WriteEntry ==
    /\ pc = "cache" /\ pc' = "next"
    /\ Write("mbc", Append(FlushedCache, Blank))
    /\ late' = <<[start |-> Len(fs.mbx) - 1, cache |-> Len(fs.mbc),
                  deleted |-> FALSE, luid |-> fs.mbi.next]>>
    /\ UNCHANGED <<goal, memVars, moves, auxVars, faults>>

(* Faulty: the next local UID is not written.                              *)
WriteLocalUIDNextNot ==
    /\ pc = "next" /\ pc' = "header"
    /\ Overtake(fs.mbi)
    /\ UNCHANGED <<goal, memVars, late, moves, auxVars, faults>>

(* LocalUIDNext, counted up, with the flush of the seek to IndexSize.      *)
WriteLocalUIDNext ==
    /\ pc = "next" /\ pc' = "header"
    /\ Overtake([fs.mbi EXCEPT !.next = @ + 1])
    /\ UNCHANGED <<goal, memVars, late, moves, auxVars, faults>>

WriteIndexSize ==
    /\ pc = "header" /\ pc' = "appended"
    /\ mIndexList' = IF open THEN mIndexList \o late ELSE mIndexList
    /\ Write("mbi", [fs.mbi EXCEPT !.size = 1 + IF open THEN Len(mIndexList) ELSE @])
    /\ UNCHANGED <<goal, open, late, moves, auxVars, faults>>

(* The append is reported, and recorded: the message is the user's.        *)
Appended ==
    LET given == Given(late, fs.mbx)
    IN  /\ known' = known \cup given
        /\ kept' = kept \cup {p[2] : p \in given}

NextAppend ==
    /\ pc = "appended" /\ pc' = "write"
    /\ Appended
    /\ UNCHANGED <<fs, timeVars, goal, memVars, late, moves, trusted, astray, clean, faults>>

(* StopAppend closes the mailbox and the cache, then syncs the index.      *)
StopAppend ==
    /\ pc \in {"write", "appended", "failed"} /\ pc' = "stop"
    /\ IF late = << >> THEN UNCHANGED <<fs, timeVars>> ELSE Write("mbc", FlushedCache)
    /\ UNCHANGED <<goal, memVars, late, moves, auxVars, faults>>

(* Faulty: the header is not brought up to date.                           *)
SyncAppendNot ==
    /\ pc = "stop" /\ pc' = IF open THEN "idle" ELSE "closed"
    /\ IF late = << >> THEN UNCHANGED <<fs, timeVars>> ELSE Write("mbi", FlushedIndex)
    /\ late' = << >>
    /\ Appended
    /\ UNCHANGED <<goal, memVars, moves, trusted, astray, clean, faults>>

SyncAppend ==
    /\ pc = "stop" /\ pc' = IF open THEN "idle" ELSE "closed"
    /\ IF late = << >> THEN UNCHANGED fs /\ SyncIndexHeader ELSE Write("mbi", FlushedIndex)
    /\ late' = << >>
    /\ Appended
    /\ UNCHANGED <<goal, memVars, moves, trusted, astray, clean, faults>>

-----------------------------------------------------------------------------
SetFlag ==
    /\ pc = "idle"
    /\ \E k \in DOMAIN mIndexList :
         LET rec == [mIndexList[k] EXCEPT !.deleted = ~@]
         IN  /\ mIndexList' = ReplaceAt(mIndexList, k, rec)
             /\ Write("mbi", [fs.mbi EXCEPT !.recs = ReplaceAt(@, k, rec)])
             /\ known' = {IF p[1] = rec.luid THEN <<p[1], p[2], rec.deleted>>
                          ELSE p : p \in known}
    /\ UNCHANGED <<pc, goal, open, late, moves, kept, trusted, astray, clean, faults>>

(* Files are put in their places by renaming, the old ones out of the way  *)
(* first and the new ones in, and the old ones removed.                    *)
Each(what, order) == [i \in DOMAIN order |-> <<what, order[i]>>]

ReplacingInHaste(order) ==  \* faulty: the old ones are removed first
    Each("out", order) \o <<<<"drop">>>> \o Each("in", order)
Replacing(order) ==
    Each("out", order) \o Each("in", order) \o <<<<"drop">>>>

(* RollbackAppend, when a message cannot be read or written to its end:    *)
(* the mailbox file is made anew without it, or, as that may fail as well, *)
(* stays as it is.                                                         *)
RollbackAppend ==
    /\ pc = "text" /\ faults < MaxFaults
    /\ faults' = faults + 1
    /\ \/ /\ pc' = "rollback"
          /\ fs' = [fs EXCEPT !.new = [mbx |-> Front(fs.mbx)]]
          /\ moves' = Replacing(<<"mbx">>)
       \/ /\ pc' = "failed"
          /\ UNCHANGED <<fs, moves>>
    /\ UNCHANGED <<timeVars, goal, memVars, late, auxVars>>

(* The elements of s at the places in S, in their order.                   *)
Pick(s, S) ==
    [i \in 1..Cardinality(S) |-> s[CHOOSE p \in S : Cardinality({q \in S : q <= p}) = i]]

(* ExpungeMessage copies the messages that stay, each with all there is up *)
(* to the next one the index has, and so their cache entries.  From the    *)
(* offsets of a record what is left out in front of it is subtracted.      *)
Until(f, k, s) == IF k < Len(mIndexList) THEN mIndexList[k + 1][f] ELSE Len(s)
Copied(f, k, s) == {p \in DOMAIN s : mIndexList[k][f] < p /\ p <= Until(f, k, s)}

(* The places of what is left out with one message that another follows.   *)
Length(f, i) == (mIndexList[i][f] + 1)..mIndexList[i + 1][f]

(* Faulty: all that is left out; and all but for the message before.       *)
LeftOutAll(f, k, D) ==
    Cardinality(UNION {Length(f, i) : i \in D \ {Len(mIndexList)}})
LeftOutLate(f, k, D) ==
    Cardinality(UNION {Length(f, i) : i \in {i \in D : i + 1 < k}})

LeftOut(f, k, D) ==
    Cardinality(UNION {Length(f, i) : i \in {i \in D : i < k}})

Without(D) ==
    LET stay == DOMAIN mIndexList \ D
        copy(f, s) == Pick(s, UNION {Copied(f, k, s) : k \in stay})
        moved(k) == [mIndexList[k] EXCEPT !.start = @ - LeftOut("start", k, D),
                                          !.cache = @ - LeftOut("cache", k, D)]
    IN  [mbx |-> copy("start", fs.mbx), mbc |-> copy("cache", fs.mbc),
         mbi |-> [fs.mbi EXCEPT !.recs =
                    Pick([k \in DOMAIN mIndexList |-> moved(k)], stay)]]

(* An index that is not what the files are is not followed any further: by *)
(* its offsets other messages would be left out than those it shows.  So it*)
(* is after an expunge if there is a text in front of the first record's.  *)
ExpungeMessage ==
    /\ pc = "idle" /\ ~trusted
    /\ \E D \in (SUBSET DOMAIN mIndexList) \ {{}} :
         /\ fs' = [fs EXCEPT !.new = Without(D)]
         /\ kept' = kept \ {Shown(mIndexList[k]) : k \in D}
         /\ trusted' = (mIndexList[1].start > 0)
         /\ astray' = (astray \/ mIndexList[1].start > 0)
    /\ pc' = "expunge"
    /\ moves' = Replacing(<<"mbx", "mbc", "mbi">>)
    /\ UNCHANGED <<timeVars, goal, memVars, late, known, clean, faults>>

Away(f) ==
    /\ fs' = [fs EXCEPT !.there = @ \ {f},
                        ![f] = IF f = "mbi" THEN NoIndex ELSE << >>,
                        !.old = IF f = "mbx" THEN fs.mbx ELSE @]
    /\ UNCHANGED timeVars

Arrives(f) ==
    /\ fs' = [fs EXCEPT !.there = @ \cup {f}, ![f] = fs.new[f],
                        !.old = IF f = "mbx" THEN << >> ELSE @]
    /\ Modified({f})

RenameFile ==
    /\ pc \in {"rollback", "expunge"} /\ moves # << >>
    /\ LET move == Head(moves)
       IN  \/ move[1] = "out" /\ Away(move[2])
           \/ move[1] = "in" /\ Arrives(move[2])
           \/ move[1] = "drop" /\ fs' = [fs EXCEPT !.old = << >>] /\ UNCHANGED timeVars
    /\ moves' = Tail(moves)
    /\ UNCHANGED <<pc, goal, memVars, late, auxVars, faults>>

RolledBack ==
    /\ pc = "rollback" /\ moves = << >> /\ pc' = "failed"
    /\ fs' = [fs EXCEPT !.new = << >>]
    /\ UNCHANGED <<timeVars, goal, memVars, late, moves, auxVars, faults>>

(* Faulty: the size stays.                                                 *)
ExpungedUncounted ==
    /\ pc = "expunge" /\ moves = << >> /\ pc' = "idle"
    /\ fs' = [fs EXCEPT !.new = << >>]
    /\ Modified({"mbi"})
    /\ mIndexList' = fs.mbi.recs
    /\ known' = {IF \E rec \in Range(fs.mbi.recs) : p[1] = rec.luid THEN p
                 ELSE <<p[1], p[2], FALSE>> : p \in known}
    /\ UNCHANGED <<goal, open, late, moves, kept, trusted, astray, clean, faults>>

(* The new index has the old header: it gets its size, and is read again.  *)
Expunged ==
    /\ pc = "expunge" /\ moves = << >> /\ pc' = "idle"
    /\ fs' = [fs EXCEPT !.mbi.size = @ - (Len(mIndexList) - Len(fs.mbi.recs)),
                        !.new = << >>]
    /\ Modified({"mbi"})
    /\ mIndexList' = fs.mbi.recs
    /\ known' = {IF \E rec \in Range(fs.mbi.recs) : p[1] = rec.luid THEN p
                 ELSE <<p[1], p[2], FALSE>> : p \in known}
    /\ UNCHANGED <<goal, open, late, moves, kept, trusted, astray, clean, faults>>

-----------------------------------------------------------------------------
(* The process dies; what the buffers have is lost.                        *)
Crash ==
    /\ pc # "closed" /\ faults < MaxFaults
    /\ faults' = faults + 1
    /\ pc' = "closed" /\ goal' = "none"
    /\ open' = FALSE /\ mIndexList' = << >>
    /\ late' = << >> /\ moves' = << >>
    /\ fs' = [fs EXCEPT !.new = << >>]
    /\ clean' = FALSE
    /\ UNCHANGED <<timeVars, kept, known, trusted, astray>>

Next ==
    \/ SelectMbox \/ CreateMbox \/ RebuildMbox \/ CloseMbox
    \/ RewriteCache \/ TruncateIndex \/ RewriteHeader \/ RewriteRecords
    \/ StartAppend \/ WriteText \/ WriteRest \/ ReadIndexHeader \/ WriteEntry
    \/ WriteLocalUIDNext \/ WriteIndexSize \/ NextAppend \/ StopAppend \/ SyncAppend
    \/ RollbackAppend \/ RolledBack \/ SetFlag
    \/ ExpungeMessage \/ RenameFile \/ Expunged
    \/ Crash

Spec == Init /\ [][Next]_vars

-----------------------------------------------------------------------------
Text   == Msgs \cup {Torn}
Record == [start : Nat, cache : Nat, deleted : BOOLEAN, luid : Nat]
MbxIndex == [valid : BOOLEAN, size : Nat, next : Nat, recs : Seq(Record)]
Made ==
    \/ fs.new = << >>
    \/ fs.new \in [mbi : MbxIndex, recovered : BOOLEAN]
    \/ fs.new \in [mbx : Seq(Text)]
    \/ fs.new \in [mbx : Seq(Text), mbc : Seq(Text \cup {Blank}), mbi : MbxIndex]

(* Types of the files and of what the client keeps of them: no offset, size*)
(* or local UID ever falls below zero.                                     *)
TypeOK ==
    /\ DOMAIN fs = Files \cup {"there", "old", "new"}
    /\ fs.there \subseteq Files /\ fs.old \in Seq(Text) /\ Made
    /\ fs.mbx \in Seq(Text) /\ fs.mbc \in Seq(Text \cup {Blank}) /\ fs.mbi \in MbxIndex
    /\ newer \subseteq {"mbx", "mbc"} /\ hidden \subseteq {"mbx", "mbc"}
    /\ newer \cap hidden = {}
    /\ goal \in {"none", "select", "append"}
    /\ open \in BOOLEAN /\ mIndexList \in Seq(Record)
    /\ late \in Seq(Record) /\ Len(late) <= 1
    /\ kept \subseteq Msgs
    /\ trusted \in BOOLEAN /\ astray \in BOOLEAN /\ clean \in BOOLEAN
    /\ faults \in 0..MaxFaults

(* What an open mailbox shows of each message is that message, found where *)
(* the index says, whatever crash the files have been through (AppendMes-  *)
(* sage, ExpungeMessage, ValidateCache and Reconstruct).  Exceptions are an*)
(* index the user has chosen to continue with, files changed in the second *)
(* in which the index was, and a crash between the writes of an append that*)
(* make the index the newest file (trusted).                               *)
ViewSound ==
    pc = "idle" /\ ~trusted =>
        \A k \in DOMAIN mIndexList :
            LET rec == mIndexList[k]
            IN  /\ rec.start < Len(fs.mbx)
                /\ Shown(rec) = fs.mbx[rec.start + 1]

(* A message that was appended and not expunged is in the mailbox file, or,*)
(* after a crash in the middle of the renames, in the one renamed to .2    *)
(* (ExpungeMessage, RollbackAppend).                                       *)
NothingLost ==
    kept \subseteq Range(IF "mbx" \in fs.there THEN fs.mbx ELSE fs.old)

(* In an open mailbox a local UID is that of the message it was given to,  *)
(* and the flag is the one last set: no crash, recovery or expunge makes a *)
(* local UID that the journal may have name another message, until all are *)
(* given anew by a reconstruction that could not recover them (Append-     *)
(* Message, SetFlag, ExpungeMessage, Reconstruct).  Exception: an index is *)
(* in use that is not what the files are, or was when the records were last*)
(* recovered; other texts may have come to the places it has (astray).     *)
RecordsKept ==
    pc = "idle" /\ ~astray =>
        \A k \in DOMAIN mIndexList :
            LET rec == mIndexList[k]
            IN  {p \in known : p[1] = rec.luid} = {<<rec.luid, Shown(rec), rec.deleted>>}

(* What an open mailbox has in memory is what is on disk: a crash while    *)
(* nothing is being done loses nothing (SetFlag, ExpungeMessage, AppendMes-*)
(* sage and StopAppend each leave the index complete and up to date).      *)
DiskCurrent ==
    pc = "idle" =>
        /\ Readable /\ ~OutOfDate
        /\ fs.mbi.size = Len(fs.mbi.recs) /\ fs.mbi.recs = mIndexList

(* Without a crash a closed mailbox can be opened again as it is, also when*)
(* it was appended to while closed, or an append to it has failed: nothing *)
(* is asked and nothing reconstructed (SyncIndexHeader in CloseMbox and    *)
(* StopAppend).                                                            *)
Opens ==
    pc = "closed" /\ clean /\ "mbx" \in fs.there =>
        Readable /\ ~OutOfDate /\ Whole(fs.mbi)
=============================================================================
