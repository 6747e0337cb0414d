# Mulberry: specifications of disconnected mail and of calendars

Mulberry is an internet mail and calendar client in C++ (Linux, Mac OS and
Windows). This project models the two parts of it in which a mistake costs the
user mail or appointments:

- **disconnected mail**: while an account is disconnected, the user goes on
  working with local copies of its mailboxes, every change is recorded in a
  journal on disk, and when the account goes online again the journal is
  compacted and played back to the IMAP server;
- **calendars on a server**: a subscribed calendar is kept in memory, in a cache
  on disk and on a CalDAV or WebDAV server; each side changes by itself, and a
  check every few minutes brings them together.

The modules say how that works, TLC checks it on small instances, and TLAPS
proves facts about it for instances of any size.

All paths below are relative to `src/Sources_Common/`.

## 1. Inventory

The program is event driven: a main thread runs the user interface and
`CTaskQueue`, and other threads check mail, send mail and search. Each account
has a `CINETProtocol` (states offline, online, logged on), which talks through a
`CINETClient` to a server, or, when disconnected, to files.

| Part | State | Operations | What makes it correct |
|---|---|---|---|
| **Journal, recorder** `Offline/Recording/CActionRecorder`, recording half of `CMailRecord` | queue of actions, `mNextID`, `mCurrentID`, `mStartRecord`, pending selects, a mutex, the file `Record.mbr` with a header | `Open`, `Close`, `GetNextID`, `StartRecording`/`StopRecording` around one operation of a connection, one method per kind of action | the file is the queue; no session ID is used twice; every change stays in the session of the mailbox it was made in; nothing leaves the file before it has been played |
| **Journal, compaction** `CMailRecord::Compact…` | the queue | five passes that add, join, merge and drop entries | playing the compacted journal has the same effect |
| **Journal, playback** `CMailRecord::Playback…` | the queue, the open connections `mConns`, attempts | one function per kind of entry; recovery from refusals, timeouts, lost connections, mailboxes that have changed | nothing is lost; at the end server and user agree; it ends |
| **Disconnected client** `Offline/Mail/CLocalClient` | mailbox, cache and index file per mailbox, the UID maps | the `CMboxClient` interface, done locally and recorded | local state and journal say the same; what an open mailbox shows is what its files hold, and no crash loses a message or makes a local UID another message's |
| **Account state** `Mail/Protocols/CINETProtocol`, `CMboxProtocol` | open/offline/logged on, current mailbox, local and remote client | `GoOffline`, `GoOnline`, select, forget, timeouts, synchronisation of mailboxes | clients and recorder are exchanged only when nobody uses them |
| Synchronisation `CMboxProtocol::SyncRemote`, `SyncLocal` | two message lists | compare UIDs and flags, copy what differs | both sides equal afterwards |
| POP3 client `Offline/Mail/CPOP3Client` | journal of expunges | flush against the server's list | an expunged message does not come back |
| Calendar and address book journals `CCalendarRecord`, `CAdbkRecord` | as the recorder | stores, changes, deletions | as for mail |
| Connection manager `Mail/Control/CConnectionManager` | set of protocols, what was disconnected | disconnect and reconnect all, failures | every protocol ends up in the state chosen |
| SMTP `Mail/Control/CSMTPAccountManager`, `CSMTPSendThread` | queue of files, status of each | queue, send, retry, suspend | a message is sent once |
| Mailboxes `Mail/Mailbox/CMbox`, `CMboxList` | open state, message list, sort and threads | open, close, append, copy, expunge | numbers and UIDs stay in step with the server |
| IMAP sequences `Mail/INET_Clients/IMAP/CSequence` | none | list of numbers to text and back | the text names exactly the numbers |
| Locks `Utilities/cdmutex`, `cdomutex`, `cdcond`; `Tasks/CTaskQueue` | owner, count, waiters; list of tasks | acquire with a time limit, release; add, run | exclusion, no lost task |
| IMAP, SMTP, ACAP, IMSP, LDAP, SIEVE clients, network streams | socket, response buffers | commands and responses | mostly text |
| **CalDAV calendars** `Calendar_Store/Protocols/CCalendarProtocol`, `Clients/CCalDAVCalendarClient` | events with entity tags, the record of unsent changes, the calendar's tag and sync token | open, periodic check, add/change/remove an event, two synchronisations (with and without sync report) | no unsent change loses its record; the token stands for what has been read; both sides become the same |
| **WebDAV calendars** the same protocol, `Clients/CWebDAVCalendarClient` | the calendar as one text with one tag, locks | the same, with the whole calendar | the same, and no other client's change is overwritten unseen |
| **Calendar cache and checks** `Clients/CLocalCalendarClient`, `CCalendarStoreManager` | two files per calendar; the list of calendars to check | read, write; go off and on line, check | the two files belong together; every open calendar is checked |
| Address books, preferences, filters, vCards | lists kept in step with servers | load, change, synchronise | both sides equal |
| User interface, plug-ins, formatting, MIME, character sets, vendored libraries | — | — | outside this project |

How they interact: `CMbox` calls its account's protocol, which calls the local
or the remote client. `CLocalClient` changes its files first and then, inside an
`StActionRecorder` scope, calls one method of the shared `CMailRecord`.
`CMboxProtocol::GoOnline` calls `DoPlayback`, which gives the journal a remote
protocol and the local one. A change of an event reaches
`CCalendarStoreNode::CalendarComponentChanged`, which calls the calendar's
protocol, which calls the CalDAV or WebDAV client and writes the cache; the check
thread calls `CheckCalendar` of the same protocol. The repository has no tests; its documentation of
behaviour is the release notes under `src/Win32/Release Notes/` and the comments.

Hard behaviours, at their lines, are the `hazards` of `PROJECT.json`: several
connections recording into one queue; a counter that is written to a buffered
stream; selects recorded late; a playback that fails in the middle of a session
or of rewriting the file; a refused copy before the expunge of its original; an
answer that does not arrive; mailboxes renamed or replaced since; compaction
that moves entries past each other; three files of a local mailbox that are
written and renamed one after the other, with buffers in between, and told apart
by their modification times when the program died meanwhile. For calendars: another client between any two
requests, a request that fails half way through a synchronisation or is refused
without anyone noticing, locks that run out, a crash between the two files of the
cache.

## 2. Modules

```
 DurableJournal <--refines-- MailRecorder <-- MCMailRecorder
                                   ^
                                   +--- MailRecorder_proofs  (theorems)

 JournalCompaction <-- JournalEffect <-- OfflineMail <-- MCOfflineMail
                                              ^
                                              +--- OfflineMail_proofs  (theorems)
                                              |            ^
                                              |            +--------------+
                                              +--- MailPlayback <-- MailPlayback_proofs  (theorems)
                                                        ^
                                                        +--- MCMailPlayback

 LocalMailbox <-- MCLocalMailbox
       ^
       +--- LocalMailbox_proofs <-- MailboxFiles_proofs <-- MailboxUIDs_proofs  (theorems)

 CalendarStore <-- CalendarSync <-- MCCalendarSync
                        ^
                        +--- CalendarSync_proofs  (theorems)

 FullSync <-- FullSync_proofs  (theorems)
```

The mail modules and the calendar modules do not depend on each other: calendars
do not use the journal for their contents. There are two models of the journal, one for each question.

**MailRecorder: the journal as a shared, durable queue.** Several connections
(`Clients`), interleaved at every point where the code can be interrupted: the
local change with its new session ID (`SelectMbox`), taking the mutex
(`StartRecording`), pushing entries (`Record`), writing them and releasing the
mutex (`StopRecording`). `Record` has one disjunct per method of `CMailRecord`;
the late select (`PushSelect`) is part of each. A mutex that cannot be had in
time (`cdmutex` throws) is `SelectTimedOut` and `ForgetTimedOut`. The file is
`disk` (header and items), with a stream that buffers the header (`dirty`), can
be closed and can keep a failure (`mStream`): reading and writing a closed
stream is what happens after a failed playback. The account goes on and off
line, plays the journal entry by entry, fails at any of them, recovers its
sessions (`RecoverSelect`), removes the file and writes it anew. `Crash` may
happen in every state and leaves any file the buffering allows; `Restart` opens
what is there. Left out: what the entries *do*. Compaction and the removal of
entries for a mailbox that has changed do not happen in this model; the loss of
a refused Select does (`refused`), because it breaks a session.

**DurableJournal** is what that promises: a log that only grows while recording,
is worked off without being touched, and is emptied or replaced at the end.
Three variables, no clients, mutex, IDs or files. `MailRecorder!JournalSpec` is
the refinement mapping: `log` is the file, `todo` the queue during a playback,
`mode` a function of `phase`.

**JournalCompaction** holds the five passes of `CompactPlayback` as operators on
sequences: `CompactMissing` (a session without its Select), `CompactUnterminated`
(without its Deselect), `CompactMultiple` (joins sessions of one mailbox),
`CompactExpunge`, and `CompactFlags` with the conditions under which a flag
change may move (`MustStop`, for `CanActionMove`).

**JournalEffect** says what playing one entry does to the *world*: mailboxes and
names on the server, where each message is and with which flags, the local
mailboxes with the server mailbox (UIDVALIDITY) they stand for, the open
connections and the UIDs the local index knows. A message is named by its local
UID; `mapped` says whether its server UID is known. `Remote` is the translation
of UIDs at playback, `Found` what the server makes of the sequence that is sent,
UID 0 included.

**OfflineMail** is the user at work: open, close and search mailboxes, set
flags, copy, append, expunge, create, delete and rename, each changing the local
side of the world and recording in one step. The interleaving of records is
MailRecorder's subject and is not repeated.

**MailPlayback** adds the loop of `Playback`: `PlayItem` (with
`Playback_RemoveActions` when the mailbox is missing or another one),
`ItemRefused` (NO or BAD, and `Playback_RecoverNonfatal`), `ItemRetried` (an
error or timeout with the connection up: once more, then give up), `ItemFails`
(a lost connection, or an entry without one), `PlaybackDone`, and `Restart` for a
process that dies in between. An answer that does not arrive may stand for a
command that was carried out.

**LocalMailbox** looks inside the step that the two journal models take as one:
the files behind a local mailbox. `fs` is what is on disk: the texts (`mbx`), what
the cache shows of each (`mbc`), and the index (`mbi`) with its header and its
records, one place each for a text and a cache entry, so that an offset is a
number of messages. `mIndexList` is the index in memory. One operation is several
steps, each ending where a stream is flushed: an append is `WriteText`,
`WriteRest`, `ReadIndexHeader`, `WriteEntry`, `WriteLocalUIDNext`,
`WriteIndexSize`, and at the end `StopAppend` and `SyncAppend`; the record of the
last message (`late`) and the indices of its cache entry wait in buffers until the
next message or the end. An append that fails is rolled back by a new mailbox file
(`RollbackAppend`). `ExpungeMessage` writes three new files and puts them in place
by the renames in `moves`. `Crash` may come between any two steps. Whoever opens
the mailbox next runs `ValidateCache`, which tells by their presence and
modification times whether the files belong together (`newer`: the files whose
time is later than the index's; times are whole seconds, and `hidden` has the
files that differ without showing it), and `Reconstruct` with
`ReconstructRecover`, itself four steps a crash may interrupt. `kept` and `known`
remember what the user has and which local UID was given to which message;
`trusted` marks an index that is used although it is not what the files are, `astray`
that this has happened since the records were last made from the texts alone, and
`clean` that no crash has come since the mailbox was last opened.

**CalendarStore** is a subscribed CalDAV calendar without its synchronisation:
events and their versions on the server (`server`, with the revision `stamp` that
last changed each, and `rev`, which is both the calendar's tag and its sync
token), the calendar in memory (`cal`: versions, entity tags, the library's
record of what is to be sent, tag and token), its cache (`disk`), the user's
changes on line (`EditOnline`, `EditFails`, `EditRefused`) and off (`EditOffline`),
another client, writing the cache, a crash at any moment and one between the
renaming of its two files (`Torn`), restart, going off and on line.

**CalendarSync** adds the synchronisations, one request per step:
`SyncComponentsFromServerFast` is `FastSync`, then for each record
`AddComponent`, `RemoveComponent` or `ChangeComponent`, then `Scan`, `Resolve` and
`Overwrite` for what has changed on both sides, `Fetch`, and `UpdateSyncToken`;
`SyncComponentsFromServerSlow` begins with `CalendarChanged` and
`GetComponentInfo` instead and shares the rest, with its own conditions
(`ToRemove`, `Later`, `Gone`). Any request can fail (the exception ends the
synchronisation), be performed without an answer, or be refused, which the code
displays and otherwise takes for an answer that says nothing.

**FullSync** is the other kind of calendar, one resource read and written as a
whole: `SyncFullFromServer` (`Compare`, then read, write or merge),
`WriteFullCalendar` with a conditional PUT or with LOCK, comparison, merge, PUT,
UNLOCK, and the lock that the synchronisation itself takes. Each of these requests
can fail, which throws, or be refused, which the code displays and goes on from:
the tag (`TagRefused`), LOCK and UNLOCK (`LockRefused`, `UnlockRefused`), the PUT
(`PutRefused`) and the GET, at each of the three places that call
`_ReadFullCalendar` (`ReadRefused`): the cache is written with what was not read, or
the calendar is merged with an empty one (`SyncBothWith(Unread)` in
CCalendarProtocol.cpp:1051, `WriteMergeWith(Unread)` in
CWebDAVCalendarClient.cpp:992) and sent. What a calendar says
is the set of changes it contains, so that merging is union and a lost change is
a missing element.

State and actions keep the source's names; `PROJECT.json` gives, for each
definition, the lines it stands for. Definitions whose comment begins with
"Faulty" are variants with a plausible mistake, used to see that each property
can fail; no specification refers to them.

### What is abstracted

- A message is a number; its text is `origin`, the first message with that text.
  UIDs are unique across mailboxes. Two copies of one message in one mailbox are
  not told apart, so an entry that is repeated is not counted twice.
- The mailboxes that appends and mailbox actions name are left out of
  MailRecorder, where nothing depends on them.
- Subscribe and Unsubscribe are mailbox actions in MailRecorder and left out of
  the playback: they change nothing the other entries see. So are flag changes
  that change nothing.
- The server keeps a mailbox's UIDVALIDITY when it is renamed, and no other
  client works on it meanwhile.
- The dialogs that ask about a changed UIDVALIDITY are answered in favour of the
  operation.
- A crash keeps or loses whole journal items; the binary format is left out.
- An event of a CalDAV calendar is its UID, a version number stands for its text,
  an entity tag is the version it belongs to, and the server answers each PUT with
  the tag. The changes `Scan` makes to the calendar in memory, which the code
  makes between the requests of the same step, are made before them; events are
  read in one request, not in groups of 50. Two server resources with one event
  (after an unanswered PUT that is repeated) are not followed.
- The iCalendar library is not in the repository. What it does is taken from how
  it is called: the record of a change (`RecordAction`), reading a cache into a
  calendar that is not empty (`Reread`), which of two versions is newer (a choice),
  the merge of two calendars (`Merged`: union, with the tag of the other one, which
  is none when that one could not be read).
- Of the CalDAV client, a probe for the sync report (`_TestFastSync`) that fails and
  a lock around the PUT of one event are left out.
- The server accepts its own sync tokens for ever. The user does not change a
  calendar in the middle of its synchronisation.
- In LocalMailbox all messages have one length, and so have all cache entries; of
  the flags there is only Deleted. The beginning of a message that was never
  written to its end is text the index does not know; that it might be taken for a
  message with what follows it is not followed. Server UIDs in the index and their
  remapping, copies into a mailbox, renaming and deleting its files, read-only
  volumes, the Cancel button of the question about an old index, and an error while
  the new files of an expunge are made (nothing is changed then) are left out. So
  are renames that fail without a crash, whose result the code does not look at, and
  a failure after all of an appended message's text has been written.
- In OfflineMail a mailbox made off line has a local UIDVALIDITY (0) that no server
  mailbox has; where the code has reconstructed its index it is a hash instead, which
  is taken not to be a server mailbox's either.
- Where `erase` at the beginning of the vector is followed by `iter--` (undefined
  behaviour), the model goes on with the next entry, as the usual vectors do.

## 3. Runs

| Run | Instance | What it shows |
|---|---|---|
| `recorder_safety` | two connections, two mailboxes, one mailbox and one message action, two session IDs (`MaxID` 3), a queue that reaches four entries; symmetric in connections and mailboxes | `JournalComplete`: between operations the file is the queue. `FreshIDs`, `HeaderAhead`: session IDs in use are distinct and below the counter, in memory and on disk. `SessionsWhole`, `SessionsWholeOnDisk`: each message change follows the Select of its mailbox. `JournalSurvives`: entries stay in the file until played or rewritten. `JournalSpec`: all of it implements DurableJournal |
| `recorder_afterfailure` | the same | *violated*: after a failed playback the file is closed and nothing opens it, so what is recorded next exists in memory only |
| `compaction_flags` | one mailbox that may be renamed and deleted, three messages, two flags, selections of up to two messages | `CompactionFaithful`: playing the compacted journal leaves the server as playing the original would |
| `compaction_sessions` | three mailboxes, one of them made offline, three sessions, copies and appends | the same across sessions, and `SessionsClosed`: each session of the compacted journal is selected once, deselected, and does something |
| `playback_safety` | two mailboxes, three messages, two sessions, two playbacks | `ContentKept`: a text the user has is never nowhere on the server, whatever is refused, unanswered or cut off. `Synchronised`: a completed playback that met no refusal leaves both sides equal |
| `playback_ends` | three mailboxes, made and renamed offline, two sessions, four entries | `ContentKept` when sessions meet missing or replaced mailboxes; `RecoveredClosed`: what a failed playback writes anew compacts to whole sessions. `PlaybackEnds`, under fairness: the retry limit holds. `EffortSpent`: each step that does not end the playback leaves it less to do |
| `playback_mixed` | two mailboxes, selections of two messages | *violated*: a flag change on a selection that mixes messages with and without server UID also hits later messages |
| `localmailbox_safety` | three messages, one of them there at first, two faults (a crash anywhere or an append that breaks off) | `ViewSound`: an open mailbox shows of each message what is where its index says. `NothingLost`: a message appended and not expunged is in the mailbox file, or in the one renamed away. `RecordsKept`: a local UID stays that of its message, with its flag. `DiskCurrent`: with nothing being done, the index on disk is the one in memory. `Opens`: what was closed without a crash opens as it is |
| `calsync_safety` | two events, servers with and without sync report, two changes by the user, one by another client, one failure or refusal, one crash; symmetric in events | `EditsKept`: a change that has not been sent is recorded, in memory and, once saved, on disk. `TokenSound`: an event the server has not changed since the token is here as it is there |
| `calsync_converges` | the same with the sync report, without a crash | `Converges`, under fairness: a calendar that stays on line and checked becomes what the server has, and stays so |
| `calsync_removal` | two events, no sync report, no failures | *violated*: an event removed off line stays on a server that has not changed meanwhile |
| `fullsync_safety` | servers with locks and with entity tags, two changes by the user, two by other clients (or a lock of theirs), one failure, one crash | `EditsKept`; `OthersKept`: another client's change is overwritten only by a calendar that contains it, except in the cases below; `Converges`, under fairness, for servers without locks |

**Bounds.** Two connections are enough for every race on the mutex, which only
ever relates two of them; two mailboxes for every confusion of one with another,
three for exchanging two names. Four entries hold two interleaved sessions with a
change each, and a session whose Select is gone while another is open. A
journal of three to eight entries is enough for each pass of the compaction to
work on what an earlier one has made. `recorder_safety` has also been run with a
queue of five (3.8 million states). `MaxID`, `MaxActions`, `MaxPlaybacks`,
`MaxSelected` and the sets of messages and session IDs are all the bounds there
are; they appear in guards only, and the model stops when one is reached, which
is why deadlock is not checked in the runs of compaction and playback. It is
checked in `recorder_safety`, where a crash is always possible, and in
`localmailbox_safety`, where `MaxFaults` bounds crashes and failed appends together
and a mailbox can always be opened or closed.

In `localmailbox_safety` three messages are what an expunge needs to tell offsets
apart: one that goes, one in front of it and one behind. Two faults make a crash
while what an earlier crash has left is being reconstructed, or after an append
that was rolled back. It has also been run with four messages, two of them there at
first, and one fault (1.3 million states).

The calendar runs need two events for everything that relates one change to
another (`EditOnline` clears the record of both), and one other client's change
for every race, because each race is between that change and one request. Two
changes by the user make a change of an event that is itself unsent.
`calsync_safety` has also been run, with the sync report and at most six
revisions of the server's calendar, with three changes by the user (8.7 million
states): a change that was saved, taken back and, after a crash, is in the cache
again. In
`fullsync_safety` other clients make two, so that one comes between the merge and
the PUT that follows. `calsync_converges` has also been run with a crash (three
minutes), `fullsync_safety` is run with one. `MaxEdits`, `MaxOthers`, `MaxFaults`
and `MaxCrashes` are the bounds, and appear in guards only; deadlock is not
checked, because a calendar on whose opening a request has failed is not checked
again, and a program that is off line may stay so.

**Fairness.** `MailPlayback!FairSpec` adds weak fairness of `PlayStep`: the loop
in `Playback` runs in one thread, and each turn does one of these steps, because
each network operation ends with an answer, an error or a time limit
(`CTCPSocket`). Nothing else is assumed: not that the server ever accepts
anything, not that the user ever goes online. The other mail properties are
safety properties and need none.

`CalendarSync!FairSpec` and `FullSync!FairSpec` assume that the timer starts a
check again and again (`CCalendarStoreManager::SpendTime`, every five minutes:
weak fairness of `CheckCalendar`) and that what has been started goes on
(each request ends, as above). Nothing is assumed of the user, of other clients
or of failures: these are bounded, so `Converges` speaks of what happens after the
last of them.

**Exceptions in the properties.** `ContentKept` does not cover what the user
expunges after a playback that failed, once a copy has been refused (the refused
copy is forgotten: a hazard the code has no answer to), and the runs that check
it have no offline Delete: when the mailbox of a session is missing,
`Playback_RemoveActions` takes a rename recorded in that session out of the journal,
but not the later Delete of a name the rename was to free, and the server then
deletes another mailbox; a refused Create or Rename does the same. `Synchronised` holds for journals in which nothing
`odd` was recorded; `odd` names three kinds of entry, and `playback_mixed` shows
what goes wrong without the exception for one of them. `CompactionFaithful` makes
an exception of the same mixed selections, and its runs do not let a name pass
from one mailbox to another within a journal: `CompactMultiple` joins sessions by
name.

`RecoveredClosed` is about playbacks in which the server refused nothing: the session of
a refused Select goes on without one.

`ViewSound` and `RecordsKept` make an exception of an index the user has chosen to
go on with although the files are newer, of files changed in the second in which
the index was, of a crash between the two writes of an append that make the index
the newest file, and of an index whose first record begins behind a text it does
not know (all `trusted`); what an expunge does to a mailbox with such an index is
not followed. For `RecordsKept` the exception lasts until the records have been made
from the texts alone (`astray`): a reconstruction that takes over the records of such
an index takes over what is wrong with them. Local UIDs are given anew when a reconstruction finds no record for
some message: `RecordsKept` begins again there, and the journal's entries for the
old ones are the server's to refuse. Nothing in
the code looks for a mailbox file that a crash has left renamed away: the next append
or select makes an empty one, and with that the messages are given up (`kept` is
empty). `Opens` excepts
crashes: an index that counts more records than it has cannot be opened, and is not
reconstructed either, until the user has the mailbox rebuilt.

In `CalendarSync`, `spoilt` are the events whose change has been given up by the
code: changes that were recorded when the answer to another one cleared all
records, whose request was refused, whose record a crash in the middle of writing
the cache has separated from them, a removal on a server that has not changed
(without sync report), what a refused list or report of events has made of the
others, and, without a sync token, events that are here and not there. `EditsKept`,
`TokenSound` and `Converges` are about the others. `unsent` are the events whose
last change the server has not been sent, `kept` those whose record, of that or of
an earlier change, is in the cache: what a crash makes of `unsent`. In `FullSync`, `lost` are the
changes given up in the same way: a merged calendar whose PUT was refused, a
calendar without a tag that is read or written over, a change of another client
that came between a PUT and the question for the new tag, and the torn cache. A
calendar has no tag when it was never read, when a crash or a refused question has
cost it the tag, and when it was merged although the server refused to have its
calendar read. In the last case `WriteFullCalendar_Lock` has compared, has been told
that the server has something new, and overwrites it under its lock without having
seen it. Each is marked where the step happens, and none by what the properties say.

**Disagreements found** (`findings`): a journal that is not reopened after a
failed playback; UID 0 in a recorded selection becoming a range without end;
removals that are not sent to a CalDAV server without sync report. Others were
met while modelling and are the exceptions above: messages expunged before the
server has seen them, appends recorded under the session of another mailbox,
deletes and renames taken back together with the session they followed (`odd`);
the calendar changes that are given up (`spoilt`, `lost`), among them those of another
client that are overwritten because the result of `_ReadFullCalendar` is ignored
(CWebDAVCalendarClient.cpp:992, CCalendarProtocol.cpp:1051); on a WebDAV server with
locks, the synchronisation's own lock keeps `WriteFullCalendar_Lock` from writing
what was changed off line, ever (which is why `Converges` is about servers without).
In `CLocalClient`: `ValidateCache` says that the index should be newer than the two
other files (2684) and accepts equal times, which whole seconds make usual; to
continue with an old index when appending to a mailbox that is not open, it touches
the index of the connection's mailbox (2717), not the one in question, which is
reconstructed after all; and where `AppendMessage` says that it forces updates of
mailbox and cache (4074), only the index is flushed.

## 4. Proofs

`MailRecorder_proofs` proves, from `ConstantsAssumption` only and so for any
sets of connections and mailboxes and any bounds:

- `Invariance`: `Spec => []IInv`
- `TypeCorrect`: `Spec => []TypeOK`
- `JournalIsComplete`: `Spec => []JournalComplete`

`JournalComplete` speaks of the states in which nobody is recording. To get from
one to the next the invariant must say what the file is *meanwhile*: the queue up
to `mStartRecord`, where the operation began (`Journaled`). That is preserved
because only the owner of the mutex pushes (`MutexOK`), because the mark was the
length of the queue when it started and the queue has only grown since
(`StartOK`), and because a client is in the middle of an operation only while the
account is offline or leaving that state (`BusyOK`), so that playback, which works
on the queue without the mutex, never meets one. `ClosedOK` says in which phases
the file is closed; it is what makes `RewriteJournal` and `Restart` harmless.
Three lemmas carry the induction, one for types, one for control, one for the
journal, each with a step per action; three lemmas about sequences, and one
about each operator that changes the file, serve them.

Its second part follows the session IDs, from the same assumption:

- `IDsAreCounted`: `Spec => []Counted`
- `IDsAreFresh`: `Spec => []FreshIDs`
- `HeaderIsAhead`: `Spec => []HeaderAhead`

That a new ID is unused is a statement about every place an ID can be: the
counter must be past the IDs of the connections, of the operation that holds the
mutex (`CurrentID`), of the queue (`QueueIDs`: playback puts selects back into it,
hence `ConnIDs`) and of the file, because opening the file replaces both the queue
and the counter. `HeaderOK` says how header and counter are related in each of the
ways the stream can be: open, with the header written or still buffered (`dirty`);
closed and readable; closed with a kept failure, when the counter in memory wins
over the header. `Counted` needs `IInv`, for the phases in which nobody records.

and what the IDs are for:

- `SessionsKept`: `Spec => []InSessions`
- `SessionsAreWhole`: `Spec => []SessionsWhole`
- `SessionsAreWholeOnDisk`: `Spec => []SessionsWholeOnDisk`

`SessionsWhole` says nothing of what the next entry will be, so the invariant has
four parts. `Journals`: every change in the queue and in the file is in its session
(`Whole`), and no session has two selects (`Once`); a change whose select is gone
needs more than the property asks, namely that the select was played and left a
connection, or was refused and left none. `Awaiting`: a select that waits to be
recorded has an ID below the counter that is not in the queue, and will not be when
a closed file is opened again, which is where `HeaderIsAhead` comes in.
`ClientOK`: a connection with a mailbox selected either has its select waiting or
finds it, open, at the end of the queue; between taking an ID and recording it,
nobody else has that ID. `PlayedOK`: in a playback the queue is the end of the file,
and whatever was played before it had its select before it; that is why
`PlaybackDone` may forget the refusals although the file is still there. The lemmas
follow a sequence of entries through the four ways the code changes it: an entry is
added (`Grown`), the first is taken away (`Shrunk`), a select is put in front of the
first entry of a session (`Widened`, for `Playback_RecoverSelects`), or only its
beginning reaches the file (`Begins`, for a crash).

The third part of `MailRecorder_proofs` is the refinement, and what it is for:

- `JournalIsDurable`: `Spec => JournalSpec`
- `JournalIsKept`: `Spec => JournalSurvives`

Each action of the recorder is matched with one of the log: `StopRecording` with
`Record`, `StartPlayback` with `Begin`, `PlaybackItem` with `Play`, `ClearJournal`
with `Finish`, `PlaybackFailed` with `Fail`, `RecoverSelect` with `Reopen` or a
stutter, `RemoveJournal` with `Erase`, `RewriteJournal` with `Replace`, `Crash` with
`Crash`; the rest change neither the file's items nor the queue being played.
Besides `IInv` that takes `Between`: the queue is empty when a completed playback
deletes the file, the file is empty when a failed one rewrites it, and one
operation adds at most a select and its own entry. The lemmas `ClientWrites` and
`CrashWrites`, that nothing but an operation's entries is ever added to the file,
serve both theorems.

`CalendarSync_proofs` proves, from `CalendarAssumption` only, for any events, both
kinds of server and any number of changes, failures, refusals and crashes:

- `Inductive`: `Spec => []IInv`
- `TypeCorrect`: `Spec => []TypeOK`
- `EditsAreKept`: `Spec => []EditsKept`

`EditsKept` is not inductive: a synchronisation clears the whole recording at its
end, and nothing in the property says that by then everything has been sent. So
the invariant follows each waiting change through it (`Handled`): from the moment
the server has told what changed, it is among the records still to be handled,
among the events changed on both sides, or the one found to be newer here, or it
is the removal that a server without changes is never told about (which is where
it becomes one of `spoilt`). `Order` says which of these sets are empty at which
step, so that nothing is left at the last one. A record must also fit the event
(`Fits`: there is something to send, or it is a removal), because reading the
cache into the calendar may bring back an event; and what is read from the server
must not be what waits (`FetchOK`, which needs `BothOK`: an event changed on both
sides is recorded as changed, and is kept out of what `Scan` removes). In the
cache the same holds of what has been saved (`kept`, in `InCache`), which is what a
restart finds. Three lemmas carry the induction, for `Types`, `Shape` and `Edits`, each
with a step per action.

The rest of the module adds, from the same assumption:

- `TokensInductive`: `Spec => []TokenInv`
- `TokensAreSound`: `Spec => []TokenSound`

A token is right only if every event that has changed on the server up to it has
been read or is waiting to be sent, and a synchronisation keeps its token last, after
any number of requests between which the other client may have changed the event
again. The invariant says this of one event at a time. `Matches` is about the
calendar and its cache at any moment: `Known` is the property itself; `Based` and
`Tagged` say what a record and an entity tag stand for on the server, which is what
lets a report leave out an event that another client has made and removed again;
`ToSendInCache` and `NotTagged` are what a restart needs, when an older cache is read
over a newer calendar. `Traced` follows an event through a synchronisation: what has
not been reported does not differ (`Reported`), what has been reported is among what
will be sent, compared or read (`GetsRead`), until it is as the report has seen it or
has changed since, so that the next report will tell. `Contended` says that an event
changed on both sides is in one list only, that of the conflicts or that of the
winners. It is proved on top of `IInv`, one lemma per action with a step per part.

The proof found one mistake in the model: two guards of the CASE in `RecordAction`
overlapped, which leaves open which one TLC takes; they exclude each other now.

`FullSync_proofs` proves, from the assumption on `FullSync`'s constants only:

- `Inductive`: `Spec => []IInv`
- `TypeCorrect`: `Spec => []TypeOK`
- `OthersAreKept`: `Spec => []OthersKept`
- `EditsAreKept`: `Spec => []EditsKept`

That another client's change is not overwritten needs to know what a tag stands
for: whoever has the server's present tag has read everything the server has
(`Known`, for the calendar in memory, its cache and what a synchronisation has just
read). That holds because tags only grow, and because a refused read leaves the
calendar without a tag, never with that of something it has not read
(`RefusedRead`). A conditional PUT of a calendar with a tag then cannot lose
anything; one under the lock cannot either, because between the comparison under
the lock and the PUT nobody else writes (`LockedPut`). A PUT without a tag is what
`lost` is about. That the user's changes are
kept is a statement about the calendar, its cache and the text about to be written
(`EditsHere`).

`LocalMailbox_proofs` proves, from `LocalMailboxAssumption` only, for any messages
and any number of crashes and failed appends:

- `Inductive`: `Spec => []IInv`
- `DiskIsCurrent`: `Spec => []DiskCurrent`
- `OpensAsItIs`: `Spec => []Opens`

Both properties speak of moments when nothing is being done; the invariant says
what the index has in between. `Complete`: its records, with those still in the
buffer (`AllRecs`), are never more than it counts, are those in memory while the
mailbox is open, and are all it counts in every step of an append that no crash
came before. `Anew`: what a reconstruction is about to write is complete, and is
written to files that are there. `Renames`: the renames left of an expunge say
which of the three files are there, and whether the index is the new one already.
The induction has a lemma per action. Most of the work is in showing that the
sequences which expunge, append and reconstruction make are as long as the headers
written before or after them say (`PickIsListed`, `ReconstructedIsIndex`).

`MailboxFiles_proofs` adds, on top of `IInv` and from the same assumption:

- `FilesInductive`: `Spec => [](IInv /\ FInv)`
- `TypeCorrect`: `Spec => []TypeOK`
- `NothingIsLost`: `Spec => []NothingLost`
- `ViewsAreSound`: `Spec => []ViewSound`

All three say something of the files as a crash leaves them, so the invariant `FInv`
speaks of every step between two writes. `Stored` says where the messages are while
a file is being written or renamed (`Texts`), and that of the record in the buffer
with them, also once the last text is taken off again (`Indexed`). `Moved` relates
each remainder of the renames to the files that are there and are the new ones
already. `Viewed` is the core: `Describes` relates records to the texts and the cache
they were made for, and holds of the index whenever nothing tells that it is not
current, of the records with the one in the buffer during an append, and of the new
files of a reconstruction or an expunge. What it says of an append depends on
`Counted`: when a record was lost in a crash, the header counts more records than
there will ever be, and the index is not read again until it is made anew. `Older`
says at which steps one of the files is newer than the index, or may be, so that a
crash there is noticed or is marked as trusted. Geometry takes half of the module:
the n-th element of what an expunge copies (`PickAt`, `RankOnto`), how much is left
out in front of it (`LeftOutInFront`), and that therefore the offsets it writes are
where the messages have gone (`WithoutDescribes`).

`MailboxUIDs_proofs` adds, again from the same assumption:

- `UIDsInductive`: `Spec => [](IInv /\ FInv /\ UInv)`
- `RecordsAreKept`: `Spec => []RecordsKept`

`RecordsKept` speaks of the open mailbox, but what makes it true there was written
long before, perhaps ahead of a crash. `UInv` says which names are good at every
step. `Numbered`: `LocalUIDNext` on disk, and in the index an expunge is to rename
in, is above every local UID ever given, so the next one is nobody's. `AtRest` and
`AtWork`: the records on disk `Calls` each message by the local UID and the flag it
was given, and no two by the same, also while the record of an append is written and
also when the header counts a record that a crash has lost. `Pending`: the one record
in the buffer has a name that is not in use, or its own message's, whether the append
was reported already (`write` to `cache`) or goes on with the next. `Rebuilt` and
`Expunging`: the same of the index that a reconstruction writes or an expunge renames
in, and of the old one as long as it is the one in place. What a recovery does rests
on `Shows`: the cache has the text of each record, or is blank where the append did
not get to it, or is the one that another reconstruction has written. So the record a
recovery finds for the n-th occurrence of a text was made for that text
(`RecoveredCalls`; `DenseStarts` when the cache is the new one), and no two messages
are given the same record (`OccursOnce`). Two messages of the same text are not told
apart, by the code or by the property. `CrashedAppend` shows that a crash in the
middle of an append leaves `Shows` true of the records that got to the disk.

The proof of `RecordsKept` found that it had been stated too strongly: with four
faults TLC shows a mailbox file lost between two renames, an old index the user goes
on with, another text in the place of the lost one, and a reconstruction that
recovers the local UID of the lost message for it. The property now begins again
after such an index has been used (`astray`).

`OfflineMail_proofs` proves, from `OfflineAssumption` only, for any mailboxes,
messages and selections and journals of any length:

- `OfflineTypes`: `OfflineSpec => []OfflineTypeOK`
- `JournalIsRecorded`: `OfflineSpec => []Recording`
- `CompactedIsClosed`: `OfflineSpec => []SessionsClosed`

The assumption says what the definitions need of the constants: local UIDs are
positive numbers, session IDs the numbers up to `MaxID`, `NoMbox` is no mailbox,
the mailboxes and the messages there at first are finitely many. `SessionsClosed` is a statement about
what five passes make of a journal, so it takes two arguments. The first is about
what is recorded: `Recording` is inductive and says that in its session a Select is
the first entry and that only appends are behind a Deselect (`InOrder`), that what
needs a Select has one, and, of each connection, that its session is still open or its select still
waits (`OwnSession`, `StillPending`, `KnownSession`). The second is about the
passes: `CompactMissing` finds nothing missing in such a journal
(`NothingMissing`), `CompactUnterminated` makes it `Tidy`, each session with a
Select and a Deselect, and `CompactMultiple`, `CompactExpunge` and `CompactFlags`
keep it so. The passes are folds over the places of the queue. `FoldTurns` says
that there is a function that gives the result of a fold after each turn, so that a
lemma per pass has an invariant of its loop (`SelectsKnown`, `Closing`) and a step
per turn, and `Upwards` goes from the first turn to the last. These passes change
the sequence they walk, by up to two entries per turn: the geometry of that is in
`Removed`, `PutLast` and their like.

`MailPlayback_proofs` proves, from the same assumptions:

- `PlaybackTypes`: `Spec => []TypeOK`
- `PlaybackSpends`: `Spec => EffortSpent`
- `RecoveredIsClosed`: `Spec => []RecoveredClosed`

`TypeOK` is inductive by itself, and yet says something: every entry that the
playback puts back, renames or keeps is one the rest of the code can read, with a
mailbox, a message or a flag where its kind needs it (`CMailAction`), through
recordings, five passes, removals and recoveries of journals of any length.
`Effort` counts two tries for each entry that is left and takes off the one that is
under way. `EffortSpent` is what makes a playback end: with the weak fairness of
`PlayStep` it gives `PlaybackEnds`, because `Effort` is a number that cannot fall for
ever. The step that needs an argument is a Select whose mailbox is missing or another:
`Playback_RemoveActions` walks a queue it is removing entries from, and restores
and renames some of them; the lemmas `Removing` and `Shorter` say that it never leaves
more than there was, and that the Select itself goes.

`RecoveredClosed` is about journals that no user has recorded as they are: what is
left when a playback fails, with the selects it puts back. The invariant
`PlayRecording` says that between playbacks the journal is a `Recording` and nothing
is connected, and during one, `Replay`: the queue is in order, and whatever needs a
session has its Select in the queue or a connection that is open, whose session has
no Select in the queue. Playing an entry moves the session from the one to the other
(`PlayedReplay`, `After`), removing the expunges or the entries of a mailbox that is
missing does not take a Select from the rest of its session (`RemoveSessionReplay`,
`RemoveActionsReplay`, again an invariant of a loop that changes what it walks), and
`RecoverSelectsRecorded` closes the circle: with a Select for each open connection, the queue
is one that could have been recorded. Since that holds whatever was played before, the
user may go on recording behind it (`KnownSession`: no
entry has an ID the counter has yet to give). With a refusal it does not hold:
TLC shows that after a refused Select the rest of its session is written back
without one. The property says so.

Only model-checked: `CompactionFaithful`, which compares the effects of two journals
on a whole world and would need the passes to commute with `PlayEntry` entry by
entry; `ContentKept` and `Synchronised` of `MailPlayback`, which rest on the same;
`PlaybackEnds` and both `Converges`, because they are liveness.

## 5. Plan

In this order:

1. The rest of calendars: sync tokens the server rejects, copying and creating
   calendars, calendars that are only read, the user's changes in the middle of a
   synchronisation.
2. `UIDSequence`: `CSequence`'s text as a loop with an invariant, proved to name
   exactly the numbers of its list, and its parser checked against it.
3. `SyncRemote`: the comparison of two message lists and their flags.
4. The local mailbox: its composition with the journal, as the record follows the
   local change and a crash may come between; the list of mailboxes.
5. `CMbox::ExpungeMessage` without UIDPLUS, with another client on the server.
6. `cdmutex` and the read/write lock on it, `CTaskQueue`, the SMTP queue, the
   connection manager, POP3, the calendar and address book journals.
7. A progress property of the journal: that a server which stops refusing lets it
   be played to its end (it does not, after a refused Select); that each pass
   of the compaction commutes with the effect of the entries it moves.

Not planned: user interface, text formats, network streams, vendored libraries.
