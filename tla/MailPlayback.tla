----------------------------- MODULE MailPlayback -----------------------------
(***************************************************************************)
(* Playing the journal of an account back to its server: the loop of       *)
(* CMailRecord::Playback, what it does about the errors it meets, and the  *)
(* journal it leaves behind when it has to give up.                        *)
(***************************************************************************)
EXTENDS OfflineMail

CONSTANT MaxPlaybacks  \* bound on how often playback is started

ASSUME PlaybacksAssumption == MaxPlaybacks \in Nat

VARIABLES
    playbacks, \* how often playback has been started
    queue,    \* the journal in memory, compacted, while it is played
    attempts, \* failed attempts at the first entry
    faults    \* auxiliary: "refused", the server refused some entry;
              \*   "earlier", it did so in an earlier playback, which failed;
              \*   "replayed", a journal that was partly played is played anew

playVars == <<playbacks, queue, attempts, faults>>
vars == <<phase, clientVars, recordVars, mailVars, playVars>>

Init ==
    /\ OfflineInit
    /\ playbacks = 0
    /\ queue = << >>
    /\ attempts = 0
    /\ faults = {}

-----------------------------------------------------------------------------
(* DoPlayback: read the journal, compact it, log on.                       *)
StartPlayback ==
    /\ phase = "offline"
    /\ playbacks < MaxPlaybacks
    /\ playbacks' = playbacks + 1
    /\ phase' = "playing"
    /\ queue' = CompactPlayback(actions)
    /\ attempts' = 0
    /\ faults' = faults \cup (IF "refused" \in faults THEN {"earlier"} ELSE {})
    /\ UNCHANGED <<clientVars, recordVars, mailVars>>

Item == Head(queue)

(* A message action finds its mailbox through the connection of its        *)
(* session, and throws at once when there is none.                         *)
Unconnected == Item.act \in NeedsSelect /\ ~Connected(world, Item.id)

(* The entry sends something to the server.                                *)
Sends ==
    CASE Item.act = "Deselect" -> FALSE
      [] Item.act \in {"Flag", "Expunge"} -> Remote(world, Item) # {}
      [] OTHER -> TRUE

(* The server can do it.                                                   *)
Feasible ==
    CASE Item.act \in {"Select", "Delete", "Copy"} -> world.names[Item.mbox] # 0
      [] Item.act = "Append" ->
           world.names[IF Connected(world, Item.id)
                       THEN world.conns[Item.id].mbox ELSE Item.mbox] # 0
      [] Item.act = "Create" -> world.names[Item.mbox] = 0
      [] Item.act = "Rename" -> world.names[Item.mbox] # 0 /\ world.names[Item.to] = 0
      [] OTHER -> TRUE

-----------------------------------------------------------------------------
(* Entries taken out of the queue.                                         *)
Without(q, S) ==
    FoldLeftDomain(LAMBDA out, k : IF k \in S THEN out ELSE Append(out, q[k]),
                   << >>, q)

(* Faulty: only in sessions that are still to be selected.                 *)
RemoveExpungeActionsAhead(q, b, id) ==
    Without(q, {k \in 2..Len(q) :
        /\ q[k].act = "Expunge"
        /\ \E j \in 2..k - 1 : /\ q[j].act = "Select" /\ q[j].mbox = b
                               /\ q[j].id = q[k].id})

(* Playback_RemoveExpungeActions: of what is behind the first entry, the   *)
(* expunges of session id and of the sessions of mailbox b.                *)
RemoveExpungeActions(q, b, id) ==
    Without(q, {k \in 2..Len(q) :
        /\ q[k].act = "Expunge"
        /\ \/ q[k].id = id
           \/ \E j \in 2..k - 1 : /\ q[j].act = "Select" /\ q[j].mbox = b
                                  /\ q[j].id = q[k].id})

(* The session selected at i, for Playback_RemoveActions: its changes to   *)
(* messages on the server go, its appends stay, and its Select and Deselect*)
(* stay if anything else does or if it is the one being played.            *)
KeepLocal(q, i, acc, k) ==
    IF k <= i \/ q[k].id # q[i].id
    THEN [acc EXCEPT !.out = Append(@, q[k])]
    ELSE IF \/ q[k].act = "Append"
            \/ q[k].act = "Deselect" /\ (acc.remaining \/ i = 1)
            \/ q[k].act \in NeedsSelect /\ q[k].luids # {}
         THEN [out |-> Append(acc.out, [q[k] EXCEPT !.uids = {}]), remaining |-> TRUE]
         ELSE acc

RemoveSession(q, i) ==
    LET done == FoldLeftDomain(LAMBDA acc, k : KeepLocal(q, i, acc, k),
                               [out |-> << >>, remaining |-> i = 1], q)
    IN  IF done.remaining THEN [queue |-> done.out, i |-> i + 1]
                          ELSE [queue |-> RemoveAt(done.out, i), i |-> i]

(* Playback_RemoveActions, when local mailbox b is missing or another one. *)
(* Each turn goes on to the next entry or takes out the one it is at.      *)
RemoveNext(b) ==
    [s \in [queue : Seq(CMailAction), i : Nat] |->
        LET q == s.queue
            a == q[s.i]
        IN  CASE s.i > Len(q) -> s
              [] s.i <= Len(q) /\ a.act = "Select" /\ a.mbox = b ->
                   RemoveSession(q, s.i)
              [] s.i \in 2..Len(q) /\ a.act \in {"Create", "Delete", "Rename"}
                                   /\ a.mbox = b ->
                   [s EXCEPT !.queue = RemoveAt(q, s.i)]
              [] OTHER -> [s EXCEPT !.i = @ + 1]]

RemoveActions(q, b) ==
    FoldLeftDomain(LAMBDA s, k : RemoveNext(b)[s], [queue |-> q, i |-> 1], q).queue

(* Faulty: behind the first of its entries.                                *)
RecoverBehind(conns, q, id) ==
    LET mine == {k \in DOMAIN q : q[k].id = id}
    IN  IF conns[id] = NoConn \/ mine = {} THEN q
        ELSE IF q[Min(mine)].act = "Select" THEN q
        ELSE InsertAt(q, Min(mine) + 1, [Blank EXCEPT !.act = "Select", !.id = id,
                                             !.mbox = conns[id].mbox])

(* Playback_RecoverSelects: a session whose connection is open gets a new  *)
(* Select before the first of its entries that are left.                   *)
Recover(conns, q, id) ==
    LET mine == {k \in DOMAIN q : q[k].id = id}
    IN  IF conns[id] = NoConn \/ mine = {} THEN q
        ELSE IF q[Min(mine)].act = "Select" THEN q
        ELSE InsertAt(q, Min(mine), [Blank EXCEPT !.act = "Select", !.id = id,
                                         !.mbox = conns[id].mbox])

RecoverSelects(q, conns) ==
    FoldLeft(LAMBDA p, id : Recover(conns, p, id), q, [id \in 1..MaxID |-> id])

-----------------------------------------------------------------------------
Closed == [i \in SessionIDs |-> NoConn]

(* Nothing is selected any more, and no select is pending.                 *)
Forget ==
    /\ mCurrent_mbox' = [c \in Clients |-> NoMbox]
    /\ mPendingSelect' = [i \in SessionIDs |-> NoMbox]

(* Playback gives up: it recovers the selects and writes the journal anew. *)
(* The account's own connection may have been made to let go of what it had*)
(* selected, when that was opened for the playback.                        *)
GiveUp(w) ==
    /\ actions' = RecoverSelects(queue, w.conns)
    /\ world' = [w EXCEPT !.conns = Closed]
    /\ phase' = "offline"
    /\ queue' = << >>
    /\ attempts' = 0
    /\ Forget
    /\ mRecordID' \in {mRecordID, [mRecordID EXCEPT ![Main] = 0]}
    /\ UNCHANGED <<mNextID, lflags, nextMsg, origin, odd>>

Done(q, w) ==
    /\ queue' = q
    /\ world' = w
    /\ attempts' = 0
    /\ UNCHANGED <<phase, clientVars, recordVars, lflags, nextMsg, origin, odd>>

Playing == phase = "playing" /\ queue # << >>

(* The entry is played.                                                    *)
PlayItem ==
    /\ Playing
    /\ ~Unconnected /\ Feasible
    /\ LET missing == Item.act = "Select" /\ Mismatch(world, Item.mbox)
       IN  Done(Tail(IF missing THEN RemoveActions(queue, Item.mbox) ELSE queue),
                PlayEntry(world, Item))
    /\ UNCHANGED <<playbacks, faults>>

(* The server answers NO or BAD, or the answer is none: not fatal, but the *)
(* expunges that wait for the mailbox are taken back.  An append outside a *)
(* session has no connection to look up, and that is fatal.                *)
ItemRefused ==
    /\ Playing
    /\ ~Unconnected /\ Sends
    /\ faults' = faults \cup {"refused"}
    /\ UNCHANGED playbacks
    /\ CASE Item.act \notin NeedsSelect \cup {"Append"} ->
              Done(Tail(queue), world)
         [] Item.act \in NeedsSelect \cup {"Append"} /\ Connected(world, Item.id) ->
              Done(Tail(RemoveExpungeActions(queue, world.conns[Item.id].mbox,
                                             Item.id)), world)
         [] OTHER -> GiveUp(world)

(* What may have been done when the answer does not arrive: nothing, or    *)
(* all of it but for what the local index learns from the answer.          *)
Unanswered ==
    {world} \cup (IF Item.act \notin {"Select", "Deselect"} /\ ~Unconnected /\ Feasible
                  THEN {[PlayEntry(world, Item) EXCEPT !.mapped = world.mapped]}
                  ELSE {})

Again(w) ==
    /\ world' = w
    /\ UNCHANGED <<phase, clientVars, recordVars, lflags, nextMsg, origin, odd,
                   queue>>

(* Faulty: one attempt too many.                                           *)
ItemRetriedTwice ==
    /\ Playing
    /\ ~Unconnected /\ Sends
    /\ \E w \in Unanswered :
         IF attempts <= 1 THEN attempts' = attempts + 1 /\ Again(w)
                          ELSE GiveUp(w)
    /\ UNCHANGED <<playbacks, faults>>

(* Faulty: after the second attempt the count starts anew.                 *)
ItemRetriedForever ==
    /\ Playing
    /\ ~Unconnected /\ Sends
    /\ \E w \in Unanswered : attempts' = (attempts + 1) % 2 /\ Again(w)
    /\ UNCHANGED <<playbacks, faults>>

(* Another network error, the connection is still up: once more.           *)
ItemRetried ==
    /\ Playing
    /\ ~Unconnected /\ Sends
    /\ \E w \in Unanswered :
         IF attempts = 0 THEN attempts' = 1 /\ Again(w) ELSE GiveUp(w)
    /\ UNCHANGED <<playbacks, faults>>

(* The connection is lost, or the session of the entry is not connected.   *)
ItemFails ==
    /\ Playing
    /\ Unconnected \/ Sends
    /\ \E w \in Unanswered : GiveUp(w)
    /\ UNCHANGED <<playbacks, faults>>

(* All is played: the journal is cleared, the account is online.           *)
PlaybackDone ==
    /\ phase = "playing"
    /\ queue = << >>
    /\ phase' = "online"
    /\ actions' = << >>
    /\ mNextID' = 1
    /\ mRecordID' = [c \in Clients |-> 0]
    /\ world' = [world EXCEPT !.conns = Closed]
    /\ Forget
    /\ UNCHANGED <<lflags, nextMsg, origin, odd, playVars>>

(* The process dies and starts again; the journal is as it was when        *)
(* playback began.                                                         *)
Restart ==
    /\ phase \in {"offline", "playing"}
    /\ phase' = "offline"
    /\ queue' = << >>
    /\ attempts' = 0
    /\ world' = [world EXCEPT !.conns = Closed]
    /\ mRecordID' = [c \in Clients |-> 0]
    /\ Forget
    /\ faults' = faults \cup (IF phase = "playing" THEN {"replayed"} ELSE {})
    /\ UNCHANGED <<playbacks, actions, mNextID, lflags, nextMsg, origin, odd>>

PlayStep ==
    PlayItem \/ ItemRefused \/ ItemRetried \/ ItemFails \/ PlaybackDone

Next ==
    \/ OfflineNext /\ UNCHANGED playVars
    \/ StartPlayback
    \/ PlayStep
    \/ Restart

Spec == Init /\ [][Next]_vars

(* Playback is a loop of its thread: it goes on as long as it can.         *)
FairSpec == Spec /\ WF_vars(PlayStep)

-----------------------------------------------------------------------------
TypeOK ==
    /\ OfflineTypeOK
    /\ playbacks \in 0..MaxPlaybacks
    /\ queue \in Seq(CMailAction)
    /\ attempts \in {0, 1}
    /\ faults \subseteq {"refused", "earlier", "replayed"}

(* A text the user still has is nowhere lost: whatever the server refuses, *)
(* whichever answer does not arrive and wherever the process dies, a text  *)
(* that was on the server stays there as long as the user has it locally   *)
(* (RecoverNonfatal takes pending expunges back for this).  An exception is*)
(* what the user expunges after a playback that failed, when an earlier one*)
(* has forgotten a refused copy; and a Delete in the journal, which goes by*)
(* the name of a mailbox, is not in the runs that check this.              *)
ContentKept ==
    \A m \in Msgs :
      origin[m] \in StartMsgs /\ world.lat[m] # NoMbox /\ "earlier" \notin faults =>
        \E n \in Msgs : origin[n] = origin[m] /\ world.at[n] # 0

(* The server has what the user has.                                       *)
SameMailboxes == \A b \in Mailboxes : world.names[b] # 0 <=> b \in LocalNames
SameMessages ==
    \A m \in Msgs :
        IF world.lat[m] = NoMbox THEN world.at[m] = 0
        ELSE /\ world.at[m] = world.names[world.lat[m]]
             /\ world.flags[m] = lflags[m]

Undisturbed == phase = "online" /\ faults = {}

(* When a playback is complete that met nothing but unanswered commands and*)
(* lost connections, the server has what the user has: every message in its*)
(* mailbox and with its flags (CMailRecord::Playback, over all the retries *)
(* and rewritten journals on the way).                                     *)
Synchronised == Undisturbed /\ odd = {} => SameMailboxes /\ SameMessages

(* The same when a selection mixed messages that have a server UID with    *)
(* messages that have none (PurgeUIDs).                                    *)
SelectionsSynchronised == Undisturbed /\ odd \subseteq {"mixed"} => SameMessages

(* A journal that a playback gave up and wrote anew compacts to closed     *)
(* sessions again, over any number of failed playbacks and with what the   *)
(* user has recorded behind it (Playback_RecoverSelects has to give every  *)
(* session that was under way its select back, before its first entry).    *)
(* Once the server has refused an entry this need not be: the session of a *)
(* refused Select is left without one.                                     *)
RecoveredClosed == "refused" \notin faults => SessionsClosed

(* What is left of the effort: two attempts for each entry.                *)
Effort == 2 * Len(queue) + 1 - attempts

(* Every step of a playback that goes on spends some of it, whatever the   *)
(* server answers and whatever is taken out of the queue on the way: no    *)
(* playback takes more than two steps for each entry of the compacted      *)
(* journal (the attempts counted in CMailRecord::Playback, and all that    *)
(* its Playback_ functions do to the rest of the queue).                   *)
EffortSpent ==
    [][phase = "playing" /\ phase' = "playing" => Effort' < Effort]_vars

(* Playback comes to an end, whatever the server answers: no entry is      *)
(* played again and again (the attempts counted in CMailRecord::Playback). *)
PlaybackEnds == phase = "playing" ~> phase # "playing"
=============================================================================
