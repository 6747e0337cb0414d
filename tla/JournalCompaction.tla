-------------------------- MODULE JournalCompaction --------------------------
(***************************************************************************)
(* CMailRecord::CompactPlayback: what happens to the queue of a journal    *)
(* before it is played.  Five passes put back selects that are missing,    *)
(* close sessions that were left open, join sessions of one mailbox, gather*)
(* the expunges of a session in its last one and merge flag changes.       *)
(*                                                                         *)
(* The sorted vectors of UIDs are sets.  The entry's fields are those of   *)
(* CMailAction, whatever the kind of action:                               *)
(*   act, id      the kind and the session                                 *)
(*   mbox         mailbox: of Create, Delete, Rename (the old name),       *)
(*                Select, Deselect; the target of Append and Copy          *)
(*   to           the new name of a Rename                                 *)
(*   uids, luids  messages by server UID and by local UID                  *)
(*   flag, set    the flag a Flag action sets or clears                    *)
(*   as           the local UID a Copy or Append gave its new message      *)
(***************************************************************************)
EXTENDS Integers, Sequences, FiniteSets, SequencesExt

NeedsSelect == {"Flag", "Copy", "Expunge"}

Blank == [act |-> "None", id |-> 0, mbox |-> "none", to |-> "none",
          uids |-> {}, luids |-> {}, flag |-> "none", set |-> FALSE, as |-> 0]

Session(act, a) == [Blank EXCEPT !.act = act, !.id = a.id, !.mbox = a.mbox]

(* The later entries of the session of entry k.                            *)
LaterInSession(q, k) == {j \in k + 1 .. Len(q) : q[j].id = q[k].id}

Ends(q, k) == {j \in LaterInSession(q, k) : q[j].act = "Deselect"}

-----------------------------------------------------------------------------
(* A message action without a Select before it in its session gets one,    *)
(* made from the Deselect behind it; without that one either, it is        *)
(* dropped.                                                                *)
CheckSelect(q, acc, k) ==
    LET a    == q[k]
        bare == a.act \in NeedsSelect /\ a.id \notin acc.selects
    IN  CASE bare /\ Ends(q, k) = {} ->
               acc
          [] bare /\ Ends(q, k) # {} ->
               [out     |-> acc.out \o <<Session("Select", q[Min(Ends(q, k))]), a>>,
                selects |-> acc.selects \cup {a.id}]
          [] OTHER ->
               [out     |-> Append(acc.out, a),
                selects |-> CASE a.act = "Select"   -> acc.selects \cup {a.id}
                              [] a.act = "Deselect" -> acc.selects \ {a.id}
                              [] OTHER              -> acc.selects]

CompactMissing(q) ==
    FoldLeftDomain(LAMBDA acc, k : CheckSelect(q, acc, k),
                   [out |-> << >>, selects |-> {}], q).out

(* Faulty: the pass is left out.                                           *)
CompactUnterminatedNot(q) == q

(* A Select without a Deselect behind it gets one after the last entry of  *)
(* its session, or goes if the session has no other entry.                 *)
Unterminated(q, k) == q[k].act = "Select" /\ Ends(q, k) = {}

Opened(q, k) == {j \in 1..k - 1 : q[j].id = q[k].id /\ Unterminated(q, j)}

CheckDeselect(q, out, k) ==
    IF LaterInSession(q, k) # {} THEN Append(out, q[k])
    ELSE IF Opened(q, k) # {}
         THEN out \o <<q[k], Session("Deselect", q[Min(Opened(q, k))])>>
         ELSE IF Unterminated(q, k) THEN out ELSE Append(out, q[k])

CompactUnterminated(q) ==
    FoldLeftDomain(LAMBDA out, k : CheckDeselect(q, out, k), << >>, q)

(* From the Deselect at i, look for a Select of the same mailbox, counting *)
(* the selects on the way (CompactMultiple's inner loop, which a third     *)
(* select in progress breaks).                                             *)
SeekReselect(q, i, acc, j) ==
    IF j <= i \/ acc.over THEN acc
    ELSE CASE q[j].act = "Select" /\ q[j].mbox = q[i].mbox ->
                [acc EXCEPT !.at = j, !.over = TRUE]
           [] q[j].act = "Select" /\ q[j].mbox # q[i].mbox ->
                [acc EXCEPT !.total = @ + 1, !.over = acc.total + 1 > 2]
           [] q[j].act = "Deselect" ->
                [acc EXCEPT !.total = @ - 1]
           [] OTHER ->
                acc

FindReselect(q, i, total) ==
    FoldLeftDomain(LAMBDA acc, j : SeekReselect(q, i, acc, j),
                   [at |-> 0, total |-> total, over |-> FALSE], q)

(* The session selected at j goes on under the ID deselected at i.         *)
JoinSessions(q, i, j) ==
    LET renamed == [k \in DOMAIN q |->
                      IF k >= j /\ q[k].id = q[j].id
                      THEN [q[k] EXCEPT !.id = q[i].id] ELSE q[k]]
    IN  RemoveAt(RemoveAt(renamed, j), i)

(* One turn of the loop: on to the next entry, or two entries are gone. As *)
(* many turns as there are entries are enough.                             *)
JoinNext(s) ==
    LET q == s.queue
        found == FindReselect(q, s.i, s.total - 1)
    IN  CASE s.i > Len(q) -> s
          [] s.i <= Len(q) /\ q[s.i].act = "Select" ->
               [s EXCEPT !.i = @ + 1, !.total = @ + 1]
          [] s.i <= Len(q) /\ q[s.i].act = "Deselect" ->
               IF found.at = 0
               THEN [s EXCEPT !.i = @ + 1, !.total = found.total]
               ELSE [s EXCEPT !.queue = JoinSessions(q, s.i, found.at),
                              !.total = found.total]
          [] OTHER -> [s EXCEPT !.i = @ + 1]

CompactMultiple(q) ==
    FoldLeftDomain(LAMBDA s, k : JoinNext(s),
                   [queue |-> q, i |-> 1, total |-> 0], q).queue

(* Faulty: they go into its first Expunge.                                 *)
CompactExpungeFirst(q) ==
    [k \in DOMAIN q |->
        IF q[k].act # "Expunge" THEN q[k]
        ELSE LET all == {j \in DOMAIN q : q[j].act = "Expunge" /\ q[j].id = q[k].id}
                 keep == IF k = Min(all) THEN all ELSE {}
             IN  [q[k] EXCEPT !.uids  = UNION {q[j].uids : j \in keep},
                              !.luids = UNION {q[j].luids : j \in keep}]]

(* All the UIDs a session expunges go into its last Expunge.               *)
CompactExpunge(q) ==
    [k \in DOMAIN q |->
        IF q[k].act # "Expunge" THEN q[k]
        ELSE LET all == {j \in DOMAIN q : q[j].act = "Expunge" /\ q[j].id = q[k].id}
                 keep == IF k = Max(all) THEN all ELSE {}
             IN  [q[k] EXCEPT !.uids  = UNION {q[j].uids : j \in keep},
                              !.luids = UNION {q[j].luids : j \in keep}]]

-----------------------------------------------------------------------------
(* Merging flag changes.  A flag change moves up or down past the entries  *)
(* of its session until it meets one it can be merged with, or must stop.  *)

Touches(a, b) == a.uids \cap b.uids # {} \/ a.luids \cap b.luids # {}
NoUIDs(a)     == a.uids = {} /\ a.luids = {}

SameFlagAction(a, b) ==
    b.act = "Flag" /\ a.flag = b.flag /\ a.set = b.set /\ ~NoUIDs(b)

(* Faulty: a change of one flag moves past the opposite change.            *)
MustStopNotAtOpposite(a, b) ==
    /\ a.id = b.id
    /\ \/ NoUIDs(a)
       \/ SameFlagAction(a, b)
       \/ b.act = "Copy" /\ Touches(a, b)
       \/ b.act = "Append" /\ b.as \in a.luids
       \/ b.act = "Expunge" /\ a.flag = "Deleted"

(* CanActionMove, but for the merge itself.                                *)
MustStop(a, b) ==
    /\ a.id = b.id
    /\ \/ NoUIDs(a)
       \/ SameFlagAction(a, b)
       \/ /\ b.act = "Flag"
          /\ a.flag = b.flag /\ a.set # b.set
          /\ Touches(a, b)
       \/ b.act = "Copy" /\ Touches(a, b)
       \/ b.act = "Append" /\ b.as \in a.luids
       \/ b.act = "Expunge" /\ a.flag = "Deleted"

TransferUIDs(q, from, to) ==
    [q EXCEPT ![from].uids = {}, ![from].luids = {},
              ![to].uids  = @ \cup q[from].uids,
              ![to].luids = @ \cup q[from].luids]

(* Move the flag change at k towards stop, exclusive, one entry at a time. *)
MoveFlags(q, k, stop) ==
    LET path == IF stop < k THEN stop + 1 .. k - 1 ELSE k + 1 .. stop - 1
        met  == {j \in path : MustStop(q[k], q[j])}
        at   == IF stop < k THEN Max(met) ELSE Min(met)
    IN  IF met = {} \/ NoUIDs(q[k]) \/ ~SameFlagAction(q[k], q[at]) THEN q
        ELSE TransferUIDs(q, k, at)

(* The flag changes of the session selected at s, which ends at e: first   *)
(* those without local UIDs rise, then all sink.                           *)
FlagOf(p, k, s, e) == s < k /\ k < e /\ p[k].id = p[s].id /\ p[k].act = "Flag"

Rise(p, k, s, e) ==
    IF FlagOf(p, k, s, e) /\ p[k].luids = {} THEN MoveFlags(p, k, s) ELSE p

Sink(p, k, s, e) == IF FlagOf(p, k, s, e) THEN MoveFlags(p, k, e) ELSE p

MergeFlags(q, s) ==
    LET e     == IF Ends(q, s) = {} THEN Len(q) + 1 ELSE Min(Ends(q, s))
        risen == FoldLeft(LAMBDA p, k : Rise(p, k, s, e),
                          q, [k \in DOMAIN q |-> k])
    IN  FoldLeft(LAMBDA p, k : Sink(p, k, s, e),
                 risen, [k \in DOMAIN q |-> Len(q) + 1 - k])

CompactFlags(q) ==
    FoldLeftDomain(LAMBDA p, s : IF q[s].act = "Select" THEN MergeFlags(p, s) ELSE p,
                   q, q)

-----------------------------------------------------------------------------
CompactPlayback(q) ==
    CompactFlags(CompactExpunge(CompactMultiple(CompactUnterminated(
        CompactMissing(q)))))
=============================================================================
