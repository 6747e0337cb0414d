---------------------------- MODULE JournalEffect ----------------------------
(***************************************************************************)
(* What playing one entry of the journal does: the Playback_ functions of  *)
(* CMailRecord, when the server carries out what it is asked.              *)
(*                                                                         *)
(* A message is named by the local UID it had in the journal; the server   *)
(* UID of the same message is known when the message is in "mapped".       *)
(* Names and mailboxes are told apart, because a mailbox that is renamed   *)
(* or deleted leaves its name to another one.                              *)
(***************************************************************************)
EXTENDS JournalCompaction

CONSTANTS
    Mailboxes,   \* names of mailboxes
    Msgs,        \* messages: numbers from 1
    SessionIDs,  \* session IDs, 0 (no session) included
    NoMbox

NoConn  == [box |-> 0, mbox |-> NoMbox]
NoLocal == -1

(* The world a journal is played in:                                       *)
(*   names    name -> mailbox on the server, 0 when there is none          *)
(*   fresh    the next mailbox to be made                                  *)
(*   local    name -> the mailbox on the server the local one stands for   *)
(*            (its UIDVALIDITY), 0 if it has never met one, or NoLocal      *)
(*   conns    mConns: session -> mailbox on the server, and its name       *)
(*   at       message -> mailbox on the server that holds it, 0 for none   *)
(*   flags    message -> its flags on the server                           *)
(*   mapped   messages whose server UID the local index knows              *)
(*   lat      message -> local mailbox that holds it (by now)              *)

Connected(w, id) == w.conns[id].box # 0

(* RemapUIDs: the server UIDs, and those the local UIDs map to in the      *)
(* local mailbox of the connection.                                        *)
Mapped(w, id, m) == m \in w.mapped /\ w.lat[m] = w.conns[id].mbox
Remote(w, a)     == a.uids \cup {m \in a.luids : Mapped(w, a.id, m)}

(* Those of them the server finds in the mailbox of the connection.  When  *)
(* there is a UID 0 among them, the largest is sent as the start of a range*)
(* without end, unless it is the end of a range (CSequence): the messages  *)
(* that came after it are meant too.                                       *)
Found(w, a) ==
    LET sent == Remote(w, a)
        last == Max(sent)
        meant(m) == \/ m \in sent
                    \/ 0 \in sent /\ m > last /\ (last = 0 \/ last - 1 \notin sent \ {0})
    IN  {m \in Msgs : w.at[m] # 0 /\ w.at[m] = w.conns[a.id].box /\ meant(m)}

PlayFlag(w, a) ==
    [w EXCEPT !.flags = [m \in Msgs |->
        IF m \notin Found(w, a) THEN w.flags[m]
        ELSE IF a.set THEN w.flags[m] \cup {a.flag} ELSE w.flags[m] \ {a.flag}]]

(* A UID EXPUNGE takes the messages that are marked as deleted.            *)
PlayExpunge(w, a) ==
    [w EXCEPT !.at = [m \in Msgs |->
        IF m \in Found(w, a) /\ "Deleted" \in w.flags[m] THEN 0 ELSE w.at[m]]]

(* Faulty: the local index does not learn the new UID.                     *)
ArriveUnmapped(w, m, b, flags) ==
    IF w.names[b] = 0 THEN w ELSE
    [w EXCEPT !.at[m] = w.names[b], !.flags[m] = flags]

(* Message m arrives in the mailbox named b, if there is one, and the local*)
(* index learns its UID if the message is still there.                     *)
Arrive(w, m, b, flags) ==
    IF w.names[b] = 0 THEN w ELSE
    [w EXCEPT !.at[m] = w.names[b],
              !.flags[m] = flags,
              !.mapped = IF w.lat[m] = b THEN @ \cup {m} ELSE @]

(* Copy on the server, or append the local copy when the source has no     *)
(* server UID (Playback_CopyToFull, Playback_CopyToPartial).               *)
PlayCopy(w, a) ==
    LET found == Found(w, a)
    IN  IF Remote(w, a) # {}
        THEN IF found = {} THEN w
             ELSE Arrive(w, a.as, a.mbox, w.flags[CHOOSE m \in found : TRUE])
        ELSE IF w.lat[a.as] = a.mbox THEN Arrive(w, a.as, a.mbox, {}) ELSE w

(* Append to the mailbox of the session's connection, if there is one,     *)
(* whatever mailbox the action names; the message is looked for in the     *)
(* local mailbox of that connection.                                       *)
PlayAppend(w, a) ==
    LET target == IF Connected(w, a.id) THEN w.conns[a.id].mbox ELSE a.mbox
    IN  IF w.lat[a.as] = target THEN Arrive(w, a.as, target, {}) ELSE w

PlayCreate(w, a) ==
    IF w.names[a.mbox] # 0 THEN w
    ELSE [w EXCEPT !.names[a.mbox] = w.fresh, !.fresh = @ + 1]

PlayDelete(w, a) ==
    [w EXCEPT !.names[a.mbox] = 0,
              !.at = [m \in Msgs |->
                        IF w.at[m] = w.names[a.mbox] THEN 0 ELSE w.at[m]]]

PlayRename(w, a) ==
    IF w.names[a.to] # 0 THEN w
    ELSE [w EXCEPT !.names[a.mbox] = 0, !.names[a.to] = w.names[a.mbox]]

(* The local mailbox is missing or stands for another mailbox.             *)
Mismatch(w, b) == w.local[b] \notin {0, w.names[b]}

(* Select on the server; the local mailbox takes over its UIDVALIDITY, and *)
(* on a mismatch it loses the messages that have a server UID.             *)
PlaySelect(w, a) ==
    [w EXCEPT !.conns[a.id] = [box |-> w.names[a.mbox], mbox |-> a.mbox],
              !.local[a.mbox] = IF @ = NoLocal THEN @ ELSE w.names[a.mbox],
              !.lat = [m \in Msgs |->
                         IF Mismatch(w, a.mbox) /\ @[m] = a.mbox /\ m \in w.mapped
                         THEN NoMbox ELSE @[m]]]

PlayDeselect(w, a) == [w EXCEPT !.conns[a.id] = NoConn]

PlayEntry(w, a) ==
    CASE a.act = "Create"   -> PlayCreate(w, a)
      [] a.act = "Delete"   -> PlayDelete(w, a)
      [] a.act = "Rename"   -> PlayRename(w, a)
      [] a.act = "Select"   -> PlaySelect(w, a)
      [] a.act = "Deselect" -> PlayDeselect(w, a)
      [] a.act = "Flag"     -> PlayFlag(w, a)
      [] a.act = "Copy"     -> PlayCopy(w, a)
      [] a.act = "Append"   -> PlayAppend(w, a)
      [] a.act = "Expunge"  -> PlayExpunge(w, a)

PlayAll(w, q) == FoldLeft(PlayEntry, w, q)
=============================================================================
