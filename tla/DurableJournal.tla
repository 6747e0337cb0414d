--------------------------- MODULE DurableJournal ---------------------------
(***************************************************************************)
(* What the journal of a disconnected account promises: entries are added  *)
(* at the end; a playback takes a copy and works it off from the front;    *)
(* the entries leave the log when all of them have been played, or when a  *)
(* failed playback replaces the log by what it had not played yet, with    *)
(* selects put back in.  A crash ends a playback and keeps the log, except *)
(* while it is being replaced: then a prefix of the new one may be left.   *)
(* Who records, session IDs, the mutex, the buffered header and the file   *)
(* are all invisible here.                                                 *)
(***************************************************************************)
EXTENDS Sequences, Integers

CONSTANTS Entries,   \* what can be recorded
          Selects    \* the entries that open a session

VARIABLES log,    \* the entries that survive a crash
          todo,   \* what the running playback has still to do
          mode    \* "recording", "playing" or "replacing"

vars == <<log, todo, mode>>

Init == log = << >> /\ todo = << >> /\ mode = "recording"

(* One operation adds one entry, or a select and the entry that needs it.  *)
Grow ==
    LET new == SubSeq(log', Len(log) + 1, Len(log'))
    IN  log' = log \o new /\ Len(new) \in 1..2 /\ new \in Seq(Entries)

Record ==
    /\ mode = "recording"
    /\ Grow
    /\ UNCHANGED <<todo, mode>>

Begin ==
    /\ mode = "recording"
    /\ mode' = "playing"
    /\ todo' = log
    /\ UNCHANGED log

Play ==
    /\ mode = "playing"
    /\ todo # << >>
    /\ todo' = Tail(todo)
    /\ UNCHANGED <<log, mode>>

Finish ==
    /\ mode = "playing"
    /\ todo = << >>
    /\ log' = << >>
    /\ mode' = "recording"
    /\ UNCHANGED todo

Fail ==
    /\ mode = "playing"
    /\ todo # << >>
    /\ mode' = "replacing"
    /\ UNCHANGED <<log, todo>>

(* A session that was open when the playback failed is opened again.       *)
Reopen ==
    /\ mode = "replacing"
    /\ Len(todo') = Len(todo) + 1
    /\ \E k \in DOMAIN todo :
         /\ todo' = SubSeq(todo, 1, k - 1) \o <<todo'[k]>> \o SubSeq(todo, k, Len(todo))
         /\ todo'[k] \in Selects
    /\ UNCHANGED <<log, mode>>

Erase ==
    /\ mode = "replacing"
    /\ log' = << >>
    /\ UNCHANGED <<todo, mode>>

Replace ==
    /\ mode = "replacing"
    /\ log = << >>
    /\ log' = todo
    /\ todo' = << >>
    /\ mode' = "recording"

(* The log is kept, or has some of the entries that were on their way.     *)
Crash ==
    /\ mode' = "recording"
    /\ todo' = << >>
    /\ \/ UNCHANGED log
       \/ mode = "recording" /\ Grow
       \/ /\ mode = "replacing"
          /\ log = << >>
          /\ \E n \in DOMAIN todo : log' = SubSeq(todo, 1, n)

Next == Record \/ Begin \/ Play \/ Finish \/ Fail \/ Reopen \/ Erase \/ Replace \/ Crash

Spec == Init /\ [][Next]_vars
=============================================================================
