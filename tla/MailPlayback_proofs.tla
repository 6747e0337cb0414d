------------------------- MODULE MailPlayback_proofs -------------------------
(***************************************************************************)
(* What holds of playback for any journal, whatever fails and over any     *)
(* number of playbacks and restarts.  It keeps its types: an entry that is *)
(* played has the mailbox, the message or the flag its kind needs, through *)
(* compaction, the expunges that are taken back, the sessions that are     *)
(* taken out and the selects that are put back.  Every step has less left  *)
(* to do.  And what is left of a journal is in sessions, one of which may  *)
(* be under way, so that it compacts to closed sessions when it is written *)
(* anew.                                                                   *)
(***************************************************************************)
EXTENDS MailPlayback, OfflineMail_proofs

-----------------------------------------------------------------------------
(* Playing an entry keeps the world one.                                   *)
LEMMA WorldFields ==
    ASSUME NEW w \in World
    PROVE  /\ w.names \in [Mailboxes -> Nat]
           /\ w.local \in [Mailboxes -> Nat \cup {NoLocal}]
           /\ w.fresh \in Nat
           /\ w.conns \in [SessionIDs -> {NoConn} \cup [box : Nat, mbox : Mailboxes]]
           /\ w.at \in [Msgs -> Nat]
           /\ w.flags \in [Msgs -> SUBSET Flags]
           /\ w.mapped \in SUBSET Msgs
           /\ w.lat \in [Msgs -> Mailboxes \cup {NoMbox}]
BY DEF World

LEMMA WorldNames ==
    ASSUME NEW w \in World, NEW f \in [Mailboxes -> Nat]
    PROVE  /\ [w EXCEPT !.names = f] \in World
           /\ [w EXCEPT !.names = f].names = f /\ [w EXCEPT !.names = f].fresh = w.fresh
BY SMT DEF World

LEMMA WorldFresh ==
    ASSUME NEW w \in World, NEW x \in Nat
    PROVE  [w EXCEPT !.fresh = x] \in World
BY SMT DEF World

LEMMA WorldConns ==
    ASSUME NEW w \in World,
           NEW f \in [SessionIDs -> {NoConn} \cup [box : Nat, mbox : Mailboxes]]
    PROVE  /\ [w EXCEPT !.conns = f] \in World
           /\ [w EXCEPT !.conns = f].local = w.local
           /\ [w EXCEPT !.conns = f].lat = w.lat
BY SMT DEF World

LEMMA WorldAt ==
    ASSUME NEW w \in World, NEW f \in [Msgs -> Nat]
    PROVE  /\ [w EXCEPT !.at = f] \in World
           /\ [w EXCEPT !.at = f].flags = w.flags /\ [w EXCEPT !.at = f].mapped = w.mapped
BY SMT DEF World

LEMMA WorldFlags ==
    ASSUME NEW w \in World, NEW f \in [Msgs -> SUBSET Flags]
    PROVE  [w EXCEPT !.flags = f] \in World /\ [w EXCEPT !.flags = f].mapped = w.mapped
BY SMT DEF World

LEMMA WorldMapped ==
    ASSUME NEW w \in World, NEW S \in SUBSET Msgs
    PROVE  [w EXCEPT !.mapped = S] \in World
BY SMT DEF World

LEMMA ArriveType ==
    ASSUME NEW w \in World, NEW m \in Msgs, NEW b \in Mailboxes, NEW fl \in SUBSET Flags
    PROVE  Arrive(w, m, b, fl) \in World
<1>1. PICK f : f = [w.at EXCEPT ![m] = w.names[b]]
  OBVIOUS
<1>2. PICK g : g = [w.flags EXCEPT ![m] = fl]
  OBVIOUS
<1>3. PICK S : S = IF w.lat[m] = b THEN w.mapped \cup {m} ELSE w.mapped
  OBVIOUS
<1>4. f \in [Msgs -> Nat] /\ g \in [Msgs -> SUBSET Flags] /\ S \in SUBSET Msgs
  BY <1>1, <1>2, <1>3, WorldFields
<1>5. PICK u : u = [w EXCEPT !.at[m] = w.names[b]]
  OBVIOUS
<1>6. u = [w EXCEPT !.at = f]
  BY <1>1, <1>5
<1>7. u \in World /\ u.flags = w.flags /\ u.mapped = w.mapped
  BY <1>4, <1>6, WorldAt
<1>8. PICK v : v = [u EXCEPT !.flags[m] = fl]
  OBVIOUS
<1>9. v = [u EXCEPT !.flags = g]
  BY <1>2, <1>7, <1>8
<1>10. v \in World /\ v.mapped = w.mapped
  BY <1>4, <1>7, <1>9, WorldFlags
<1>11. [v EXCEPT !.mapped = S] \in World
  BY <1>4, <1>10, WorldMapped
<1>12. Arrive(w, m, b, fl) = w \/ Arrive(w, m, b, fl) = [v EXCEPT !.mapped = S]
  <2>1. CASE w.names[b] = 0
    BY <2>1 DEF Arrive
  <2>2. CASE w.names[b] # 0
    <3>1. Arrive(w, m, b, fl) =
            [w EXCEPT !.at[m] = w.names[b],
                      !.flags[m] = fl,
                      !.mapped = IF w.lat[m] = b THEN @ \cup {m} ELSE @]
      BY <2>2 DEF Arrive
    <3>2. Arrive(w, m, b, fl) =
            [v EXCEPT !.mapped = IF w.lat[m] = b THEN @ \cup {m} ELSE @]
      BY <1>5, <1>8, <3>1
    <3> QED BY <1>3, <1>10, <3>2
  <2> QED BY <2>1, <2>2
<1> QED BY <1>11, <1>12

LEMMA EntryData ==
    ASSUME NEW a \in CMailAction
    PROVE  /\ a.id \in SessionIDs /\ a.act \in Acts
           /\ a.act = "Flag" => a.flag \in Flags
           /\ a.act \in {"Copy", "Append"} => a.as \in Msgs
           /\ a.act \notin {"Flag", "Expunge"} => a.mbox \in Mailboxes
           /\ a.act = "Rename" => a.to \in Mailboxes
BY DEF CMailAction, Fields, HasData, Acts

LEMMA PlayFlagType ==
    ASSUME NEW w \in World, NEW a \in CMailAction, a.act = "Flag"
    PROVE  PlayFlag(w, a) \in World
<1>1. PICK f : f = [m \in Msgs |->
                      IF m \notin Found(w, a) THEN w.flags[m]
                      ELSE IF a.set THEN w.flags[m] \cup {a.flag} ELSE w.flags[m] \ {a.flag}]
  OBVIOUS
<1>2. f \in [Msgs -> SUBSET Flags]
  BY <1>1, WorldFields, EntryData
<1>3. PlayFlag(w, a) = [w EXCEPT !.flags = f]
  BY <1>1 DEF PlayFlag
<1> QED BY <1>2, <1>3, WorldFlags

LEMMA PlayExpungeType ==
    ASSUME NEW w \in World, NEW a \in CMailAction
    PROVE  PlayExpunge(w, a) \in World
<1>1. PICK f : f = [m \in Msgs |->
                      IF m \in Found(w, a) /\ "Deleted" \in w.flags[m] THEN 0 ELSE w.at[m]]
  OBVIOUS
<1>2. f \in [Msgs -> Nat]
  BY <1>1, WorldFields
<1>3. PlayExpunge(w, a) = [w EXCEPT !.at = f]
  BY <1>1 DEF PlayExpunge
<1> QED BY <1>2, <1>3, WorldAt

LEMMA PlayCopyType ==
    ASSUME NEW w \in World, NEW a \in CMailAction, a.act = "Copy"
    PROVE  PlayCopy(w, a) \in World
<1>1. a.as \in Msgs /\ a.mbox \in Mailboxes
  BY EntryData
<1>2. PICK S : S = Found(w, a) /\ S \in SUBSET Msgs
  BY DEF Found
<1>3. CASE S # {}
  <2>1. PICK m \in S : m = CHOOSE x \in S : TRUE
    BY <1>3
  <2>2. w.flags[m] \in SUBSET Flags
    BY <1>2, WorldFields
  <2>3. Arrive(w, a.as, a.mbox, w.flags[m]) \in World
    BY <1>1, <2>2, ArriveType
  <2>4. Arrive(w, a.as, a.mbox, {}) \in World
    BY <1>1, ArriveType
  <2> QED BY <1>2, <2>1, <2>3, <2>4 DEF PlayCopy
<1>4. CASE S = {}
  <2>1. Arrive(w, a.as, a.mbox, {}) \in World
    BY <1>1, ArriveType
  <2> QED BY <1>2, <1>4, <2>1 DEF PlayCopy
<1> QED BY <1>3, <1>4

LEMMA ConnectedMbox ==
    ASSUME NEW w \in World, NEW i \in SessionIDs, w.conns[i] # NoConn
    PROVE  w.conns[i].mbox \in Mailboxes
<1>1. w.conns[i] \in [box : Nat, mbox : Mailboxes]
  BY WorldFields
<1> QED BY <1>1

LEMMA PlayAppendType ==
    ASSUME NEW w \in World, NEW a \in CMailAction, a.act = "Append"
    PROVE  PlayAppend(w, a) \in World
<1>1. a.as \in Msgs /\ a.mbox \in Mailboxes /\ a.id \in SessionIDs
  BY EntryData
<1>2. PICK b : b = IF Connected(w, a.id) THEN w.conns[a.id].mbox ELSE a.mbox
  OBVIOUS
<1>3. Connected(w, a.id) => w.conns[a.id] # NoConn
  BY DEF Connected, NoConn
<1>4. b \in Mailboxes
  BY <1>1, <1>2, <1>3, ConnectedMbox
<1>5. Arrive(w, a.as, b, {}) \in World
  BY <1>1, <1>4, ArriveType
<1> QED BY <1>2, <1>5 DEF PlayAppend

LEMMA PlayCreateType ==
    ASSUME NEW w \in World, NEW a \in CMailAction, a.act = "Create"
    PROVE  PlayCreate(w, a) \in World
<1>1. a.mbox \in Mailboxes
  BY EntryData
<1>2. PICK f : f = [w.names EXCEPT ![a.mbox] = w.fresh]
  OBVIOUS
<1>3. f \in [Mailboxes -> Nat] /\ w.fresh + 1 \in Nat
  <2>1. PICK nm : nm = w.names
    OBVIOUS
  <2>2. nm \in [Mailboxes -> Nat] /\ w.fresh \in Nat
    BY <2>1, WorldFields
  <2>3. f = [nm EXCEPT ![a.mbox] = w.fresh]
    BY <1>2, <2>1
  <2>4. f \in [Mailboxes -> Nat]
    BY <2>2, <2>3
  <2> QED BY <2>2, <2>4
<1>4. PICK u : u = [w EXCEPT !.names[a.mbox] = w.fresh]
  OBVIOUS
<1>5. u = [w EXCEPT !.names = f]
  BY <1>2, <1>4
<1>6. u \in World
  BY <1>3, <1>5, WorldNames
<1>7. u.fresh = w.fresh
  BY <1>3, <1>5, WorldNames
<1>8. [u EXCEPT !.fresh = w.fresh + 1] \in World
  BY <1>3, <1>6, WorldFresh
<1>9. PlayCreate(w, a) = w \/ PlayCreate(w, a) = [u EXCEPT !.fresh = @ + 1]
  BY <1>4 DEF PlayCreate
<1> QED BY <1>7, <1>8, <1>9

LEMMA PlayDeleteType ==
    ASSUME NEW w \in World, NEW a \in CMailAction, a.act = "Delete"
    PROVE  PlayDelete(w, a) \in World
<1>1. a.mbox \in Mailboxes
  BY EntryData
<1>2. PICK f : f = [w.names EXCEPT ![a.mbox] = 0]
  OBVIOUS
<1>3. PICK g : g = [m \in Msgs |-> IF w.at[m] = w.names[a.mbox] THEN 0 ELSE w.at[m]]
  OBVIOUS
<1>4. f \in [Mailboxes -> Nat] /\ g \in [Msgs -> Nat]
  BY <1>2, <1>3, WorldFields
<1>5. PICK u : u = [w EXCEPT !.names[a.mbox] = 0]
  OBVIOUS
<1>6. u = [w EXCEPT !.names = f]
  BY <1>2, <1>5
<1>7. u \in World
  BY <1>4, <1>6, WorldNames
<1>8. PlayDelete(w, a) = [u EXCEPT !.at = g]
  BY <1>3, <1>5 DEF PlayDelete
<1> QED BY <1>4, <1>7, <1>8, WorldAt

LEMMA PlayRenameType ==
    ASSUME NEW w \in World, NEW a \in CMailAction, a.act = "Rename"
    PROVE  PlayRename(w, a) \in World
<1>1. a.mbox \in Mailboxes /\ a.to \in Mailboxes
  BY EntryData
<1>2. PICK f : f = [w.names EXCEPT ![a.mbox] = 0]
  OBVIOUS
<1>3. f \in [Mailboxes -> Nat] /\ w.names[a.mbox] \in Nat
  BY <1>1, <1>2, WorldFields
<1>4. PICK u : u = [w EXCEPT !.names[a.mbox] = 0]
  OBVIOUS
<1>5. u = [w EXCEPT !.names = f]
  BY <1>2, <1>4
<1>6. u \in World /\ u.names = f
  BY <1>3, <1>5, WorldNames
<1>7. PICK g : g = [u.names EXCEPT ![a.to] = w.names[a.mbox]]
  OBVIOUS
<1>8. g \in [Mailboxes -> Nat]
  BY <1>3, <1>6, <1>7
<1>9. [u EXCEPT !.names = g] \in World
  BY <1>6, <1>8, WorldNames
<1>10. PlayRename(w, a) = w \/ PlayRename(w, a) = [u EXCEPT !.names[a.to] = w.names[a.mbox]]
  BY <1>4 DEF PlayRename
<1> QED BY <1>7, <1>9, <1>10

LEMMA PlaySelectType ==
    ASSUME NEW w \in World, NEW a \in CMailAction, a.act = "Select"
    PROVE  PlaySelect(w, a) \in World
<1>1. a.mbox \in Mailboxes /\ a.id \in SessionIDs
  BY EntryData
<1>2. PICK c : c = [box |-> w.names[a.mbox], mbox |-> a.mbox]
  OBVIOUS
<1>3. PICK f : f = [w.conns EXCEPT ![a.id] = c]
  OBVIOUS
<1>4. f \in [SessionIDs -> {NoConn} \cup [box : Nat, mbox : Mailboxes]]
  <2>1. c \in [box : Nat, mbox : Mailboxes]
    BY <1>1, <1>2, WorldFields
  <2> QED BY <1>3, <2>1, WorldFields
<1>5. PICK x : x = IF w.local[a.mbox] = NoLocal THEN w.local[a.mbox] ELSE w.names[a.mbox]
  OBVIOUS
<1>6. PICK g : g = [w.local EXCEPT ![a.mbox] = x]
  OBVIOUS
<1>7. g \in [Mailboxes -> Nat \cup {NoLocal}]
  <2>1. x \in Nat \cup {NoLocal}
    BY <1>1, <1>5, WorldFields
  <2> QED BY <1>6, <2>1, WorldFields
<1>8. PICK h : h = [m \in Msgs |->
                      IF Mismatch(w, a.mbox) /\ w.lat[m] = a.mbox /\ m \in w.mapped
                      THEN NoMbox ELSE w.lat[m]]
  OBVIOUS
<1>9. h \in [Msgs -> Mailboxes \cup {NoMbox}]
  BY <1>8, WorldFields
<1>10. PICK u : u = [w EXCEPT !.conns[a.id] = c]
  OBVIOUS
<1>11. u = [w EXCEPT !.conns = f]
  BY <1>3, <1>10
<1>12. u \in World /\ u.local = w.local /\ u.lat = w.lat
  BY <1>4, <1>11, WorldConns
<1>13. PICK v : v = [u EXCEPT !.local[a.mbox] = x]
  OBVIOUS
<1>14. v = [u EXCEPT !.local = g]
  BY <1>6, <1>12, <1>13
<1>15. v \in World /\ v.lat = w.lat
  BY <1>7, <1>12, <1>14, WorldLocal
<1>16. [v EXCEPT !.lat = h] \in World
  BY <1>9, <1>15, WorldLat
<1>17. PlaySelect(w, a) = [v EXCEPT !.lat = h]
  <2>1. PlaySelect(w, a) =
          [u EXCEPT !.local[a.mbox] = IF @ = NoLocal THEN @ ELSE w.names[a.mbox],
                    !.lat = [m \in Msgs |->
                               IF Mismatch(w, a.mbox) /\ @[m] = a.mbox /\ m \in w.mapped
                               THEN NoMbox ELSE @[m]]]
    BY <1>2, <1>10 DEF PlaySelect
  <2>2. PlaySelect(w, a) =
          [v EXCEPT !.lat = [m \in Msgs |->
                               IF Mismatch(w, a.mbox) /\ @[m] = a.mbox /\ m \in w.mapped
                               THEN NoMbox ELSE @[m]]]
    BY <1>5, <1>12, <1>13, <2>1, ZenonT(30)
  <2> QED BY <1>8, <1>15, <2>2, SMTT(30)
<1> QED BY <1>16, <1>17

LEMMA PlayDeselectType ==
    ASSUME NEW w \in World, NEW a \in CMailAction
    PROVE  PlayDeselect(w, a) \in World
<1>1. PICK f : f = [w.conns EXCEPT ![a.id] = NoConn]
  OBVIOUS
<1>2. f \in [SessionIDs -> {NoConn} \cup [box : Nat, mbox : Mailboxes]]
  BY <1>1, WorldFields
<1>3. PlayDeselect(w, a) = [w EXCEPT !.conns = f]
  BY <1>1 DEF PlayDeselect
<1> QED BY <1>2, <1>3, WorldConns

LEMMA PlayEntryType ==
    ASSUME NEW w \in World, NEW a \in CMailAction
    PROVE  PlayEntry(w, a) \in World
<1>1. a.act \in {"Flag", "Copy", "Expunge", "Select", "Deselect", "Append",
                 "Create", "Delete", "Rename"}
  BY EntryData DEF Acts, NeedsSelect
<1>2. CASE a.act = "Flag"
  BY <1>2, PlayFlagType DEF PlayEntry
<1>3. CASE a.act = "Copy"
  BY <1>3, PlayCopyType DEF PlayEntry
<1>4. CASE a.act = "Expunge"
  BY <1>4, PlayExpungeType DEF PlayEntry
<1>5. CASE a.act = "Select"
  BY <1>5, PlaySelectType DEF PlayEntry
<1>6. CASE a.act = "Deselect"
  BY <1>6, PlayDeselectType DEF PlayEntry
<1>7. CASE a.act = "Append"
  BY <1>7, PlayAppendType DEF PlayEntry
<1>8. CASE a.act = "Create"
  BY <1>8, PlayCreateType DEF PlayEntry
<1>9. CASE a.act = "Delete"
  BY <1>9, PlayDeleteType DEF PlayEntry
<1>10. CASE a.act = "Rename"
  BY <1>10, PlayRenameType DEF PlayEntry
<1> QED BY <1>1, <1>2, <1>3, <1>4, <1>5, <1>6, <1>7, <1>8, <1>9, <1>10

-----------------------------------------------------------------------------
(* The folds that take entries out of the queue, turn by turn.             *)
Follows(f, step, b, A, n) ==
    /\ f[{}] = b
    /\ \A s \in SUBSET (1..n) :
         s # {} /\ f[s \ {Max(s)}] \in A => f[s] = step[<<f[s \ {Max(s)}], Max(s)>>]

Turns(r, step, b, A, n) ==
    /\ r[0] = b /\ r[n] \in A
    /\ \A k \in 1..n : r[k - 1] \in A /\ r[k] = step[<<r[k - 1], k>>]

LEMMA FoldTurns ==
    ASSUME NEW A, NEW n \in Nat, NEW b \in A, NEW step, StaysIn(step, A, n),
           NEW f, Follows(f, step, b, A, n)
    PROVE  \E r : f[1..n] = r[n] /\ Turns(r, step, b, A, n)
<1> USE DEF Follows
<1> DEFINE T == {k \in 0..n : f[1..k] \in A}
<1>1. 1..0 = {}
  OBVIOUS
<1>2. ASSUME NEW k \in 1..n, f[1..(k - 1)] \in A
      PROVE  f[1..k] = step[<<f[1..(k - 1)], k>>] /\ f[1..k] \in A
  <2>1. k \in Nat \ {0} /\ 1..k \in SUBSET (1..n) /\ 1..k # {}
    OBVIOUS
  <2>2. Max(1..k) = k /\ (1..k) \ {k} = 1..(k - 1)
    BY <2>1, MaxOfPrefix
  <2>3. f[1..k] = step[<<f[1..(k - 1)], k>>]
    BY <1>2, <2>1, <2>2
  <2> QED BY <1>2, <2>3 DEF StaysIn
<1>3. 0 \in T
  BY <1>1
<1>4. ASSUME NEW k \in 1..n, k - 1 \in T PROVE k \in T
  <2>1. f[1..(k - 1)] \in A /\ k \in 0..n
    BY <1>4
  <2>2. f[1..k] \in A
    BY <1>2, <2>1
  <2> QED BY <2>1, <2>2
<1> HIDE DEF T
<1>5. \A k \in 0..n : k \in T
  BY <1>3, <1>4, Upwards
<1> DEFINE r == [k \in 0..n |-> f[1..k]]
<1>6. r[n] = f[1..n] /\ r[0] = b
  BY <1>1
<1>7. ASSUME NEW k \in 1..n
      PROVE  r[k - 1] \in A /\ r[k] = step[<<r[k - 1], k>>]
  <2>1. k - 1 \in 0..n /\ k \in 0..n
    OBVIOUS
  <2>2. f[1..(k - 1)] \in A
    BY <1>5, <2>1 DEF T
  <2> QED BY <1>2, <2>1, <2>2
<1>8. f[1..n] \in A
  <2>1. n \in 0..n
    OBVIOUS
  <2> QED BY <1>5, <2>1 DEF T
<1> HIDE DEF r
<1> QED BY <1>6, <1>7, <1>8 DEF Turns

Kept(q, S, out, k) == IF k \in S THEN out ELSE Append(out, q[k])

LEMMA WithoutTurns ==
    ASSUME NEW q \in Seq(CMailAction), NEW S
    PROVE  \E r : /\ Without(q, S) = r[Len(q)] /\ r[0] = << >>
                  /\ \A k \in 1..Len(q) : r[k - 1] \in Seq(CMailAction)
                                          /\ r[k] = Kept(q, S, r[k - 1], k)
<1> DEFINE n    == Len(q)
           A    == Seq(CMailAction)
           ids  == [k \in DOMAIN q |-> k]
           E(g) == g = [s \in SUBSET DOMAIN ids |->
                         IF s = {} THEN << >>
                         ELSE IF ids[Max(s)] \in S THEN g[s \ {Max(s)}]
                              ELSE Append(g[s \ {Max(s)}], q[ids[Max(s)]])]
           f    == CHOOSE g : E(g)
           step == [p \in A \X (1..n) |-> Kept(q, S, p[1], p[2])]
<1>1. Without(q, S) = f[DOMAIN ids]
  BY DEF Without, FoldLeftDomain, FoldLeft, MapThenFoldSet
<1>2. n \in Nat /\ DOMAIN ids = 1..n /\ \A k \in 1..n : ids[k] = k
  BY Places
<1>3. \A s \in SUBSET (1..n) : s # {} => Max(s) \in 1..n /\ s \ {Max(s)} \in SUBSET (1..n)
  BY <1>2, MaxOf
<1>4. \A x \in A : \A k \in 1..n : step[<<x, k>>] = Kept(q, S, x, k)
  OBVIOUS
<1>5. StaysIn(step, A, n)
  <2> SUFFICES ASSUME NEW x \in A, NEW k \in 1..n PROVE Kept(q, S, x, k) \in A
    BY <1>4 DEF StaysIn
  <2>1. q[k] \in CMailAction
    BY <1>2, Places
  <2> QED BY <2>1, Appended DEF Kept
<1>6. << >> \in A
  OBVIOUS
<1> HIDE DEF step, n, A
<1>7. PICK g : IsFold(g, step, << >>, A, n)
  BY <1>2, <1>5, <1>6, FoldExists, Zenon
<1>8. ASSUME NEW s \in SUBSET (1..n)
      PROVE  g[s] = IF s = {} THEN << >>
                    ELSE IF ids[Max(s)] \in S THEN g[s \ {Max(s)}]
                         ELSE Append(g[s \ {Max(s)}], q[ids[Max(s)]])
  <2>1. CASE s = {}
    BY <1>7, <2>1 DEF IsFold
  <2>2. CASE s # {}
    <3>1. Max(s) \in 1..n /\ s \ {Max(s)} \in SUBSET (1..n) /\ ids[Max(s)] = Max(s)
      BY <1>2, <1>3, <2>2
    <3>2. g[s] = step[<<g[s \ {Max(s)}], Max(s)>>] /\ g[s \ {Max(s)}] \in A
      BY <1>7, <2>2, <3>1 DEF IsFold
    <3>3. g[s] = Kept(q, S, g[s \ {Max(s)}], Max(s))
      BY <1>4, <3>1, <3>2
    <3> QED BY <2>2, <3>1, <3>3 DEF Kept
  <2> QED BY <2>1, <2>2
<1>9. E(g)
  BY <1>2, <1>7, <1>8 DEF IsFold
<1>10. E(f)
  BY <1>9
<1> HIDE DEF f, ids
<1>11. \A s \in SUBSET (1..n) :
         f[s] = IF s = {} THEN << >>
                ELSE IF ids[Max(s)] \in S THEN f[s \ {Max(s)}]
                     ELSE Append(f[s \ {Max(s)}], q[ids[Max(s)]])
  BY <1>2, <1>10
<1> HIDE DEF E
<1>12. ASSUME NEW s \in SUBSET (1..n), s # {}, f[s \ {Max(s)}] \in A
       PROVE  f[s] = step[<<f[s \ {Max(s)}], Max(s)>>]
  <2>1. Max(s) \in 1..n /\ ids[Max(s)] = Max(s)
    BY <1>2, <1>3, <1>12
  <2>2. f[s] = Kept(q, S, f[s \ {Max(s)}], Max(s))
    BY <1>11, <1>12, <2>1 DEF Kept
  <2> QED BY <1>4, <1>12, <2>1, <2>2
<1>13. f[{}] = << >>
  BY <1>11
<1>14. Follows(f, step, << >>, A, n)
  BY <1>12, <1>13 DEF Follows
<1>15. PICK r : f[1..n] = r[n] /\ Turns(r, step, << >>, A, n)
  BY <1>2, <1>5, <1>6, <1>14, FoldTurns, Zenon
<1>16. \A k \in 1..n : r[k - 1] \in A /\ r[k] = Kept(q, S, r[k - 1], k)
  BY <1>4, <1>15 DEF Turns
<1>17. Without(q, S) = r[n] /\ r[0] = << >>
  BY <1>1, <1>2, <1>15 DEF Turns
<1> QED BY <1>16, <1>17 DEF A, n

(* What is left is entries, no more than there were and the first one among*)
(* them.                                                                   *)
LEMMA WithoutType ==
    ASSUME NEW q \in Seq(CMailAction), NEW S, 1 \notin S, q # << >>
    PROVE  /\ Without(q, S) \in Seq(CMailAction) /\ Without(q, S) # << >>
           /\ Len(Without(q, S)) <= Len(q)
<1>1. PICK n \in Nat : n = Len(q) /\ n # 0
  BY Places, EmptySeq
<1>2. PICK r : /\ Without(q, S) = r[n] /\ r[0] = << >>
               /\ \A k \in 1..n : r[k - 1] \in Seq(CMailAction)
                                  /\ r[k] = Kept(q, S, r[k - 1], k)
  BY <1>1, WithoutTurns
<1> DEFINE Left(k) == {s \in Seq(CMailAction) : s # << >> /\ Len(s) <= k}
           T == {k \in 0..n : IF k = 0 THEN r[k] = << >> ELSE r[k] \in Left(k)}
<1>3. \A k \in 1..n : q[k] \in CMailAction
  BY <1>1, Places
<1>4. ASSUME NEW k \in 1..n, k - 1 \in T PROVE k \in T
  <2>1. /\ r[k - 1] \in Seq(CMailAction) /\ q[k] \in CMailAction
        /\ Len(r[k - 1]) \in Nat /\ Len(r[k - 1]) <= k - 1
    <3>1. r[k - 1] \in Seq(CMailAction) /\ q[k] \in CMailAction
      BY <1>2, <1>3
    <3>2. Len(<< >>) = 0
      OBVIOUS
    <3>3. Len(r[k - 1]) <= k - 1
      BY <1>4, <3>2
    <3> QED BY <3>1, <3>3, Places
  <2>2. PICK o : o = Append(r[k - 1], q[k])
    OBVIOUS
  <2>3. o \in Seq(CMailAction) /\ Len(o) = Len(r[k - 1]) + 1
    BY <2>1, <2>2, Appended
  <2>4. o \in Left(k)
    <3>1. o # << >>
      BY <2>1, <2>3, EmptySeq
    <3> QED BY <2>1, <2>3, <3>1
  <2>5. k \in S => r[k - 1] \in Left(k)
    <3> SUFFICES ASSUME k \in S PROVE r[k - 1] \in Left(k)
      OBVIOUS
    <3>1. k - 1 # 0
      OBVIOUS
    <3> QED BY <1>4, <2>1, <3>1
  <2>6. r[k] \in Left(k)
    BY <1>2, <2>2, <2>4, <2>5 DEF Kept
  <2> QED BY <2>6
<1>5. 0 \in T
  BY <1>2
<1> HIDE DEF T
<1>6. \A k \in 0..n : k \in T
  BY <1>4, <1>5, Upwards
<1>7. r[n] \in Left(n)
  <2>1. n \in T /\ n # 0
    BY <1>1, <1>6
  <2> QED BY <2>1 DEF T
<1> QED BY <1>1, <1>2, <1>7

LEMMA RemoveExpungesType ==
    ASSUME NEW q \in Seq(CMailAction), q # << >>, NEW b, NEW id
    PROVE  /\ RemoveExpungeActions(q, b, id) \in Seq(CMailAction)
           /\ RemoveExpungeActions(q, b, id) # << >>
           /\ Len(RemoveExpungeActions(q, b, id)) <= Len(q)
<1>1. PICK S : RemoveExpungeActions(q, b, id) = Without(q, S) /\ S \subseteq 2..Len(q)
  BY DEF RemoveExpungeActions
<1>2. 1 \notin S
  BY <1>1, Places
<1> QED BY <1>1, <1>2, WithoutType

-----------------------------------------------------------------------------
(* The selects that are put back.                                          *)
LEMMA Inserted ==
    ASSUME NEW S, NEW q \in Seq(S), NEW i \in 1..Len(q), NEW e \in S
    PROVE  InsertAt(q, i, e) \in Seq(S)
<1>1. Len(q) \in Nat /\ i \in Nat \ {0} /\ i <= Len(q)
  BY LenProperties
<1>2. SubSeq(q, 1, i - 1) \in Seq(S) /\ SubSeq(q, i, Len(q)) \in Seq(S)
  BY <1>1, SubSeqProperties
<1>3. <<e>> \in Seq(S)
  OBVIOUS
<1> QED BY <1>2, <1>3, ConcatProperties DEF InsertAt

Connections == [SessionIDs -> {NoConn} \cup [box : Nat, mbox : Mailboxes]]

LEMMA RecoverType ==
    ASSUME NEW conns \in Connections, NEW q \in Seq(CMailAction), NEW id \in SessionIDs
    PROVE  Recover(conns, q, id) \in Seq(CMailAction)
<1>1. PICK mine : mine = {k \in DOMAIN q : q[k].id = id}
  OBVIOUS
<1>2. CASE mine = {} \/ conns[id] = NoConn
  BY <1>1, <1>2 DEF Recover
<1>3. CASE mine # {} /\ conns[id] # NoConn
  <2>1. mine \in SUBSET Nat /\ mine \subseteq 1..Len(q)
    BY <1>1, Places
  <2>2. PICK m \in 1..Len(q) : m = Min(mine)
    BY <1>3, <2>1, MinOf
  <2>3. conns[id] \in [box : Nat, mbox : Mailboxes]
    BY <1>3 DEF Connections
  <2>4. conns[id].mbox \in Mailboxes
    BY <2>3
  <2>5. PICK e : e = Made("Select", id, conns[id].mbox) /\ e \in CMailAction
    BY <2>4, MadeEntry
  <2>6. InsertAt(q, m, e) \in Seq(CMailAction)
    BY <2>2, <2>5, Inserted
  <2>7. Recover(conns, q, id) = q \/ Recover(conns, q, id) = InsertAt(q, m, e)
    BY <1>1, <1>3, <2>2, <2>5 DEF Recover, Made
  <2> QED BY <2>6, <2>7
<1> QED BY <1>2, <1>3

LEMMA RecoverSelectsTurns ==
    ASSUME NEW q \in Seq(CMailAction), NEW conns \in Connections
    PROVE  \E r : /\ RecoverSelects(q, conns) = r[MaxID] /\ r[0] = q
                  /\ r[MaxID] \in Seq(CMailAction)
                  /\ \A k \in 1..MaxID : r[k - 1] \in Seq(CMailAction)
                                         /\ r[k] = Recover(conns, r[k - 1], k)
<1> DEFINE n    == MaxID
           A    == Seq(CMailAction)
           ids  == [id \in 1..MaxID |-> id]
           E(g) == g = [s \in SUBSET DOMAIN ids |->
                         IF s = {} THEN q ELSE Recover(conns, g[s \ {Max(s)}], ids[Max(s)])]
           f    == CHOOSE g : E(g)
           step == [p \in A \X (1..n) |-> Recover(conns, p[1], p[2])]
<1>1. RecoverSelects(q, conns) = f[DOMAIN ids]
  BY DEF RecoverSelects, FoldLeft, MapThenFoldSet
<1>2. /\ n \in Nat /\ DOMAIN ids = 1..n /\ \A k \in 1..n : ids[k] = k
      /\ 1..n \subseteq SessionIDs
  BY OfflineAssumption
<1>3. \A s \in SUBSET (1..n) : s # {} => Max(s) \in 1..n /\ s \ {Max(s)} \in SUBSET (1..n)
  BY <1>2, MaxOf
<1>4. \A x \in A : \A k \in 1..n : step[<<x, k>>] = Recover(conns, x, k)
  OBVIOUS
<1>5. StaysIn(step, A, n)
  <2> SUFFICES ASSUME NEW x \in A, NEW k \in 1..n PROVE Recover(conns, x, k) \in A
    BY <1>4 DEF StaysIn
  <2>1. k \in SessionIDs
    BY <1>2
  <2> QED BY <2>1, RecoverType
<1>6. q \in A
  OBVIOUS
<1> HIDE DEF step, n, A
<1>7. PICK g : IsFold(g, step, q, A, n)
  BY <1>2, <1>5, <1>6, FoldExists, Zenon
<1>8. ASSUME NEW s \in SUBSET (1..n)
      PROVE  g[s] = IF s = {} THEN q ELSE Recover(conns, g[s \ {Max(s)}], ids[Max(s)])
  <2>1. CASE s = {}
    BY <1>7, <2>1 DEF IsFold
  <2>2. CASE s # {}
    <3>1. Max(s) \in 1..n /\ s \ {Max(s)} \in SUBSET (1..n) /\ ids[Max(s)] = Max(s)
      BY <1>2, <1>3, <2>2
    <3>2. g[s] = step[<<g[s \ {Max(s)}], Max(s)>>] /\ g[s \ {Max(s)}] \in A
      BY <1>7, <2>2, <3>1 DEF IsFold
    <3> QED BY <1>4, <2>2, <3>1, <3>2
  <2> QED BY <2>1, <2>2
<1>9. E(g)
  BY <1>2, <1>7, <1>8 DEF IsFold
<1>10. E(f)
  BY <1>9
<1> HIDE DEF f, ids
<1>11. \A s \in SUBSET (1..n) :
         f[s] = IF s = {} THEN q ELSE Recover(conns, f[s \ {Max(s)}], ids[Max(s)])
  BY <1>2, <1>10
<1> HIDE DEF E
<1>12. ASSUME NEW s \in SUBSET (1..n), s # {}, f[s \ {Max(s)}] \in A
       PROVE  f[s] = step[<<f[s \ {Max(s)}], Max(s)>>]
  <2>1. Max(s) \in 1..n /\ ids[Max(s)] = Max(s)
    BY <1>2, <1>3, <1>12
  <2> QED BY <1>4, <1>11, <1>12, <2>1
<1>13. f[{}] = q
  BY <1>11
<1>14. Follows(f, step, q, A, n)
  BY <1>12, <1>13 DEF Follows
<1>15. PICK r : f[1..n] = r[n] /\ Turns(r, step, q, A, n)
  BY <1>2, <1>5, <1>6, <1>14, FoldTurns, Zenon
<1>16. \A k \in 1..n : r[k - 1] \in A /\ r[k] = Recover(conns, r[k - 1], k)
  BY <1>4, <1>15 DEF Turns
<1>17. RecoverSelects(q, conns) = r[n] /\ r[0] = q /\ r[n] \in A
  BY <1>1, <1>2, <1>15 DEF Turns
<1> QED BY <1>16, <1>17 DEF A, n

LEMMA RecoverSelectsType ==
    ASSUME NEW q \in Seq(CMailAction), NEW conns \in Connections
    PROVE  RecoverSelects(q, conns) \in Seq(CMailAction)
BY RecoverSelectsTurns

-----------------------------------------------------------------------------
(* What is left of a session.                                              *)
Sifting == [out : Seq(CMailAction), remaining : BOOLEAN]

LEMMA KeepLocalType ==
    ASSUME NEW q \in Seq(CMailAction), NEW i \in 1..Len(q), NEW acc \in Sifting,
           NEW k \in 1..Len(q)
    PROVE  /\ KeepLocal(q, i, acc, k) \in Sifting
           /\ Len(KeepLocal(q, i, acc, k).out) \in {Len(acc.out), Len(acc.out) + 1}
           /\ k <= i => Len(KeepLocal(q, i, acc, k).out) = Len(acc.out) + 1
           /\ acc.remaining => KeepLocal(q, i, acc, k).remaining
<1>1. q[k] \in CMailAction /\ acc.out \in Seq(CMailAction) /\ acc.remaining \in BOOLEAN
  BY Places DEF Sifting
<1>2. PICK o : o = Append(acc.out, q[k])
  OBVIOUS
<1>3. o \in Seq(CMailAction) /\ Len(o) = Len(acc.out) + 1
  BY <1>1, <1>2, Appended
<1>4. PICK e : e = [q[k] EXCEPT !.uids = {}]
  OBVIOUS
<1>5. e \in CMailAction
  BY <1>1, <1>4, EntryUIDs
<1>6. PICK p : p = Append(acc.out, e)
  OBVIOUS
<1>7. p \in Seq(CMailAction) /\ Len(p) = Len(acc.out) + 1
  BY <1>1, <1>5, <1>6, Appended
<1>8. PICK x : x = [acc EXCEPT !.out = o]
  OBVIOUS
<1>9. PICK y : y = [out |-> p, remaining |-> TRUE]
  OBVIOUS
<1>10. \/ KeepLocal(q, i, acc, k) = x
       \/ ~ (k <= i) /\ KeepLocal(q, i, acc, k) = y
       \/ ~ (k <= i) /\ KeepLocal(q, i, acc, k) = acc
  BY <1>2, <1>4, <1>6, <1>8, <1>9 DEF KeepLocal
<1>11. x \in Sifting /\ x.out = o /\ x.remaining = acc.remaining
  BY <1>3, <1>8 DEF Sifting
<1>12. y \in Sifting /\ y.out = p /\ y.remaining
  BY <1>7, <1>9 DEF Sifting
<1> QED BY <1>3, <1>7, <1>10, <1>11, <1>12

Started(i) == [out |-> << >>, remaining |-> i = 1]

LEMMA KeepLocalTurns ==
    ASSUME NEW q \in Seq(CMailAction), NEW i \in 1..Len(q)
    PROVE  \E r : /\ FoldLeftDomain(LAMBDA acc, k : KeepLocal(q, i, acc, k), Started(i), q)
                       = r[Len(q)]
                  /\ r[0] = Started(i) /\ r[Len(q)] \in Sifting
                  /\ \A k \in 1..Len(q) : r[k - 1] \in Sifting
                                          /\ r[k] = KeepLocal(q, i, r[k - 1], k)
<1> DEFINE n    == Len(q)
           A    == Sifting
           b    == Started(i)
           ids  == [k \in DOMAIN q |-> k]
           E(g) == g = [s \in SUBSET DOMAIN ids |->
                         IF s = {} THEN b ELSE KeepLocal(q, i, g[s \ {Max(s)}], ids[Max(s)])]
           f    == CHOOSE g : E(g)
           step == [p \in A \X (1..n) |-> KeepLocal(q, i, p[1], p[2])]
<1>1. FoldLeftDomain(LAMBDA acc, k : KeepLocal(q, i, acc, k), b, q) = f[DOMAIN ids]
  BY DEF FoldLeftDomain, FoldLeft, MapThenFoldSet
<1>2. n \in Nat /\ DOMAIN ids = 1..n /\ \A k \in 1..n : ids[k] = k
  BY Places
<1>3. \A s \in SUBSET (1..n) : s # {} => Max(s) \in 1..n /\ s \ {Max(s)} \in SUBSET (1..n)
  BY <1>2, MaxOf
<1>4. \A x \in A : \A k \in 1..n : step[<<x, k>>] = KeepLocal(q, i, x, k)
  OBVIOUS
<1>5. StaysIn(step, A, n)
  <2> SUFFICES ASSUME NEW x \in A, NEW k \in 1..n PROVE KeepLocal(q, i, x, k) \in A
    BY <1>4 DEF StaysIn
  <2> QED BY KeepLocalType
<1>6. b \in A
  <2>1. << >> \in Seq(CMailAction) /\ (i = 1) \in BOOLEAN
    OBVIOUS
  <2> QED BY <2>1 DEF Sifting, Started
<1> HIDE DEF step, n, A, b
<1>7. PICK g : IsFold(g, step, b, A, n)
  BY <1>2, <1>5, <1>6, FoldExists, Zenon
<1>8. ASSUME NEW s \in SUBSET (1..n)
      PROVE  g[s] = IF s = {} THEN b ELSE KeepLocal(q, i, g[s \ {Max(s)}], ids[Max(s)])
  <2>1. CASE s = {}
    BY <1>7, <2>1 DEF IsFold
  <2>2. CASE s # {}
    <3>1. Max(s) \in 1..n /\ s \ {Max(s)} \in SUBSET (1..n) /\ ids[Max(s)] = Max(s)
      BY <1>2, <1>3, <2>2
    <3>2. g[s] = step[<<g[s \ {Max(s)}], Max(s)>>] /\ g[s \ {Max(s)}] \in A
      BY <1>7, <2>2, <3>1 DEF IsFold
    <3> QED BY <1>4, <2>2, <3>1, <3>2
  <2> QED BY <2>1, <2>2
<1>9. E(g)
  BY <1>2, <1>7, <1>8 DEF IsFold
<1>10. E(f)
  BY <1>9
<1> HIDE DEF f, ids
<1>11. \A s \in SUBSET (1..n) :
         f[s] = IF s = {} THEN b ELSE KeepLocal(q, i, f[s \ {Max(s)}], ids[Max(s)])
  BY <1>2, <1>10
<1> HIDE DEF E
<1>12. ASSUME NEW s \in SUBSET (1..n), s # {}, f[s \ {Max(s)}] \in A
       PROVE  f[s] = step[<<f[s \ {Max(s)}], Max(s)>>]
  <2>1. Max(s) \in 1..n /\ ids[Max(s)] = Max(s)
    BY <1>2, <1>3, <1>12
  <2> QED BY <1>4, <1>11, <1>12, <2>1
<1>13. f[{}] = b
  BY <1>11
<1>14. Follows(f, step, b, A, n)
  BY <1>12, <1>13 DEF Follows
<1>15. PICK r : f[1..n] = r[n] /\ Turns(r, step, b, A, n)
  BY <1>2, <1>5, <1>6, <1>14, FoldTurns, Zenon
<1>16. \A k \in 1..n : r[k - 1] \in A /\ r[k] = KeepLocal(q, i, r[k - 1], k)
  BY <1>4, <1>15 DEF Turns
<1>17. /\ FoldLeftDomain(LAMBDA acc, k : KeepLocal(q, i, acc, k), b, q) = r[n]
       /\ r[0] = b /\ r[n] \in A
  BY <1>1, <1>2, <1>15 DEF Turns
<1> QED BY <1>16, <1>17 DEF A, b, n

(* The state of Playback_RemoveActions: there is always an entry left, the *)
(* one that is being played, and there are never more than there were.     *)
Shorter(n) == {q \in Seq(CMailAction) : q # << >> /\ Len(q) <= n}

Removing(n) == [queue : Shorter(n), i : Nat \ {0}]

LEMMA RemoveSessionType ==
    ASSUME NEW q \in Seq(CMailAction), NEW i \in 1..Len(q)
    PROVE  RemoveSession(q, i) \in Removing(Len(q))
<1>1. PICK n \in Nat : n = Len(q)
  BY Places
<1>2. PICK r : /\ FoldLeftDomain(LAMBDA acc, k : KeepLocal(q, i, acc, k), Started(i), q)
                    = r[n]
               /\ r[0] = Started(i) /\ r[n] \in Sifting
               /\ \A k \in 1..n : r[k - 1] \in Sifting
                                  /\ r[k] = KeepLocal(q, i, r[k - 1], k)
  BY <1>1, KeepLocalTurns
<1>3. i \in 1..n /\ i \in Nat \ {0}
  BY <1>1
<1> DEFINE AsLong(k) == /\ Len(r[k].out) >= (IF k < i THEN k ELSE i)
                        /\ Len(r[k].out) <= k
                        /\ i = 1 => r[k].remaining
           T == {k \in 0..n : AsLong(k)}
<1>4. 0 \in T
  <2>0. r[0] = Started(i)
    BY <1>2
  <2>1. r[0].out = << >>
    <3>1. Started(i).out = << >>
      BY DEF Started
    <3> QED BY <2>0, <3>1
  <2>2. ASSUME i = 1 PROVE r[0].remaining
    <3>1. Started(i).remaining = (i = 1)
      BY DEF Started
    <3> QED BY <2>0, <2>2, <3>1
  <2>3. Len(<< >>) = 0
    OBVIOUS
  <2>4. Len(r[0].out) >= (IF 0 < i THEN 0 ELSE i) /\ Len(r[0].out) <= 0
    BY <1>3, <2>1, <2>3
  <2> QED BY <2>2, <2>4
<1>5. ASSUME NEW k \in 1..n, k - 1 \in T PROVE k \in T
  <2>1. PICK acc \in Sifting : acc = r[k - 1]
    BY <1>2
  <2>2. PICK x : x = KeepLocal(q, i, acc, k) /\ r[k] = x
    BY <1>2, <2>1
  <2>3. PICK l \in Nat : l = Len(acc.out)
    BY Places DEF Sifting
  <2>4. /\ Len(x.out) \in {l, l + 1}
        /\ k <= i => Len(x.out) = l + 1
        /\ acc.remaining => x.remaining
    BY <1>1, <2>2, <2>3, KeepLocalType
  <2>5. l >= (IF k - 1 < i THEN k - 1 ELSE i) /\ l <= k - 1 /\ (i = 1 => acc.remaining)
    BY <1>5, <2>1, <2>3
  <2>6. Len(x.out) >= (IF k < i THEN k ELSE i) /\ Len(x.out) <= k
    BY <1>1, <1>3, <2>3, <2>4, <2>5
  <2> QED BY <2>2, <2>4, <2>5, <2>6
<1> HIDE DEF T
<1>6. \A k \in 0..n : k \in T
  BY <1>4, <1>5, Upwards
<1>7. PICK done \in Sifting : done = r[n]
  BY <1>2
<1>8. PICK o : o = done.out
  OBVIOUS
<1>9. /\ o \in Seq(CMailAction) /\ Len(o) \in Nat
      /\ Len(o) >= i /\ Len(o) <= n /\ (i = 1 => done.remaining)
  <2>1. n \in T
    BY <1>6
  <2>2. Len(r[n].out) >= i /\ Len(r[n].out) <= n /\ (i = 1 => r[n].remaining)
    BY <1>3, <2>1 DEF T
  <2>3. o \in Seq(CMailAction)
    BY <1>8 DEF Sifting
  <2> QED BY <1>7, <1>8, <2>2, <2>3, Places
<1>10. RemoveSession(q, i) = IF done.remaining THEN [queue |-> o, i |-> i + 1]
                             ELSE [queue |-> RemoveAt(o, i), i |-> i]
  BY <1>2, <1>7, <1>8 DEF RemoveSession, Started
<1>11. CASE done.remaining
  <2>1. o # << >> /\ i + 1 \in Nat \ {0}
    BY <1>3, <1>9, EmptySeq
  <2> QED BY <1>1, <1>9, <1>10, <1>11, <2>1 DEF Removing, Shorter
<1>12. CASE ~ done.remaining
  <2>1. i \in 1..Len(o) /\ Len(o) - 1 >= 1
    BY <1>3, <1>9, <1>12
  <2>2. RemoveAt(o, i) \in Seq(CMailAction) /\ Len(RemoveAt(o, i)) = Len(o) - 1
    BY <1>9, <2>1, Removed
  <2>3. RemoveAt(o, i) # << >>
    BY <1>9, <2>1, <2>2, EmptySeq
  <2>4. Len(RemoveAt(o, i)) <= n
    BY <1>9, <2>2
  <2> QED BY <1>1, <1>3, <1>10, <1>12, <2>2, <2>3, <2>4 DEF Removing, Shorter
<1> QED BY <1>11, <1>12

LEMMA RemoveNextType ==
    ASSUME NEW b, NEW n \in Nat, NEW s \in Removing(n)
    PROVE  RemoveNext(b)[s] \in Removing(n)
<1>1. PICK q \in Seq(CMailAction), i \in Nat \ {0} :
           q = s.queue /\ i = s.i /\ q # << >> /\ Len(q) <= n
  BY DEF Removing, Shorter
<1>2. Len(q) \in Nat /\ Len(q) # 0
  BY <1>1, Places, EmptySeq
<1>3. s \in [queue : Seq(CMailAction), i : Nat]
  BY DEF Removing, Shorter
<1>4. PICK t : t = [s EXCEPT !.i = i + 1]
  OBVIOUS
<1>5. t \in Removing(n)
  <2>1. i + 1 \in Nat \ {0}
    OBVIOUS
  <2> QED BY <1>4, <2>1 DEF Removing
<1>6. ASSUME i \in 2..Len(q) PROVE [s EXCEPT !.queue = RemoveAt(q, i)] \in Removing(n)
  <2>1. i \in 1..Len(q) /\ Len(q) - 1 >= 1
    BY <1>2, <1>6
  <2>2. PICK p : p = RemoveAt(q, i)
    OBVIOUS
  <2>3. p \in Seq(CMailAction) /\ Len(p) = Len(q) - 1
    BY <2>1, <2>2, Removed
  <2>4. p # << >> /\ Len(p) <= n
    BY <1>1, <1>2, <2>1, <2>3, EmptySeq
  <2>5. p \in Shorter(n)
    BY <2>3, <2>4 DEF Shorter
  <2>6. [s EXCEPT !.queue = p] \in Removing(n)
    BY <2>5 DEF Removing
  <2> QED BY <2>2, <2>6
<1>7. ASSUME i <= Len(q) PROVE RemoveSession(q, i) \in Removing(n)
  <2>1. RemoveSession(q, i) \in Removing(Len(q))
    BY <1>2, <1>7, RemoveSessionType
  <2>2. Shorter(Len(q)) \subseteq Shorter(n)
    <3> SUFFICES ASSUME NEW x \in Shorter(Len(q)) PROVE x \in Shorter(n)
      OBVIOUS
    <3>1. x \in Seq(CMailAction) /\ Len(x) \in Nat /\ Len(x) <= Len(q) /\ x # << >>
      BY Places DEF Shorter
    <3> QED BY <1>1, <1>2, <3>1 DEF Shorter
  <2> QED BY <2>1, <2>2 DEF Removing
<1>8. RemoveNext(b)[s] =
        CASE i > Len(q) -> s
          [] i <= Len(q) /\ q[i].act = "Select" /\ q[i].mbox = b -> RemoveSession(q, i)
          [] i \in 2..Len(q) /\ q[i].act \in {"Create", "Delete", "Rename"}
                             /\ q[i].mbox = b ->
               [s EXCEPT !.queue = RemoveAt(q, i)]
          [] OTHER -> t
  BY <1>1, <1>3, <1>4 DEF RemoveNext
<1>9. CASE i > Len(q)
  <2>1. ~ (i <= Len(q)) /\ i \notin 2..Len(q)
    BY <1>2, <1>9
  <2> QED BY <1>8, <1>9, <2>1
<1>10. CASE i <= Len(q)
  <2>1. ~ (i > Len(q))
    BY <1>2, <1>10
  <2>2. CASE q[i].act = "Select" /\ q[i].mbox = b
    <3>1. q[i].act \notin {"Create", "Delete", "Rename"}
      BY <2>2
    <3> QED BY <1>7, <1>8, <1>10, <2>1, <2>2, <3>1
  <2>3. CASE ~ (q[i].act = "Select" /\ q[i].mbox = b)
    BY <1>5, <1>6, <1>8, <1>10, <2>1, <2>3
  <2> QED BY <2>2, <2>3
<1> QED BY <1>2, <1>9, <1>10

LEMMA RemoveActionsTurns ==
    ASSUME NEW b, NEW q \in Seq(CMailAction), q # << >>
    PROVE  \E r : /\ RemoveActions(q, b) = r[Len(q)].queue
                  /\ r[0] = [queue |-> q, i |-> 1] /\ r[Len(q)] \in Removing(Len(q))
                  /\ \A k \in 1..Len(q) : r[k - 1] \in Removing(Len(q))
                                          /\ r[k] = RemoveNext(b)[r[k - 1]]
<1> DEFINE n    == Len(q)
           A    == Removing(n)
           s0   == [queue |-> q, i |-> 1]
           ids  == [k \in DOMAIN q |-> k]
           E(g) == g = [s \in SUBSET DOMAIN ids |->
                         IF s = {} THEN s0 ELSE RemoveNext(b)[g[s \ {Max(s)}]]]
           f    == CHOOSE g : E(g)
           step == [p \in A \X (1..n) |-> RemoveNext(b)[p[1]]]
<1>1. RemoveActions(q, b) = f[DOMAIN ids].queue
  BY DEF RemoveActions, FoldLeftDomain, FoldLeft, MapThenFoldSet
<1>2. n \in Nat /\ DOMAIN ids = 1..n
  BY Places
<1>3. \A s \in SUBSET (1..n) : s # {} => Max(s) \in 1..n /\ s \ {Max(s)} \in SUBSET (1..n)
  BY <1>2, MaxOf
<1>4. \A x \in A : \A k \in 1..n : step[<<x, k>>] = RemoveNext(b)[x]
  OBVIOUS
<1>5. StaysIn(step, A, n)
  BY <1>2, <1>4, RemoveNextType DEF StaysIn
<1>6. s0 \in A
  BY <1>2 DEF Removing, Shorter
<1> HIDE DEF step, n, A, s0
<1>7. PICK g : IsFold(g, step, s0, A, n)
  BY <1>2, <1>5, <1>6, FoldExists, Zenon
<1>8. ASSUME NEW s \in SUBSET (1..n)
      PROVE  g[s] = IF s = {} THEN s0 ELSE RemoveNext(b)[g[s \ {Max(s)}]]
  <2>1. CASE s = {}
    BY <1>7, <2>1 DEF IsFold
  <2>2. CASE s # {}
    <3>1. Max(s) \in 1..n /\ s \ {Max(s)} \in SUBSET (1..n)
      BY <1>3, <2>2
    <3>2. g[s] = step[<<g[s \ {Max(s)}], Max(s)>>] /\ g[s \ {Max(s)}] \in A
      BY <1>7, <2>2, <3>1 DEF IsFold
    <3> QED BY <1>4, <2>2, <3>1, <3>2
  <2> QED BY <2>1, <2>2
<1>9. E(g)
  BY <1>2, <1>7, <1>8 DEF IsFold
<1>10. E(f)
  BY <1>9
<1> HIDE DEF f, ids
<1>11. \A s \in SUBSET (1..n) :
         f[s] = IF s = {} THEN s0 ELSE RemoveNext(b)[f[s \ {Max(s)}]]
  BY <1>2, <1>10
<1> HIDE DEF E
<1>12. ASSUME NEW s \in SUBSET (1..n), s # {}, f[s \ {Max(s)}] \in A
       PROVE  f[s] = step[<<f[s \ {Max(s)}], Max(s)>>]
  <2>1. Max(s) \in 1..n
    BY <1>3, <1>12
  <2> QED BY <1>4, <1>11, <1>12, <2>1
<1>13. f[{}] = s0
  BY <1>11
<1>14. Follows(f, step, s0, A, n)
  BY <1>12, <1>13 DEF Follows
<1>15. PICK r : f[1..n] = r[n] /\ Turns(r, step, s0, A, n)
  BY <1>2, <1>5, <1>6, <1>14, FoldTurns, Zenon
<1>16. RemoveActions(q, b) = r[n].queue /\ r[0] = s0 /\ r[n] \in A
  BY <1>1, <1>2, <1>15 DEF Turns
<1>17. \A k \in 1..n : r[k - 1] \in A /\ r[k] = RemoveNext(b)[r[k - 1]]
  BY <1>4, <1>15 DEF Turns
<1> QED BY <1>16, <1>17 DEF A, n, s0

LEMMA RemoveActionsType ==
    ASSUME NEW b, NEW q \in Seq(CMailAction), q # << >>
    PROVE  /\ RemoveActions(q, b) \in Seq(CMailAction) /\ RemoveActions(q, b) # << >>
           /\ Len(RemoveActions(q, b)) <= Len(q)
<1>1. PICK r : RemoveActions(q, b) = r[Len(q)].queue /\ r[Len(q)] \in Removing(Len(q))
  BY RemoveActionsTurns
<1> QED BY <1>1 DEF Removing, Shorter

-----------------------------------------------------------------------------
(* What each step of playback does to the types.                           *)
PlayTypeOK ==
    /\ playbacks \in 0..MaxPlaybacks
    /\ queue \in Seq(CMailAction)
    /\ attempts \in {0, 1}
    /\ faults \subseteq {"refused", "earlier", "replayed"}

LEMMA PlayingItem ==
    ASSUME TypeOK, Playing
    PROVE  /\ queue \in Seq(CMailAction) /\ queue # << >>
           /\ Item \in CMailAction /\ world \in World
           /\ Tail(queue) \in Seq(CMailAction)
<1>1. queue \in Seq(CMailAction) /\ queue # << >> /\ world \in World
  BY DEF TypeOK, OfflineTypeOK, Playing
<1>2. Head(queue) \in CMailAction /\ Tail(queue) \in Seq(CMailAction)
  BY <1>1, HeadTailProperties
<1> QED BY <1>1, <1>2 DEF Item

LEMMA ClosedWorld ==
    ASSUME NEW w \in World
    PROVE  [w EXCEPT !.conns = Closed] \in World
<1>1. Closed \in [SessionIDs -> {NoConn} \cup [box : Nat, mbox : Mailboxes]]
  BY DEF Closed
<1> QED BY <1>1, WorldConns

LEMMA ForgetTypes ==
    ASSUME Forget
    PROVE  /\ mCurrent_mbox' \in [Clients -> Mailboxes \cup {NoMbox}]
           /\ mPendingSelect' \in [SessionIDs -> Mailboxes \cup {NoMbox}]
BY DEF Forget

LEMMA GiveUpTypes ==
    ASSUME TypeOK, Playing, NEW w \in World, GiveUp(w)
    PROVE  OfflineTypeOK' /\ queue' \in Seq(CMailAction) /\ attempts' \in {0, 1}
<1>1. queue \in Seq(CMailAction)
  BY PlayingItem
<1>2. w.conns \in Connections
  BY WorldFields DEF Connections
<1>3. actions' \in Seq(CMailAction)
  BY <1>1, <1>2, RecoverSelectsType DEF GiveUp
<1>4. world' \in World
  BY ClosedWorld DEF GiveUp
<1>5. 0 \in SessionIDs /\ mRecordID \in [Clients -> SessionIDs] /\ Main \in Clients
  BY OfflineAssumption DEF TypeOK, OfflineTypeOK, Clients
<1>6. mRecordID' \in [Clients -> SessionIDs]
  BY <1>5 DEF GiveUp
<1>7. /\ phase' = "offline" /\ queue' = << >> /\ attempts' = 0 /\ Forget
      /\ mNextID' = mNextID /\ lflags' = lflags /\ nextMsg' = nextMsg
      /\ origin' = origin /\ odd' = odd
  BY DEF GiveUp
<1>8. OfflineTypeOK'
  BY <1>3, <1>4, <1>6, <1>7, ForgetTypes DEF TypeOK, OfflineTypeOK
<1> QED BY <1>7, <1>8, EmptySeq

LEMMA DoneTypes ==
    ASSUME TypeOK, NEW q \in Seq(CMailAction), NEW w \in World, Done(q, w)
    PROVE  OfflineTypeOK' /\ queue' \in Seq(CMailAction) /\ attempts' \in {0, 1}
<1>1. /\ queue' = q /\ world' = w /\ attempts' = 0 /\ phase' = phase
      /\ mCurrent_mbox' = mCurrent_mbox /\ mRecordID' = mRecordID
      /\ mPendingSelect' = mPendingSelect /\ mNextID' = mNextID /\ actions' = actions
      /\ lflags' = lflags /\ nextMsg' = nextMsg /\ origin' = origin /\ odd' = odd
  BY DEF Done, clientVars, recordVars
<1> QED BY <1>1 DEF TypeOK, OfflineTypeOK

LEMMA AgainTypes ==
    ASSUME TypeOK, NEW w \in World, Again(w)
    PROVE  OfflineTypeOK' /\ queue' \in Seq(CMailAction)
<1>1. /\ queue' = queue /\ world' = w /\ phase' = phase
      /\ mCurrent_mbox' = mCurrent_mbox /\ mRecordID' = mRecordID
      /\ mPendingSelect' = mPendingSelect /\ mNextID' = mNextID /\ actions' = actions
      /\ lflags' = lflags /\ nextMsg' = nextMsg /\ origin' = origin /\ odd' = odd
  BY DEF Again, clientVars, recordVars
<1> QED BY <1>1 DEF TypeOK, OfflineTypeOK

LEMMA UnansweredType ==
    ASSUME TypeOK, Playing
    PROVE  Unanswered \subseteq World
<1>1. Item \in CMailAction /\ world \in World
  BY PlayingItem
<1>2. PICK w \in World : w = PlayEntry(world, Item)
  BY <1>1, PlayEntryType
<1>3. world.mapped \in SUBSET Msgs
  BY <1>1, WorldFields
<1>4. [w EXCEPT !.mapped = world.mapped] \in World
  BY <1>3, WorldMapped
<1> QED BY <1>1, <1>2, <1>4 DEF Unanswered

LEMMA PlayItemTypes ==
    ASSUME TypeOK, PlayItem
    PROVE  TypeOK'
<1>1. Playing /\ playbacks' = playbacks /\ faults' = faults
  BY DEF PlayItem
<1>2. /\ queue \in Seq(CMailAction) /\ queue # << >>
      /\ Item \in CMailAction /\ world \in World
  BY <1>1, PlayingItem
<1>3. PICK q \in Seq(CMailAction) :
           /\ q # << >>
           /\ Done(Tail(q), PlayEntry(world, Item))
  <2>1. PICK p : p = RemoveActions(queue, Item.mbox)
    OBVIOUS
  <2>2. p \in Seq(CMailAction) /\ p # << >>
    BY <1>2, <2>1, RemoveActionsType
  <2>3. \/ Done(Tail(queue), PlayEntry(world, Item))
        \/ Done(Tail(p), PlayEntry(world, Item))
    BY <2>1 DEF PlayItem
  <2> QED BY <1>2, <2>2, <2>3
<1>4. Tail(q) \in Seq(CMailAction)
  BY <1>3, HeadTailProperties
<1>5. PlayEntry(world, Item) \in World
  BY <1>2, PlayEntryType
<1>6. OfflineTypeOK' /\ queue' \in Seq(CMailAction) /\ attempts' \in {0, 1}
  BY <1>3, <1>4, <1>5, DoneTypes
<1> QED BY <1>1, <1>6 DEF TypeOK

LEMMA ItemRefusedTypes ==
    ASSUME TypeOK, ItemRefused
    PROVE  TypeOK'
<1>1. Playing /\ playbacks' = playbacks /\ faults' = faults \cup {"refused"}
  BY DEF ItemRefused
<1>2. /\ queue \in Seq(CMailAction) /\ queue # << >> /\ world \in World
      /\ Tail(queue) \in Seq(CMailAction)
  BY <1>1, PlayingItem
<1>3. PICK q : q = RemoveExpungeActions(queue, world.conns[Item.id].mbox, Item.id)
  OBVIOUS
<1>4. Tail(q) \in Seq(CMailAction)
  <2>1. q \in Seq(CMailAction) /\ q # << >>
    BY <1>2, <1>3, RemoveExpungesType
  <2> QED BY <2>1, HeadTailProperties
<1>5. Done(Tail(queue), world) \/ Done(Tail(q), world) \/ GiveUp(world)
  <2>1. CASE Item.act \notin NeedsSelect \cup {"Append"}
    BY <2>1 DEF ItemRefused
  <2>2. CASE Item.act \in NeedsSelect \cup {"Append"} /\ Connected(world, Item.id)
    BY <1>3, <2>2 DEF ItemRefused
  <2>3. CASE Item.act \in NeedsSelect \cup {"Append"} /\ ~ Connected(world, Item.id)
    BY <2>3 DEF ItemRefused
  <2> QED BY <2>1, <2>2, <2>3
<1>6. OfflineTypeOK' /\ queue' \in Seq(CMailAction) /\ attempts' \in {0, 1}
  BY <1>1, <1>2, <1>4, <1>5, DoneTypes, GiveUpTypes
<1> QED BY <1>1, <1>6 DEF TypeOK

LEMMA ItemRetriedTypes ==
    ASSUME TypeOK, ItemRetried
    PROVE  TypeOK'
<1>1. Playing /\ playbacks' = playbacks /\ faults' = faults
  BY DEF ItemRetried
<1>2. PICK w \in World :
           \/ attempts' = 1 /\ Again(w)
           \/ GiveUp(w)
  BY <1>1, UnansweredType DEF ItemRetried
<1>3. OfflineTypeOK' /\ queue' \in Seq(CMailAction) /\ attempts' \in {0, 1}
  BY <1>1, <1>2, AgainTypes, GiveUpTypes
<1> QED BY <1>1, <1>3 DEF TypeOK

LEMMA ItemFailsTypes ==
    ASSUME TypeOK, ItemFails
    PROVE  TypeOK'
<1>1. Playing /\ playbacks' = playbacks /\ faults' = faults
  BY DEF ItemFails
<1>2. PICK w \in World : GiveUp(w)
  BY <1>1, UnansweredType DEF ItemFails
<1>3. OfflineTypeOK' /\ queue' \in Seq(CMailAction) /\ attempts' \in {0, 1}
  BY <1>1, <1>2, GiveUpTypes
<1> QED BY <1>1, <1>3 DEF TypeOK

LEMMA PlaybackDoneTypes ==
    ASSUME TypeOK, PlaybackDone
    PROVE  TypeOK'
<1>1. world' \in World
  BY ClosedWorld DEF PlaybackDone, TypeOK, OfflineTypeOK
<1>2. /\ phase' = "online" /\ actions' = << >> /\ mNextID' = 1
      /\ mRecordID' = [c \in Clients |-> 0] /\ Forget
      /\ lflags' = lflags /\ nextMsg' = nextMsg /\ origin' = origin /\ odd' = odd
      /\ playbacks' = playbacks /\ queue' = queue /\ attempts' = attempts
      /\ faults' = faults
  BY DEF PlaybackDone, playVars
<1>3. 0 \in SessionIDs /\ 1 \in SessionIDs
  BY OfflineAssumption
<1>4. OfflineTypeOK'
  BY <1>1, <1>2, <1>3, EmptySeq, ForgetTypes DEF TypeOK, OfflineTypeOK
<1> QED BY <1>2, <1>4 DEF TypeOK

LEMMA StartPlaybackTypes ==
    ASSUME TypeOK, StartPlayback
    PROVE  TypeOK'
<1>1. /\ playbacks' = playbacks + 1 /\ playbacks < MaxPlaybacks
      /\ phase' = "playing" /\ queue' = CompactPlayback(actions) /\ attempts' = 0
      /\ faults' \subseteq faults \cup {"earlier"}
      /\ mCurrent_mbox' = mCurrent_mbox /\ mRecordID' = mRecordID
      /\ mPendingSelect' = mPendingSelect /\ mNextID' = mNextID /\ actions' = actions
      /\ lflags' = lflags /\ nextMsg' = nextMsg /\ origin' = origin /\ odd' = odd
      /\ world' = world
  BY DEF StartPlayback, clientVars, recordVars, mailVars
<1>2. CompactPlayback(actions) \in Seq(CMailAction)
  BY CompactPlaybackType DEF TypeOK, OfflineTypeOK
<1>3. OfflineTypeOK'
  BY <1>1 DEF TypeOK, OfflineTypeOK
<1>4. playbacks' \in 0..MaxPlaybacks
  BY <1>1, PlaybacksAssumption DEF TypeOK
<1> QED BY <1>1, <1>2, <1>3, <1>4 DEF TypeOK

LEMMA RestartTypes ==
    ASSUME TypeOK, Restart
    PROVE  TypeOK'
<1>1. world' \in World
  BY ClosedWorld DEF Restart, TypeOK, OfflineTypeOK
<1>2. /\ phase' = "offline" /\ queue' = << >> /\ attempts' = 0
      /\ mRecordID' = [c \in Clients |-> 0] /\ Forget
      /\ faults' \subseteq faults \cup {"replayed"}
      /\ playbacks' = playbacks /\ actions' = actions /\ mNextID' = mNextID
      /\ lflags' = lflags /\ nextMsg' = nextMsg /\ origin' = origin /\ odd' = odd
  BY DEF Restart
<1>3. 0 \in SessionIDs
  BY OfflineAssumption
<1>4. OfflineTypeOK'
  BY <1>1, <1>2, <1>3, ForgetTypes DEF TypeOK, OfflineTypeOK
<1> QED BY <1>2, <1>4, EmptySeq DEF TypeOK

LEMMA StepTypes ==
    ASSUME TypeOK, [Next]_vars
    PROVE  TypeOK'
<1>1. CASE OfflineNext /\ UNCHANGED playVars
  <2>1. OfflineTypeOK'
    BY <1>1, OfflineStepKeeps DEF TypeOK
  <2> QED BY <1>1, <2>1 DEF TypeOK, playVars
<1>2. CASE StartPlayback
  BY <1>2, StartPlaybackTypes
<1>3. CASE PlayStep
  BY <1>3, PlayItemTypes, ItemRefusedTypes, ItemRetriedTypes, ItemFailsTypes,
     PlaybackDoneTypes DEF PlayStep
<1>4. CASE Restart
  BY <1>4, RestartTypes
<1>5. CASE UNCHANGED vars
  <2>1. UNCHANGED offlineVars /\ UNCHANGED playVars
    BY <1>5 DEF vars, offlineVars
  <2>2. OfflineTypeOK'
    BY <2>1, OfflineStepKeeps DEF TypeOK
  <2> QED BY <2>1, <2>2 DEF TypeOK, playVars
<1> QED BY <1>1, <1>2, <1>3, <1>4, <1>5 DEF Next

(* Playback keeps the types of the account: whatever the server refuses,   *)
(* whichever answer does not arrive and wherever the process dies, every   *)
(* entry that is left to be played is complete, with the mailbox, the      *)
(* message or the flag its kind needs (CMailRecord::Playback).             *)
THEOREM PlaybackTypes == Spec => []TypeOK
<1>1. Init => TypeOK
  BY OfflineInitHolds, PlaybacksAssumption, EmptySeq DEF Init, TypeOK
<1>2. TypeOK /\ [Next]_vars => TypeOK'
  BY StepTypes
<1> QED BY <1>1, <1>2, PTL DEF Spec

-----------------------------------------------------------------------------
(* What each step of playback spends.                                      *)
LEMMA TailIsLess ==
    ASSUME TypeOK, NEW q \in Seq(CMailAction), q # << >>, Len(q) <= Len(queue),
           NEW w, Done(Tail(q), w)
    PROVE  Effort' < Effort
<1>1. queue \in Seq(CMailAction) /\ attempts \in {0, 1}
  BY DEF TypeOK
<1>2. Len(q) \in Nat /\ Len(queue) \in Nat /\ Len(q) # 0
  BY <1>1, Places, EmptySeq
<1>3. Len(Tail(q)) = Len(q) - 1
  BY HeadTailProperties
<1>4. Len(queue') = Len(q) - 1 /\ attempts' = 0
  BY <1>3 DEF Done
<1>5. 2 * (Len(q) - 1) + 1 - 0 < 2 * Len(queue) + 1 - attempts
  BY <1>1, <1>2
<1> QED BY <1>4, <1>5 DEF Effort

LEMMA StepSpends ==
    ASSUME TypeOK, Next, phase = "playing", phase' = "playing"
    PROVE  Effort' < Effort
<1>1. PlayItem \/ ItemRefused \/ ItemRetried
  <2>1. ~ OfflineNext
    BY DEF OfflineNext, ClientStep, AccountStep, Open, Close, SetFlag, CopyMessage,
           ExpungeMbox, Search, CreateMbox, DeleteMbox, RenameMbox, AppendMessage, Ready
  <2>2. ~ StartPlayback /\ ~ Restart /\ ~ PlaybackDone /\ ~ ItemFails
    BY DEF StartPlayback, Restart, PlaybackDone, ItemFails, GiveUp
  <2> QED BY <2>1, <2>2 DEF Next, PlayStep
<1>2. \A w : ~ GiveUp(w)
  BY DEF GiveUp
<1>3. Playing
  BY <1>1 DEF PlayItem, ItemRefused, ItemRetried
<1>4. queue \in Seq(CMailAction) /\ queue # << >> /\ Len(queue) \in Nat
  BY <1>3, PlayingItem, Places
<1>5. CASE PlayItem
  <2>1. PICK p : p = RemoveActions(queue, Item.mbox)
    OBVIOUS
  <2>2. p \in Seq(CMailAction) /\ p # << >> /\ Len(p) <= Len(queue)
    BY <1>4, <2>1, RemoveActionsType
  <2>3. \/ Done(Tail(queue), PlayEntry(world, Item))
        \/ Done(Tail(p), PlayEntry(world, Item))
    BY <1>5, <2>1 DEF PlayItem
  <2> QED BY <1>4, <2>2, <2>3, TailIsLess
<1>6. CASE ItemRefused
  <2>1. PICK p : p = RemoveExpungeActions(queue, world.conns[Item.id].mbox, Item.id)
    OBVIOUS
  <2>2. p \in Seq(CMailAction) /\ p # << >> /\ Len(p) <= Len(queue)
    BY <1>4, <2>1, RemoveExpungesType
  <2>3. Done(Tail(queue), world) \/ Done(Tail(p), world)
    <3>1. CASE Item.act \notin NeedsSelect \cup {"Append"}
      BY <1>6, <3>1 DEF ItemRefused
    <3>2. CASE Item.act \in NeedsSelect \cup {"Append"} /\ Connected(world, Item.id)
      BY <1>6, <2>1, <3>2 DEF ItemRefused
    <3>3. CASE Item.act \in NeedsSelect \cup {"Append"} /\ ~ Connected(world, Item.id)
      BY <1>2, <1>6, <3>3 DEF ItemRefused
    <3> QED BY <3>1, <3>2, <3>3
  <2> QED BY <1>4, <2>2, <2>3, TailIsLess
<1>7. CASE ItemRetried
  <2>1. PICK w : IF attempts = 0 THEN attempts' = 1 /\ Again(w) ELSE GiveUp(w)
    BY <1>7 DEF ItemRetried
  <2>2. attempts = 0 /\ attempts' = 1 /\ queue' = queue
    BY <1>2, <2>1 DEF Again
  <2> QED BY <1>4, <2>2 DEF Effort
<1> QED BY <1>1, <1>5, <1>6, <1>7

(* Every step of a playback that goes on spends some of a bounded effort,  *)
(* so that no playback takes more than two steps for each entry it has, for*)
(* any journal and whatever the server answers (CMailRecord::Playback).    *)
THEOREM PlaybackSpends == Spec => EffortSpent
<1>1. TypeOK /\ [Next]_vars
        => [phase = "playing" /\ phase' = "playing" => Effort' < Effort]_vars
  BY StepSpends
<1> QED BY <1>1, PlaybackTypes, PTL DEF Spec, EffortSpent

-----------------------------------------------------------------------------
(* A journal in the middle of its playback: it is in order, its sessions   *)
(* are known, and what happens in a mailbox is behind a Select or in one of*)
(* the sessions that are open, which are not selected again.               *)
Replay(q, open, n) ==
    /\ q \in Seq(CMailAction)
    /\ InOrder(q) /\ Known(q, n)
    /\ \A i \in DOMAIN q : q[i].act \in SessionActs =>
         Has(q, "Select", q[i].id) \/ q[i].id \in open
    /\ \A id \in open : ~ Has(q, "Select", id)

(* A journal whose entries are entries of q, in another place: p[k] is what*)
(* q has at h[k].                                                          *)
Moved(q, p, h) ==
    \A k \in DOMAIN p : h[k] \in DOMAIN q /\ p[k].act = q[h[k]].act /\ p[k].id = q[h[k]].id

LEMMA MovedKnown ==
    ASSUME NEW q, NEW p, NEW h, Moved(q, p, h), NEW n, Known(q, n)
    PROVE  Known(p, n)
BY DEF Moved, Known

LEMMA MovedHas ==
    ASSUME NEW q, NEW p, NEW h, Moved(q, p, h), NEW act, NEW id, Has(p, act, id)
    PROVE  Has(q, act, id)
BY DEF Moved, Has

LEMMA MovedOrder ==
    ASSUME NEW q, NEW p, NEW h, Moved(q, p, h), InOrder(q),
           \A k, l \in DOMAIN p : h[k] <= h[l] => k <= l
    PROVE  InOrder(p)
BY DEF Moved, InOrder

(* Without the entry at i, which is not the Select of anything else.       *)
LEMMA RemovedReplay ==
    ASSUME NEW q, NEW open, NEW n, Replay(q, open, n), NEW i \in DOMAIN q,
           q[i].act = "Select" =>
             \A k \in DOMAIN q \ {i} : q[k].id = q[i].id => q[k].act \notin SessionActs
    PROVE  /\ Replay(RemoveAt(q, i), open, n)
           /\ \A k \in DOMAIN RemoveAt(q, i) : k < i => RemoveAt(q, i)[k] = q[k]
<1>1. q \in Seq(CMailAction) /\ Len(q) \in Nat /\ DOMAIN q = 1..Len(q) /\ i \in 1..Len(q)
  BY Places DEF Replay
<1>2. PICK p : p = RemoveAt(q, i)
  OBVIOUS
<1>3. /\ p \in Seq(CMailAction) /\ Len(p) = Len(q) - 1
      /\ \A k \in 1..(Len(q) - 1) : p[k] = q[Skip(i, k)]
  BY <1>1, <1>2, Removed
<1>4. DOMAIN p = 1..(Len(q) - 1)
  BY <1>3, Places
<1>5. PICK h : h = [k \in DOMAIN p |-> Skip(i, k)]
  OBVIOUS
<1>6. ASSUME NEW k \in DOMAIN p
      PROVE  h[k] \in DOMAIN q /\ h[k] # i /\ p[k] = q[h[k]] /\ (k < i => h[k] = k)
  BY <1>1, <1>3, <1>4, <1>5 DEF Skip
<1>7. Moved(q, p, h)
  BY <1>6 DEF Moved
<1>8. \A k, l \in DOMAIN p : h[k] <= h[l] => k <= l
  BY <1>1, <1>4, <1>5 DEF Skip
<1>9. InOrder(p) /\ Known(p, n)
  BY <1>7, <1>8, MovedOrder, MovedKnown DEF Replay
<1>10. ASSUME NEW j \in DOMAIN q, j # i
       PROVE  \E k \in DOMAIN p : p[k] = q[j]
  <2>1. CASE j < i
    <3>1. j \in DOMAIN p
      BY <1>1, <1>4, <2>1
    <3> QED BY <1>6, <2>1, <3>1
  <2>2. CASE j > i
    <3>1. j - 1 \in DOMAIN p /\ h[j - 1] = j
      BY <1>1, <1>4, <1>5, <2>2 DEF Skip
    <3> QED BY <1>6, <3>1
  <2> QED BY <1>1, <1>10, <2>1, <2>2
<1>11. ASSUME NEW k \in DOMAIN p, p[k].act \in SessionActs
       PROVE  Has(p, "Select", p[k].id) \/ p[k].id \in open
  <2>1. PICK j \in DOMAIN q \ {i} : p[k] = q[j]
    BY <1>6
  <2>2. CASE q[j].id \in open
    BY <2>1, <2>2
  <2>3. CASE Has(q, "Select", q[j].id)
    <3>1. PICK s \in DOMAIN q : q[s].act = "Select" /\ q[s].id = q[j].id
      BY <2>3 DEF Has
    <3>2. s # i
      BY <1>11, <2>1, <3>1
    <3>3. PICK l \in DOMAIN p : p[l] = q[s]
      BY <1>10, <3>2
    <3> QED BY <2>1, <3>1, <3>3 DEF Has
  <2> QED BY <1>11, <2>1, <2>2, <2>3 DEF Replay
<1>12. \A id \in open : ~ Has(p, "Select", id)
  BY <1>7, MovedHas DEF Replay
<1> QED BY <1>2, <1>3, <1>6, <1>9, <1>11, <1>12 DEF Replay

(* Once its first entry is played: a Select opens its session, a Deselect  *)
(* closes it.                                                              *)
After(a, open) ==
    CASE a.act = "Select"   -> open \cup {a.id}
      [] a.act = "Deselect" -> open \ {a.id}
      [] OTHER              -> open

(* Playing the first entry opens or closes its session.                  *)
LEMMA PlayedReplay ==
    ASSUME NEW q, NEW open, NEW n, Replay(q, open, n), q # << >>
    PROVE  Replay(Tail(q), After(q[1], open), n)
<1>1. q \in Seq(CMailAction) /\ Len(q) \in Nat /\ DOMAIN q = 1..Len(q) /\ 1 \in DOMAIN q
  BY Places, EmptySeq DEF Replay
<1>2. PICK p : p = Tail(q)
  OBVIOUS
<1>3. /\ p \in Seq(CMailAction) /\ Len(p) = Len(q) - 1
      /\ \A k \in 1..(Len(q) - 1) : p[k] = q[k + 1]
  BY <1>1, <1>2, HeadTailProperties
<1>4. DOMAIN p = 1..(Len(q) - 1)
  BY <1>3, Places
<1>5. PICK h : h = [k \in DOMAIN p |-> k + 1]
  OBVIOUS
<1>6. \A k \in DOMAIN p : h[k] \in DOMAIN q \ {1} /\ p[k] = q[h[k]]
  BY <1>1, <1>3, <1>4, <1>5
<1>7. Moved(q, p, h)
  BY <1>6 DEF Moved
<1>8. \A k, l \in DOMAIN p : h[k] <= h[l] => k <= l
  BY <1>1, <1>4, <1>5
<1>9. InOrder(p) /\ Known(p, n)
  BY <1>7, <1>8, MovedOrder, MovedKnown DEF Replay
<1>10. \A j \in DOMAIN q \ {1} : \E k \in DOMAIN p : p[k] = q[j]
  <2> SUFFICES ASSUME NEW j \in DOMAIN q \ {1} PROVE \E k \in DOMAIN p : p[k] = q[j]
    OBVIOUS
  <2>1. j - 1 \in DOMAIN p /\ p[j - 1] = q[j]
    BY <1>1, <1>3, <1>4
  <2> QED BY <2>1
<1>11. \A j \in DOMAIN q \ {1} : q[j].id = q[1].id =>
         /\ q[j].act # "Select"
         /\ q[1].act = "Deselect" => q[j].act \notin SessionActs
  <2> SUFFICES ASSUME NEW j \in DOMAIN q \ {1}, q[j].id = q[1].id
               PROVE  /\ q[j].act # "Select"
                      /\ q[1].act = "Deselect" => q[j].act \notin SessionActs
    OBVIOUS
  <2>1. ~ (j <= 1)
    BY <1>1
  <2>2. InOrder(q)
    BY DEF Replay
  <2> QED BY <1>1, <2>1, <2>2 DEF InOrder
<1>12. ASSUME NEW k \in DOMAIN p, p[k].act \in SessionActs
       PROVE  Has(p, "Select", p[k].id) \/ p[k].id \in After(q[1], open)
  <2>1. PICK j \in DOMAIN q \ {1} : p[k] = q[j]
    BY <1>6
  <2>2. CASE q[j].id \in open
    <3>1. ~ (q[1].act = "Deselect" /\ q[j].id = q[1].id)
      BY <1>11, <1>12, <2>1
    <3> QED BY <2>1, <2>2, <3>1 DEF After
  <2>3. CASE Has(q, "Select", q[j].id)
    <3>1. PICK s \in DOMAIN q : q[s].act = "Select" /\ q[s].id = q[j].id
      BY <2>3 DEF Has
    <3>2. CASE s = 1
      BY <2>1, <3>1, <3>2 DEF After
    <3>3. CASE s # 1
      <4>1. PICK l \in DOMAIN p : p[l] = q[s]
        BY <1>10, <3>3
      <4> QED BY <2>1, <3>1, <4>1 DEF Has
    <3> QED BY <3>2, <3>3
  <2> QED BY <1>12, <2>1, <2>2, <2>3 DEF Replay
<1>13. ASSUME NEW id \in After(q[1], open), Has(p, "Select", id) PROVE FALSE
  <2>1. PICK k \in DOMAIN p : p[k].act = "Select" /\ p[k].id = id
    BY <1>13 DEF Has
  <2>2. PICK j \in DOMAIN q \ {1} : p[k] = q[j]
    BY <1>6
  <2>3. id # q[1].id
    BY <1>11, <2>1, <2>2
  <2>4. id \in open
    BY <2>3 DEF After
  <2>5. Has(q, "Select", id)
    BY <1>7, <1>13, MovedHas
  <2> QED BY <2>4, <2>5 DEF Replay
<1> QED BY <1>2, <1>3, <1>9, <1>12, <1>13 DEF Replay

-----------------------------------------------------------------------------
(* The selects that are put back, one session after the other.             *)
Before(i, k) == IF k < i THEN k ELSE k - 1

(* A Select is put in front of the first entry of a session that is open.*)
LEMMA InsertedAt ==
    ASSUME NEW S, NEW q \in Seq(S), NEW i \in 1..Len(q), NEW e \in S
    PROVE  /\ InsertAt(q, i, e) \in Seq(S) /\ Len(InsertAt(q, i, e)) = Len(q) + 1
           /\ InsertAt(q, i, e)[i] = e
           /\ \A k \in 1..(Len(q) + 1) : k # i => InsertAt(q, i, e)[k] = q[Before(i, k)]
<1>1. Len(q) \in Nat /\ i \in Nat \ {0} /\ i <= Len(q)
  BY LenProperties
<1>2. PICK a : a = SubSeq(q, 1, i - 1)
  OBVIOUS
<1>3. PICK z : z = SubSeq(q, i, Len(q))
  OBVIOUS
<1>4. /\ a \in Seq(S) /\ Len(a) = i - 1
      /\ \A k \in 1..(i - 1) : a[k] = q[k]
  BY <1>1, <1>2, SubSeqProperties
<1>5. /\ z \in Seq(S) /\ Len(z) = Len(q) - i + 1
      /\ \A k \in 1..(Len(q) - i + 1) : z[k] = q[i + k - 1]
  BY <1>1, <1>3, SubSeqProperties
<1>6. PICK m : m = a \o <<e>>
  OBVIOUS
<1>7. <<e>> \in Seq(S) /\ Len(<<e>>) = 1 /\ <<e>>[1] = e
  OBVIOUS
<1>8. /\ m \in Seq(S) /\ Len(m) = i /\ m[i] = e
      /\ \A k \in 1..(i - 1) : m[k] = q[k]
  BY <1>1, <1>4, <1>6, <1>7, ConcatProperties
<1>9. PICK p : p = m \o z
  OBVIOUS
<1>10. /\ p \in Seq(S) /\ Len(p) = Len(q) + 1 /\ p[i] = e
       /\ \A k \in 1..(i - 1) : p[k] = q[k]
       /\ \A k \in (i + 1)..(Len(q) + 1) : p[k] = q[k - 1]
  <2>0. /\ p \in Seq(S) /\ Len(p) = Len(m) + Len(z)
        /\ \A k \in 1..(Len(m) + Len(z)) : p[k] = IF k <= Len(m) THEN m[k] ELSE z[k - Len(m)]
    BY <1>5, <1>8, <1>9, ConcatProperties
  <2>1. /\ p \in Seq(S) /\ Len(p) = Len(q) + 1
        /\ \A k \in 1..i : p[k] = m[k]
        /\ \A k \in (i + 1)..(Len(q) + 1) : p[k] = z[k - i]
    BY <1>1, <1>5, <1>8, <2>0
  <2>2. \A k \in (i + 1)..(Len(q) + 1) : p[k] = q[k - 1]
    BY <1>1, <1>5, <2>1
  <2> QED BY <1>1, <1>8, <2>1, <2>2
<1>11. InsertAt(q, i, e) = p
  BY <1>2, <1>3, <1>6, <1>9 DEF InsertAt
<1> QED BY <1>1, <1>10, <1>11 DEF Before

LEMMA InsertedReplay ==
    ASSUME NEW q, NEW open, NEW n, Replay(q, open, n), NEW i \in DOMAIN q,
           NEW e \in CMailAction, e.act = "Select", e.id = q[i].id, e.id # 0, e.id \in open,
           \A k \in DOMAIN q : q[k].id = e.id => i <= k
    PROVE  Replay(InsertAt(q, i, e), open \ {e.id}, n)
<1>1. q \in Seq(CMailAction) /\ Len(q) \in Nat /\ DOMAIN q = 1..Len(q) /\ i \in 1..Len(q)
  BY Places DEF Replay
<1>2. PICK p : p = InsertAt(q, i, e)
  OBVIOUS
<1>3. /\ p \in Seq(CMailAction) /\ Len(p) = Len(q) + 1 /\ p[i] = e
      /\ \A k \in 1..(Len(q) + 1) : k # i => p[k] = q[Before(i, k)]
  <2>1. p \in Seq(CMailAction) /\ Len(p) = Len(q) + 1 /\ p[i] = e
    BY <1>1, <1>2, InsertedAt
  <2>2. \A k \in 1..(Len(q) + 1) : k # i => p[k] = q[Before(i, k)]
    BY <1>1, <1>2, InsertedAt
  <2> QED BY <2>1, <2>2
<1>4. DOMAIN p = 1..(Len(q) + 1)
  BY <1>3, Places
<1>5. PICK h : h = [k \in DOMAIN p |-> Before(i, k)]
  OBVIOUS
<1>6. ASSUME NEW k \in DOMAIN p, k # i
      PROVE  h[k] \in DOMAIN q /\ p[k] = q[h[k]]
  BY <1>1, <1>3, <1>4, <1>5, <1>6 DEF Before
<1>7. ASSUME NEW j \in DOMAIN q
      PROVE  \E k \in DOMAIN p : k # i /\ h[k] = j
  <2>1. CASE j < i
    <3>1. j \in DOMAIN p /\ j # i /\ h[j] = j
      BY <1>1, <1>4, <1>5, <2>1 DEF Before
    <3> QED BY <3>1
  <2>2. CASE j >= i
    <3>1. j + 1 \in DOMAIN p /\ j + 1 # i /\ h[j + 1] = j
      BY <1>1, <1>4, <1>5, <2>2 DEF Before
    <3> QED BY <3>1
  <2> QED BY <1>1, <2>1, <2>2
<1>8. ASSUME NEW k \in DOMAIN p, p[k].id = e.id PROVE i <= k
  <2>1. CASE k = i
    BY <1>1, <2>1
  <2>2. CASE k # i
    <3>1. h[k] \in DOMAIN q /\ q[h[k]].id = e.id
      BY <1>6, <1>8, <2>2
    <3>2. i <= h[k]
      BY <3>1
    <3> QED BY <1>1, <1>4, <1>5, <3>2 DEF Before
  <2> QED BY <2>1, <2>2
<1>9. ~ Has(q, "Select", e.id) /\ InOrder(q) /\ Known(q, n)
  BY DEF Replay
<1>10. ASSUME NEW k \in DOMAIN p, NEW l \in DOMAIN p, p[k].id = p[l].id
       PROVE  /\ p[k].act = "Select" => k <= l
              /\ p[k].act = "Deselect" /\ p[l].act \in SessionActs => l <= k
  <2>1. CASE k = i
    BY <1>3, <1>8, <1>10, <2>1
  <2>2. CASE k # i /\ l = i
    <3>1. p[k].id = e.id /\ i <= k /\ p[k] = q[h[k]] /\ h[k] \in DOMAIN q
      BY <1>3, <1>6, <1>8, <1>10, <2>2
    <3>2. p[k].act # "Select"
      BY <1>9, <3>1 DEF Has
    <3> QED BY <2>2, <3>1, <3>2
  <2>3. CASE k # i /\ l # i
    <3>1. /\ h[k] \in DOMAIN q /\ p[k] = q[h[k]]
          /\ h[l] \in DOMAIN q /\ p[l] = q[h[l]]
      BY <1>6, <2>3
    <3>2. /\ p[k].act = "Select" => h[k] <= h[l]
          /\ p[k].act = "Deselect" /\ p[l].act \in SessionActs => h[l] <= h[k]
      BY <1>9, <1>10, <3>1 DEF InOrder
    <3>3. /\ h[k] <= h[l] => k <= l
          /\ h[l] <= h[k] => l <= k
      BY <1>1, <1>4, <1>5, <2>3 DEF Before
    <3> QED BY <3>2, <3>3
  <2> QED BY <2>1, <2>2, <2>3
<1>11. InOrder(p)
  BY <1>10 DEF InOrder
<1>12. ASSUME NEW k \in DOMAIN p
       PROVE  p[k].id < n /\ (p[k].act \in SessionActs => p[k].id # 0)
  <2>1. CASE k = i
    <3>1. q[i].id < n
      BY <1>9 DEF Known
    <3> QED BY <1>3, <2>1, <3>1
  <2>2. CASE k # i
    BY <1>6, <1>9, <2>2 DEF Known
  <2> QED BY <2>1, <2>2
<1>13. i \in DOMAIN p
  BY <1>1, <1>4
<1>14. \A act, id : Has(q, act, id) => Has(p, act, id)
  <2> SUFFICES ASSUME NEW act, NEW id, Has(q, act, id) PROVE Has(p, act, id)
    OBVIOUS
  <2>1. PICK j \in DOMAIN q : q[j].act = act /\ q[j].id = id
    BY DEF Has
  <2>2. PICK k \in DOMAIN p : k # i /\ h[k] = j
    BY <1>7
  <2>3. p[k] = q[j]
    BY <1>6, <2>2
  <2> QED BY <2>1, <2>3 DEF Has
<1>15. ASSUME NEW k \in DOMAIN p, p[k].act \in SessionActs
       PROVE  Has(p, "Select", p[k].id) \/ p[k].id \in open \ {e.id}
  <2>1. CASE p[k].id = e.id
    BY <1>3, <1>13, <2>1 DEF Has
  <2>2. CASE p[k].id # e.id
    <3>1. PICK j \in DOMAIN q : p[k] = q[j]
      BY <1>3, <1>6, <2>2
    <3>2. Has(q, "Select", q[j].id) \/ q[j].id \in open
      BY <1>15, <3>1 DEF Replay
    <3> QED BY <1>14, <2>2, <3>1, <3>2
  <2> QED BY <2>1, <2>2
<1>16. ASSUME NEW id \in open \ {e.id}, Has(p, "Select", id) PROVE FALSE
  <2>1. PICK k \in DOMAIN p : p[k].act = "Select" /\ p[k].id = id
    BY <1>16 DEF Has
  <2>2. PICK j \in DOMAIN q : p[k] = q[j]
    BY <1>3, <1>6, <1>16, <2>1
  <2>3. Has(q, "Select", id)
    BY <2>1, <2>2 DEF Has
  <2> QED BY <1>16, <2>3 DEF Replay
<1>17. Known(p, n)
  BY <1>12 DEF Known
<1> QED BY <1>2, <1>3, <1>11, <1>15, <1>16, <1>17 DEF Replay

(* Playback_RecoverSelects, one session and then all of them.            *)
LEMMA RecoverReplay ==
    ASSUME NEW q, NEW open, NEW n, Replay(q, open, n), NEW conns \in Connections,
           NEW id \in SessionIDs \ {0}, id \in open <=> conns[id] # NoConn
    PROVE  Replay(Recover(conns, q, id), open \ {id}, n)
<1>1. q \in Seq(CMailAction)
  BY DEF Replay
<1>2. PICK mine : mine = {k \in DOMAIN q : q[k].id = id}
  OBVIOUS
<1>3. CASE id \notin open
  <2>1. open \ {id} = open
    BY <1>3
  <2>2. Recover(conns, q, id) = q
    BY <1>3 DEF Recover
  <2> QED BY <2>1, <2>2
<1>4. CASE mine = {}
  <2>1. Recover(conns, q, id) = q
    BY <1>2, <1>4 DEF Recover
  <2>2. \A k \in DOMAIN q : q[k].id # id
    BY <1>2, <1>4
  <2> QED BY <2>1, <2>2 DEF Replay
<1>5. CASE id \in open /\ mine # {}
  <2>1. mine \in SUBSET Nat /\ mine \subseteq DOMAIN q
    BY <1>1, <1>2, Places
  <2>2. PICK m \in DOMAIN q : m = Min(mine) /\ m \in mine /\ \A y \in mine : m <= y
    BY <1>5, <2>1, MinOf
  <2>3. conns[id] \in [box : Nat, mbox : Mailboxes]
    BY <1>5 DEF Connections
  <2>4. conns[id].mbox \in Mailboxes
    BY <2>3
  <2>5. PICK e : e = Made("Select", id, conns[id].mbox)
    OBVIOUS
  <2>6. e \in CMailAction /\ e.act = "Select" /\ e.id = id
    BY <2>4, <2>5, MadeEntry
  <2>7. q[m].id = id /\ \A k \in DOMAIN q : q[k].id = e.id => m <= k
    BY <1>2, <2>2, <2>6
  <2>8. q[m].act # "Select"
    BY <1>5, <2>7 DEF Replay, Has
  <2>9. Recover(conns, q, id) = InsertAt(q, m, e)
    BY <1>2, <1>5, <2>2, <2>5, <2>8 DEF Recover, Made
  <2>10. Replay(InsertAt(q, m, e), open \ {e.id}, n)
    BY <1>5, <2>6, <2>7, InsertedReplay
  <2> QED BY <2>6, <2>9, <2>10
<1> QED BY <1>3, <1>4, <1>5

OpenIn(conns) == {id \in SessionIDs : conns[id] # NoConn}

(* A journal that is written anew is one as it is recorded.                *)
LEMMA RecoverSelectsRecorded ==
    ASSUME NEW conns \in Connections, NEW q, NEW n, Replay(q, OpenIn(conns), n)
    PROVE  Recorded(RecoverSelects(q, conns)) /\ Known(RecoverSelects(q, conns), n)
<1>1. q \in Seq(CMailAction)
  BY DEF Replay
<1>2. PICK r : /\ RecoverSelects(q, conns) = r[MaxID] /\ r[0] = q
               /\ \A k \in 1..MaxID : r[k] = Recover(conns, r[k - 1], k)
  BY <1>1, RecoverSelectsTurns
<1>3. MaxID \in Nat /\ SessionIDs = 0..MaxID
  BY OfflineAssumption
<1> DEFINE Left(k) == {id \in OpenIn(conns) : ~ (id \in 1..k)}
           T == {k \in 0..MaxID : Replay(r[k], Left(k), n)}
<1>4. 0 \in T
  <2>1. Left(0) = OpenIn(conns)
    OBVIOUS
  <2>2. Replay(r[0], Left(0), n)
    BY <1>2, <2>1, Zenon
  <2> HIDE DEF Left
  <2> QED BY <1>3, <2>2
<1>5. ASSUME NEW k \in 1..MaxID, k - 1 \in T PROVE k \in T
  <2>1. PICK o : o = Left(k - 1)
    OBVIOUS
  <2>2. Replay(r[k - 1], o, n)
    BY <1>5, <2>1
  <2>3. k \in SessionIDs \ {0} /\ (k \in o <=> conns[k] # NoConn)
    BY <1>3, <2>1 DEF OpenIn
  <2>4. Replay(Recover(conns, r[k - 1], k), o \ {k}, n)
    BY <2>2, <2>3, RecoverReplay
  <2>5. o \ {k} = Left(k)
    <3>1. 1..k = (1..(k - 1)) \cup {k}
      BY <1>3
    <3> QED BY <2>1, <3>1
  <2>6. Replay(r[k], Left(k), n)
    BY <1>2, <2>4, <2>5
  <2> QED BY <1>3, <2>6
<1> HIDE DEF T
<1>6. \A k \in 0..MaxID : k \in T
  BY <1>3, <1>4, <1>5, Upwards
<1>7. PICK p : p = r[MaxID] /\ Replay(p, Left(MaxID), n)
  <2>1. MaxID \in T
    BY <1>3, <1>6
  <2> QED BY <2>1 DEF T
<1>8. ASSUME NEW i \in DOMAIN p, p[i].act \in SessionActs
      PROVE  Has(p, "Select", p[i].id)
  <2>1. p[i].id # 0
    BY <1>7, <1>8 DEF Replay, Known
  <2>2. p[i].id \notin Left(MaxID)
    BY <1>3, <2>1 DEF OpenIn
  <2> QED BY <1>7, <1>8, <2>2 DEF Replay
<1> QED BY <1>2, <1>7, <1>8 DEF Replay, Recorded

-----------------------------------------------------------------------------
(* The sessions that are taken out of the journal.                         *)
Sifted(q, i, acc, k) ==
    /\ acc \in Sifting
    /\ InOrder(acc.out)
    /\ \A l \in DOMAIN acc.out :
         \E j \in 1..k : acc.out[l].act = q[j].act /\ acc.out[l].id = q[j].id
    /\ \A j \in 1..k : q[j].act = "Select" => Has(acc.out, "Select", q[j].id)
    /\ \A j \in 1..k : j <= i => j <= Len(acc.out) /\ acc.out[j] = q[j]
    /\ k <= i => Len(acc.out) = k
    /\ acc.remaining \/ \A l \in DOMAIN acc.out : l > i => acc.out[l].id # q[i].id
    /\ i = 1 => acc.remaining

Carries(q, i, o, p, e, k) ==
    /\ p \in Seq(CMailAction) /\ InOrder(p)
    /\ \A l \in DOMAIN p :
         /\ \E j \in 1..k : p[l].act = q[j].act /\ p[l].id = q[j].id
         /\ p[l] = e \/ (l \in DOMAIN o /\ p[l] = o[l])
    /\ \A j \in 1..k : q[j].act = "Select" => Has(p, "Select", q[j].id)
    /\ \A j \in 1..k : j <= i => j <= Len(p) /\ p[j] = q[j]
    /\ k <= i => Len(p) = k

LEMMA SiftedPut ==
    ASSUME NEW q \in Seq(CMailAction), InOrder(q), NEW i \in 1..Len(q), NEW k \in 1..Len(q),
           NEW acc, Sifted(q, i, acc, k - 1),
           NEW e \in CMailAction, e.act = q[k].act, e.id = q[k].id, k <= i => e = q[k]
    PROVE  Carries(q, i, acc.out, Append(acc.out, e), e, k)
<1>1. PICK p : p = Append(acc.out, e)
  OBVIOUS
<1>2. PICK o \in Seq(CMailAction) : o = acc.out
  BY DEF Sifted, Sifting
<1>3. Len(q) \in Nat /\ DOMAIN q = 1..Len(q) /\ Len(o) \in Nat /\ DOMAIN o = 1..Len(o)
  BY Places
<1>4. k \in Nat /\ i \in Nat /\ k >= 1 /\ (k - 1) \in Nat
  BY <1>3
<1>5. /\ p \in Seq(CMailAction) /\ Len(p) = Len(o) + 1
      /\ \A l \in 1..Len(o) : p[l] = o[l]
      /\ p[Len(o) + 1] = e
  BY <1>1, <1>2, Appended
<1>6. \A l \in DOMAIN o : \E j \in 1..(k - 1) : o[l].act = q[j].act /\ o[l].id = q[j].id
  BY <1>2 DEF Sifted
<1>7. ASSUME NEW l \in DOMAIN o, o[l].id = e.id
      PROVE  /\ o[l].act = "Deselect" => e.act \notin SessionActs
             /\ e.act # "Select"
  <2>1. PICK j \in 1..(k - 1) : o[l].act = q[j].act /\ o[l].id = q[j].id
    BY <1>6
  <2>2. j \in DOMAIN q /\ k \in DOMAIN q /\ ~ (k <= j)
    BY <1>3, <1>4
  <2> QED BY <1>7, <2>1, <2>2 DEF InOrder
<1>8. InOrder(o)
  BY <1>2 DEF Sifted
<1>9. /\ InOrder(p)
      /\ \A l \in DOMAIN p : p[l] = e \/ (l \in DOMAIN o /\ p[l] = o[l])
      /\ Has(p, e.act, e.id)
      /\ \A act, id : Has(o, act, id) => Has(p, act, id)
  BY <1>1, <1>2, <1>7, <1>8, PutLast
<1>10. \A j \in 1..(k - 1) : j \in 1..k
  BY <1>4
<1>11. ASSUME NEW l \in DOMAIN p
       PROVE  \E j \in 1..k : p[l].act = q[j].act /\ p[l].id = q[j].id
  <2>1. CASE p[l] = e
    <3>1. k \in 1..k
      BY <1>4
    <3> QED BY <2>1, <3>1
  <2>2. CASE l \in DOMAIN o /\ p[l] = o[l]
    BY <1>6, <1>10, <2>2
  <2> QED BY <1>9, <2>1, <2>2
<1>12. ASSUME NEW j \in 1..k, q[j].act = "Select" PROVE Has(p, "Select", q[j].id)
  <2>1. CASE j = k
    BY <1>9, <1>12, <2>1
  <2>2. CASE j # k
    <3>1. j \in 1..(k - 1)
      BY <1>4, <2>2
    <3>2. Has(o, "Select", q[j].id)
      BY <1>2, <1>12, <3>1 DEF Sifted
    <3> QED BY <1>9, <3>2
  <2> QED BY <2>1, <2>2
<1>13. k - 1 <= i => Len(o) = k - 1
  BY <1>2 DEF Sifted
<1>14. \A j \in 1..(k - 1) : j <= i => j <= Len(o) /\ o[j] = q[j]
  BY <1>2 DEF Sifted
<1>15. k <= i => Len(p) = k /\ p[k] = e
  BY <1>3, <1>4, <1>5, <1>13
<1>16. ASSUME NEW j \in 1..k, j <= i PROVE j <= Len(p) /\ p[j] = q[j]
  <2>1. CASE j = k
    BY <1>4, <1>15, <1>16, <2>1
  <2>2. CASE j # k
    <3>1. j \in 1..(k - 1)
      BY <1>4, <2>2
    <3>2. j <= Len(o) /\ o[j] = q[j] /\ j \in 1..Len(o)
      BY <1>3, <1>4, <1>14, <1>16, <3>1
    <3> QED BY <1>3, <1>4, <1>5, <3>2
  <2> QED BY <2>1, <2>2
<1>17. Carries(q, i, o, p, e, k)
  BY <1>5, <1>9, <1>11, <1>12, <1>15, <1>16 DEF Carries
<1> QED BY <1>1, <1>2, <1>17

(* One entry of the session whose mailbox is missing, or of another.     *)
LEMMA KeepLocalSifts ==
    ASSUME NEW q \in Seq(CMailAction), InOrder(q), NEW i \in 1..Len(q), q[i].act = "Select",
           NEW k \in 1..Len(q), NEW acc, Sifted(q, i, acc, k - 1)
    PROVE  Sifted(q, i, KeepLocal(q, i, acc, k), k)
<1>1. Len(q) \in Nat /\ DOMAIN q = 1..Len(q) /\ q[k] \in CMailAction
  BY Places
<1>2. acc \in Sifting
  BY DEF Sifted
<1>3. PICK x : x = KeepLocal(q, i, acc, k) /\ x \in Sifting
  BY <1>2, KeepLocalType
<1>4. CASE k <= i \/ q[k].id # q[i].id
  <2>1. PICK p : p = Append(acc.out, q[k])
    OBVIOUS
  <2>2. x = [acc EXCEPT !.out = p]
    BY <1>3, <1>4, <2>1 DEF KeepLocal
  <2>3. x.out = p /\ x.remaining = acc.remaining
    BY <1>2, <2>2 DEF Sifting
  <2>4. Carries(q, i, acc.out, p, q[k], k)
    BY <1>1, <2>1, SiftedPut
  <2>5. ASSUME ~ acc.remaining, NEW l \in DOMAIN p, l > i PROVE p[l].id # q[i].id
    <3>1. DOMAIN p = 1..Len(p) /\ Len(p) \in Nat
      BY <2>4, Places DEF Carries
    <3>2. ~ (k <= i)
      <4>1. k <= i => Len(p) = k
        BY <2>4 DEF Carries
      <4>2. k \in Nat /\ i \in Nat
        BY <1>1
      <4>3. PICK m \in Nat : m = Len(p) /\ l \in 1..m
        BY <3>1
      <4>4. l > i
        BY <2>5
      <4> QED BY <4>1, <4>2, <4>3, <4>4
    <3>3. CASE p[l] = q[k]
      BY <1>4, <3>2, <3>3
    <3>4. CASE l \in DOMAIN acc.out /\ p[l] = acc.out[l]
      BY <2>5, <3>4 DEF Sifted
    <3> QED BY <2>4, <3>3, <3>4 DEF Carries
  <2>6. i = 1 => acc.remaining
    BY DEF Sifted
  <2> QED BY <1>3, <2>3, <2>4, <2>5, <2>6 DEF Sifted, Carries
<1>5. CASE /\ ~ (k <= i \/ q[k].id # q[i].id)
           /\ \/ q[k].act = "Append"
              \/ q[k].act = "Deselect" /\ (acc.remaining \/ i = 1)
              \/ q[k].act \in NeedsSelect /\ q[k].luids # {}
  <2>1. PICK e : e = [q[k] EXCEPT !.uids = {}]
    OBVIOUS
  <2>2. e \in CMailAction /\ e.act = q[k].act /\ e.id = q[k].id
    BY <1>1, <2>1, EntryUIDs
  <2>3. PICK p : p = Append(acc.out, e)
    OBVIOUS
  <2>4. x = [out |-> p, remaining |-> TRUE]
    BY <1>3, <1>5, <2>1, <2>3 DEF KeepLocal
  <2>5. x.out = p /\ x.remaining
    BY <2>4
  <2>6. Carries(q, i, acc.out, p, e, k)
    <3>1. Carries(q, i, acc.out, Append(acc.out, e), e, k)
      BY <1>5, <2>2, SiftedPut
    <3> QED BY <2>3, <3>1
  <2> QED BY <1>3, <2>5, <2>6 DEF Sifted, Carries
<1>6. CASE /\ ~ (k <= i \/ q[k].id # q[i].id)
           /\ ~ \/ q[k].act = "Append"
                \/ q[k].act = "Deselect" /\ (acc.remaining \/ i = 1)
                \/ q[k].act \in NeedsSelect /\ q[k].luids # {}
  <2>1. x = acc
    BY <1>3, <1>6 DEF KeepLocal
  <2>2. q[k].act # "Select"
    BY <1>1, <1>6 DEF InOrder
  <2>3. \A j \in 1..k : j \in 1..(k - 1) \/ j = k
    BY <1>1
  <2>4. \A l \in DOMAIN acc.out :
          \E j \in 1..k : acc.out[l].act = q[j].act /\ acc.out[l].id = q[j].id
    <3>1. \A j \in 1..(k - 1) : j \in 1..k
      BY <1>1
    <3> QED BY <3>1 DEF Sifted
  <2>5. \A j \in 1..k : q[j].act = "Select" => Has(acc.out, "Select", q[j].id)
    BY <2>2, <2>3 DEF Sifted
  <2>6. \A j \in 1..k : j <= i => j <= Len(acc.out) /\ acc.out[j] = q[j]
    BY <1>6, <2>3 DEF Sifted
  <2> QED BY <1>3, <1>6, <2>1, <2>4, <2>5, <2>6 DEF Sifted
<1> QED BY <1>4, <1>5, <1>6

(* Playback_RemoveActions: one session, one turn of its loop, all of it. *)
LEMMA RemoveSessionReplay ==
    ASSUME NEW q, NEW open, NEW n, Replay(q, open, n), NEW i \in DOMAIN q,
           q[i].act = "Select"
    PROVE  /\ Replay(RemoveSession(q, i).queue, open, n)
           /\ RemoveSession(q, i).queue[1] = q[1]
<1>1. /\ q \in Seq(CMailAction) /\ Len(q) \in Nat /\ DOMAIN q = 1..Len(q)
      /\ InOrder(q) /\ Known(q, n)
  BY Places DEF Replay
<1>2. PICK z \in Nat : z = Len(q) /\ i \in 1..z
  BY <1>1
<1>3. PICK r : /\ FoldLeftDomain(LAMBDA acc, k : KeepLocal(q, i, acc, k), Started(i), q)
                    = r[z]
               /\ r[0] = Started(i) /\ r[z] \in Sifting
               /\ \A k \in 1..z : r[k - 1] \in Sifting
                                  /\ r[k] = KeepLocal(q, i, r[k - 1], k)
  BY <1>1, <1>2, KeepLocalTurns
<1> DEFINE T == {k \in 0..z : Sifted(q, i, r[k], k)}
<1>4. 0 \in T
  <2>1. r[0] \in Sifting
    <3>1. 1 \in 1..z /\ 1 - 1 = 0
      BY <1>2
    <3>2. r[1 - 1] \in Sifting
      BY <1>3, <3>1
    <3> QED BY <3>1, <3>2
  <2>2. r[0].out = << >> /\ (i = 1 => r[0].remaining)
    <3>1. r[0] = Started(i)
      BY <1>3
    <3>2. Started(i).out = << >> /\ Started(i).remaining = (i = 1)
      BY DEF Started
    <3> QED BY <3>1, <3>2
  <2>3. DOMAIN r[0].out = {} /\ Len(r[0].out) = 0 /\ 1..0 = {}
    BY <2>2
  <2>4. InOrder(r[0].out)
    BY <2>3 DEF InOrder
  <2>5. Sifted(q, i, r[0], 0)
    BY <2>1, <2>2, <2>3, <2>4 DEF Sifted
  <2> QED BY <2>5
<1>5. ASSUME NEW k \in 1..z, k - 1 \in T PROVE k \in T
  <2>1. Sifted(q, i, KeepLocal(q, i, r[k - 1], k), k)
    BY <1>1, <1>2, <1>5, KeepLocalSifts
  <2>2. r[k] = KeepLocal(q, i, r[k - 1], k)
    BY <1>3
  <2>3. Sifted(q, i, r[k], k)
    BY <2>1, <2>2
  <2>4. k \in 0..z
    BY <1>2
  <2> QED BY <2>3, <2>4
<1> HIDE DEF T
<1>6. \A k \in 0..z : k \in T
  BY <1>4, <1>5, Upwards
<1>7. PICK done : done = r[z] /\ Sifted(q, i, done, z)
  <2>1. z \in T
    BY <1>6
  <2> QED BY <2>1 DEF T
<1>8. PICK o \in Seq(CMailAction) : o = done.out
  BY <1>7 DEF Sifted, Sifting
<1>9. /\ InOrder(o)
      /\ \A l \in DOMAIN o : \E j \in DOMAIN q : o[l].act = q[j].act /\ o[l].id = q[j].id
      /\ \A j \in DOMAIN q : q[j].act = "Select" => Has(o, "Select", q[j].id)
      /\ \A j \in 1..z : j <= i => j <= Len(o) /\ o[j] = q[j]
      /\ done.remaining \/ \A l \in DOMAIN o : l > i => o[l].id # q[i].id
  <2>1. DOMAIN q = 1..z
    BY <1>1, <1>2
  <2> QED BY <1>7, <1>8, <2>1 DEF Sifted
<1>10. Replay(o, open, n)
  <2>1. Known(o, n)
    BY <1>1, <1>9 DEF Known
  <2>2. ASSUME NEW l \in DOMAIN o, o[l].act \in SessionActs
        PROVE  Has(o, "Select", o[l].id) \/ o[l].id \in open
    <3>1. PICK j \in DOMAIN q : o[l].act = q[j].act /\ o[l].id = q[j].id
      BY <1>9
    <3>2. Has(q, "Select", q[j].id) \/ q[j].id \in open
      BY <2>2, <3>1 DEF Replay
    <3>3. Has(q, "Select", q[j].id) => Has(o, "Select", q[j].id)
      <4> SUFFICES ASSUME Has(q, "Select", q[j].id) PROVE Has(o, "Select", q[j].id)
        OBVIOUS
      <4>1. PICK s \in DOMAIN q : q[s].act = "Select" /\ q[s].id = q[j].id
        BY DEF Has
      <4> QED BY <1>9, <4>1
    <3> QED BY <3>1, <3>2, <3>3
  <2>3. ASSUME NEW id \in open, Has(o, "Select", id) PROVE FALSE
    <3>1. PICK l \in DOMAIN o : o[l].act = "Select" /\ o[l].id = id
      BY <2>3 DEF Has
    <3>2. Has(q, "Select", id)
      BY <1>9, <3>1 DEF Has
    <3> QED BY <3>2 DEF Replay
  <2> QED BY <1>9, <2>1, <2>2, <2>3 DEF Replay
<1>11. Len(o) \in Nat /\ DOMAIN o = 1..Len(o)
  BY Places
<1>12. i \in DOMAIN o /\ o[i] = q[i] /\ 1 \in DOMAIN o /\ o[1] = q[1]
  BY <1>2, <1>9, <1>11
<1>13. RemoveSession(q, i) = IF done.remaining THEN [queue |-> o, i |-> i + 1]
                             ELSE [queue |-> RemoveAt(o, i), i |-> i]
  BY <1>3, <1>7, <1>8 DEF RemoveSession, Started
<1>14. CASE done.remaining
  BY <1>10, <1>12, <1>13, <1>14
<1>15. CASE ~ done.remaining
  <2>1. ASSUME NEW k \in DOMAIN o \ {i}, o[k].id = o[i].id PROVE FALSE
    <3>1. ~ (k > i)
      BY <1>9, <1>12, <1>15, <2>1
    <3>2. k \in DOMAIN q /\ o[k] = q[k] /\ ~ (i <= k)
      BY <1>1, <1>2, <1>9, <1>11, <2>1, <3>1
    <3> QED BY <1>1, <1>12, <2>1, <3>2 DEF InOrder
  <2>2. PICK p : p = RemoveAt(o, i)
    OBVIOUS
  <2>3. Replay(p, open, n) /\ \A k \in DOMAIN p : k < i => p[k] = o[k]
    BY <1>10, <1>12, <2>1, <2>2, RemovedReplay
  <2>4. i # 1
    BY <1>7, <1>15 DEF Sifted
  <2>5. 1 \in DOMAIN p /\ 1 < i
    <3>1. p \in Seq(CMailAction) /\ Len(p) = Len(o) - 1
      BY <1>11, <1>12, <2>2, Removed
    <3>2. Len(o) >= 2
      BY <1>2, <1>11, <1>12, <2>4
    <3>3. DOMAIN p = 1..Len(p)
      BY <3>1, Places
    <3> QED BY <1>2, <1>11, <2>4, <3>1, <3>2, <3>3
  <2>6. p[1] = q[1]
    BY <1>12, <2>3, <2>5
  <2> QED BY <1>13, <1>15, <2>2, <2>3, <2>6
<1> QED BY <1>14, <1>15

(* Taking out what belongs to a mailbox keeps the journal one in the middle*)
(* of its playback, and the entry that is played stays in front.           *)
Playable(a, open, n) ==
    {q \in Seq(CMailAction) : q # << >> /\ Replay(q, open, n) /\ q[1] = a}

LEMMA RemoveNextReplay ==
    ASSUME NEW b, NEW z \in Nat, NEW s \in Removing(z), NEW a, NEW open, NEW n,
           s.queue \in Playable(a, open, n)
    PROVE  RemoveNext(b)[s].queue \in Playable(a, open, n)
<1>1. PICK q \in Seq(CMailAction), i \in Nat \ {0} :
           q = s.queue /\ i = s.i /\ q # << >> /\ Len(q) <= z
  BY DEF Removing, Shorter
<1>2. Len(q) \in Nat /\ DOMAIN q = 1..Len(q) /\ Replay(q, open, n) /\ q[1] = a
  BY <1>1, Places DEF Playable
<1>3. s \in [queue : Seq(CMailAction), i : Nat]
  BY DEF Removing, Shorter
<1>4. PICK t : t = [s EXCEPT !.i = i + 1]
  OBVIOUS
<1>5. PICK u : u = [s EXCEPT !.queue = RemoveAt(q, i)]
  OBVIOUS
<1>6. RemoveNext(b)[s] =
        CASE i > Len(q) -> s
          [] i <= Len(q) /\ q[i].act = "Select" /\ q[i].mbox = b -> RemoveSession(q, i)
          [] i \in 2..Len(q) /\ q[i].act \in {"Create", "Delete", "Rename"}
                             /\ q[i].mbox = b -> u
          [] OTHER -> t
  BY <1>1, <1>3, <1>4, <1>5 DEF RemoveNext
<1>7. PICK x : x = RemoveNext(b)[s] /\ x \in Removing(z)
  BY RemoveNextType
<1>8. x.queue \in Seq(CMailAction) /\ x.queue # << >>
  BY <1>7 DEF Removing, Shorter
<1>9. t.queue = q /\ u.queue = RemoveAt(q, i)
  BY <1>1, <1>4, <1>5 DEF Removing
<1>10. CASE i > Len(q)
  <2>1. ~ (i <= Len(q)) /\ i \notin 2..Len(q)
    BY <1>2, <1>10
  <2> QED BY <1>6, <1>10, <2>1
<1>11. CASE i <= Len(q) /\ q[i].act = "Select" /\ q[i].mbox = b
  <2>1. ~ (i > Len(q)) /\ q[i].act \notin {"Create", "Delete", "Rename"}
    BY <1>2, <1>11
  <2>2. x = RemoveSession(q, i)
    BY <1>6, <1>7, <1>11, <2>1
  <2>3. i \in DOMAIN q
    BY <1>2, <1>11
  <2>4. Replay(x.queue, open, n) /\ x.queue[1] = a
    BY <1>2, <1>11, <2>2, <2>3, RemoveSessionReplay
  <2> QED BY <1>7, <1>8, <2>4 DEF Playable
<1>12. CASE i \in 2..Len(q) /\ q[i].act \in {"Create", "Delete", "Rename"} /\ q[i].mbox = b
  <2>1. ~ (i > Len(q)) /\ q[i].act # "Select" /\ i \in 1..Len(q) /\ 1 < i
    BY <1>2, <1>12
  <2>2. x = u
    BY <1>6, <1>7, <1>12, <2>1
  <2>3. PICK p : p = RemoveAt(q, i)
    OBVIOUS
  <2>4. Replay(p, open, n) /\ \A k \in DOMAIN p : k < i => p[k] = q[k]
    BY <1>2, <2>1, <2>3, RemovedReplay
  <2>5. 1 \in DOMAIN p
    <3>1. p \in Seq(CMailAction) /\ Len(p) = Len(q) - 1
      BY <2>1, <2>3, Removed
    <3>2. DOMAIN p = 1..Len(p)
      BY <3>1, Places
    <3> QED BY <1>2, <1>12, <3>1, <3>2
  <2>6. x.queue = p /\ p[1] = a
    BY <1>2, <1>9, <2>1, <2>2, <2>3, <2>4, <2>5
  <2> QED BY <1>7, <1>8, <2>4, <2>6 DEF Playable
<1>13. CASE /\ i <= Len(q)
            /\ ~ (q[i].act = "Select" /\ q[i].mbox = b)
            /\ ~ (/\ i \in 2..Len(q) /\ q[i].act \in {"Create", "Delete", "Rename"}
                  /\ q[i].mbox = b)
  <2>1. ~ (i > Len(q))
    BY <1>2, <1>13
  <2>2. x = t
    BY <1>6, <1>7, <1>13, <2>1
  <2> QED BY <1>1, <1>7, <1>9, <2>2
<1>14. i > Len(q) \/ i <= Len(q)
  BY <1>2
<1> QED BY <1>10, <1>11, <1>12, <1>13, <1>14

LEMMA RemoveActionsReplay ==
    ASSUME NEW b, NEW a, NEW open, NEW n, NEW q \in Playable(a, open, n)
    PROVE  RemoveActions(q, b) \in Playable(a, open, n)
<1>1. q \in Seq(CMailAction) /\ q # << >>
  BY DEF Playable
<1>2. PICK z \in Nat : z = Len(q)
  BY <1>1, Places
<1>3. PICK r : /\ RemoveActions(q, b) = r[z].queue
               /\ r[0] = [queue |-> q, i |-> 1]
               /\ \A k \in 1..z : r[k - 1] \in Removing(z)
                                  /\ r[k] = RemoveNext(b)[r[k - 1]]
  BY <1>1, <1>2, RemoveActionsTurns
<1> DEFINE T == {k \in 0..z : r[k].queue \in Playable(a, open, n)}
<1>4. 0 \in T
  <2>1. r[0].queue = q
    BY <1>3
  <2> QED BY <2>1
<1>5. ASSUME NEW k \in 1..z, k - 1 \in T PROVE k \in T
  <2>1. r[k - 1] \in Removing(z) /\ r[k] = RemoveNext(b)[r[k - 1]]
    BY <1>3
  <2>2. r[k - 1].queue \in Playable(a, open, n)
    BY <1>5
  <2>3. RemoveNext(b)[r[k - 1]].queue \in Playable(a, open, n)
    BY <2>1, <2>2, RemoveNextReplay
  <2>4. k \in 0..z
    BY <1>2
  <2> QED BY <2>1, <2>3, <2>4
<1> HIDE DEF T
<1>6. \A k \in 0..z : k \in T
  BY <1>4, <1>5, Upwards
<1>7. r[z].queue \in Playable(a, open, n)
  <2>1. z \in T
    BY <1>6
  <2> QED BY <2>1 DEF T
<1> QED BY <1>3, <1>7

-----------------------------------------------------------------------------
(* The connections an entry opens and closes.                              *)
LEMMA WorldHasConns ==
    ASSUME NEW w \in World
    PROVE  "conns" \in DOMAIN w /\ w.conns \in Connections
BY DEF World, Connections

(* Only a Select and a Deselect change the connections.                  *)
LEMMA ArriveConns ==
    ASSUME NEW w, "conns" \in DOMAIN w, NEW m, NEW b, NEW fl
    PROVE  Arrive(w, m, b, fl).conns = w.conns
BY DEF Arrive

LEMMA PlayFlagConns ==
    ASSUME NEW w, "conns" \in DOMAIN w, NEW a
    PROVE  PlayFlag(w, a).conns = w.conns
BY DEF PlayFlag

LEMMA PlayExpungeConns ==
    ASSUME NEW w, "conns" \in DOMAIN w, NEW a
    PROVE  PlayExpunge(w, a).conns = w.conns
BY DEF PlayExpunge

LEMMA PlayCopyConns ==
    ASSUME NEW w, "conns" \in DOMAIN w, NEW a
    PROVE  PlayCopy(w, a).conns = w.conns
<1>1. PICK fl : PlayCopy(w, a) \in {w, Arrive(w, a.as, a.mbox, fl), Arrive(w, a.as, a.mbox, {})}
  BY DEF PlayCopy
<1> QED BY <1>1, ArriveConns

LEMMA PlayAppendConns ==
    ASSUME NEW w, "conns" \in DOMAIN w, NEW a
    PROVE  PlayAppend(w, a).conns = w.conns
<1>1. PICK b : PlayAppend(w, a) \in {w, Arrive(w, a.as, b, {})}
  BY DEF PlayAppend
<1> QED BY <1>1, ArriveConns

LEMMA PlayNamesConns ==
    ASSUME NEW w, "conns" \in DOMAIN w, NEW a
    PROVE  /\ PlayCreate(w, a).conns = w.conns /\ PlayDelete(w, a).conns = w.conns
           /\ PlayRename(w, a).conns = w.conns
<1>1. PlayCreate(w, a).conns = w.conns
  BY DEF PlayCreate
<1>2. PlayDelete(w, a).conns = w.conns
  BY DEF PlayDelete
<1>3. PlayRename(w, a).conns = w.conns
  BY DEF PlayRename
<1> QED BY <1>1, <1>2, <1>3

LEMMA PlaySelectConns ==
    ASSUME NEW w, "conns" \in DOMAIN w, NEW a
    PROVE  PlaySelect(w, a).conns
             = [w.conns EXCEPT ![a.id] = [box |-> w.names[a.mbox], mbox |-> a.mbox]]
BY DEF PlaySelect

LEMMA PlayDeselectConns ==
    ASSUME NEW w, "conns" \in DOMAIN w, NEW a
    PROVE  PlayDeselect(w, a).conns = [w.conns EXCEPT ![a.id] = NoConn]
BY DEF PlayDeselect

(* The sessions that are open after an entry has been played.            *)
LEMMA PlayedConns ==
    ASSUME NEW w \in World, NEW a \in CMailAction,
           a.act = "Select" => w.names[a.mbox] # 0
    PROVE  /\ OpenIn(PlayEntry(w, a).conns) = After(a, OpenIn(w.conns))
           /\ a.act \notin {"Select", "Deselect"} => PlayEntry(w, a).conns = w.conns
<1>1. "conns" \in DOMAIN w /\ w.conns \in Connections /\ a.id \in SessionIDs
  BY WorldHasConns, EntryData
<1>2. CASE a.act = "Select"
  <2>1. PlayEntry(w, a) = PlaySelect(w, a)
    BY <1>2 DEF PlayEntry
  <2>2. PICK c : c = [box |-> w.names[a.mbox], mbox |-> a.mbox]
    OBVIOUS
  <2>3. c # NoConn
    BY <1>2, <2>2 DEF NoConn
  <2>4. PlayEntry(w, a).conns = [w.conns EXCEPT ![a.id] = c]
    BY <1>1, <2>1, <2>2, PlaySelectConns
  <2>5. OpenIn(PlayEntry(w, a).conns) = OpenIn(w.conns) \cup {a.id}
    BY <1>1, <2>3, <2>4 DEF OpenIn, Connections
  <2> QED BY <1>2, <2>5 DEF After
<1>3. CASE a.act = "Deselect"
  <2>1. PlayEntry(w, a) = PlayDeselect(w, a)
    BY <1>3 DEF PlayEntry
  <2>2. PlayEntry(w, a).conns = [w.conns EXCEPT ![a.id] = NoConn]
    BY <1>1, <2>1, PlayDeselectConns
  <2>3. OpenIn(PlayEntry(w, a).conns) = OpenIn(w.conns) \ {a.id}
    BY <1>1, <2>2 DEF OpenIn, Connections
  <2> QED BY <1>3, <2>3 DEF After
<1>4. CASE a.act \notin {"Select", "Deselect"}
  <2>1. a.act \in {"Flag", "Copy", "Expunge", "Append", "Create", "Delete", "Rename"}
    BY <1>4, EntryData DEF Acts, NeedsSelect
  <2>2. PlayEntry(w, a).conns = w.conns
    <3>1. CASE a.act = "Flag"
      BY <1>1, <3>1, PlayFlagConns DEF PlayEntry
    <3>2. CASE a.act = "Copy"
      BY <1>1, <3>2, PlayCopyConns DEF PlayEntry
    <3>3. CASE a.act = "Expunge"
      BY <1>1, <3>3, PlayExpungeConns DEF PlayEntry
    <3>4. CASE a.act = "Append"
      BY <1>1, <3>4, PlayAppendConns DEF PlayEntry
    <3>5. CASE a.act \in {"Create", "Delete", "Rename"}
      BY <1>1, <3>5, PlayNamesConns DEF PlayEntry
    <3> QED BY <2>1, <3>1, <3>2, <3>3, <3>4, <3>5
  <2> QED BY <1>4, <2>2 DEF After
<1> QED BY <1>2, <1>3, <1>4

(* Nothing is connected, or will be, while the user works offline.       *)
LEMMA OfflineConns ==
    ASSUME OfflineTypeOK, OfflineNext
    PROVE  phase = "offline" /\ phase' = phase /\ world'.conns = world.conns
<1>1. "conns" \in DOMAIN world
  BY WorldHasConns DEF OfflineTypeOK
<1>2. ASSUME UNCHANGED <<phase, mailVars>>
      PROVE  phase' = phase /\ world'.conns = world.conns
  BY <1>2 DEF mailVars
<1>3. ASSUME NEW c \in Conns, ClientStep(c)
      PROVE  phase = "offline" /\ phase' = phase /\ world'.conns = world.conns
  <2>1. CASE \E b \in Mailboxes : Open(c, b)
    BY <1>2, <2>1 DEF Open, Ready
  <2>2. CASE Close(c)
    BY <1>2, <2>2 DEF Close, Ready
  <2>3. CASE \E S \in Selection(c), f \in Flags, v \in BOOLEAN : SetFlag(c, S, f, v)
    BY <2>3 DEF SetFlag, Ready
  <2>4. ASSUME NEW m \in Msgs, NEW n \in Msgs, NEW b \in Mailboxes, CopyMessage(c, m, b, n)
        PROVE  phase = "offline" /\ phase' = phase /\ world'.conns = world.conns
    <3>1. world' = [world EXCEPT !.lat[n] = b]
      BY <2>4 DEF CopyMessage, Arrived
    <3> QED BY <1>1, <2>4, <3>1 DEF CopyMessage, Ready
  <2>5. CASE ExpungeMbox(c)
    <3>1. PICK f : world' = [world EXCEPT !.lat = f]
      BY <2>5 DEF ExpungeMbox
    <3> QED BY <1>1, <2>5, <3>1 DEF ExpungeMbox, Ready
  <2> QED BY <1>3, <2>1, <2>2, <2>3, <2>4, <2>5 DEF ClientStep
<1>4. ASSUME NEW b \in Mailboxes, Search(b) \/ CreateMbox(b) \/ DeleteMbox(b)
      PROVE  phase = "offline" /\ phase' = phase /\ world'.conns = world.conns
  <2>1. CASE Search(b)
    BY <1>2, <2>1 DEF Search, Ready
  <2>2. CASE CreateMbox(b)
    BY <1>1, <2>2 DEF CreateMbox, Ready
  <2>3. CASE DeleteMbox(b)
    BY <1>1, <2>3 DEF DeleteMbox, Ready
  <2> QED BY <1>4, <2>1, <2>2, <2>3
<1>5. ASSUME NEW b \in Mailboxes, NEW n \in Msgs, AppendMessage(b, n)
      PROVE  phase = "offline" /\ phase' = phase /\ world'.conns = world.conns
  <2>1. world' = [world EXCEPT !.lat[n] = b]
    BY <1>5 DEF AppendMessage, Arrived
  <2> QED BY <1>1, <1>5, <2>1 DEF AppendMessage, Ready
<1>6. ASSUME NEW b \in Mailboxes, NEW d \in Mailboxes, RenameMbox(b, d)
      PROVE  phase = "offline" /\ phase' = phase /\ world'.conns = world.conns
  BY <1>1, <1>6 DEF RenameMbox, Ready
<1> QED BY <1>3, <1>4, <1>5, <1>6 DEF OfflineNext, AccountStep

-----------------------------------------------------------------------------
(* As long as the server has refused nothing, the journal is one as it is  *)
(* recorded, and the queue one in the middle of its playback.              *)
PlayRecording ==
    "refused" \notin faults =>
        /\ Recording
        /\ phase = "playing" => Replay(queue, OpenIn(world.conns), mNextID)
        /\ phase # "playing" => OpenIn(world.conns) = {}

LEMMA ClosedConns ==
    ASSUME NEW w \in World
    PROVE  OpenIn([w EXCEPT !.conns = Closed].conns) = {}
<1>1. "conns" \in DOMAIN w
  BY WorldHasConns
<1>2. [w EXCEPT !.conns = Closed].conns = Closed
  BY <1>1
<1> QED BY <1>2 DEF OpenIn, Closed

LEMMA TidyReplay ==
    ASSUME NEW q, Tidy(q), NEW n, Known(q, n)
    PROVE  Replay(q, {}, n)
BY DEF Tidy, Replay

(* A recording stays one when nothing of it changes, and becomes one when*)
(* no client has anything selected any more.                             *)
LEMMA RecordingSame ==
    ASSUME Recording, UNCHANGED <<clientVars, recordVars>>
    PROVE  Recording'
<1>1. /\ mCurrent_mbox' = mCurrent_mbox /\ mRecordID' = mRecordID
      /\ mPendingSelect' = mPendingSelect /\ mNextID' = mNextID /\ actions' = actions
  BY DEF clientVars, recordVars
<1> QED BY <1>1 DEF Recording, OwnSession, StillPending, KnownSession

(* Nothing is selected and nothing is pending: any journal that is recorded*)
(* in known sessions will do.                                              *)
LEMMA RecordingAnew ==
    ASSUME Forget, Recorded(actions'), Known(actions', mNextID'),
           \A c \in Clients : mRecordID'[c] < mNextID'
    PROVE  Recording'
<1>1. \A c \in Clients : mCurrent_mbox'[c] = NoMbox
  BY DEF Forget
<1>2. \A i \in SessionIDs : mPendingSelect'[i] = NoMbox
  BY DEF Forget
<1>3. \A c \in Clients : OwnSession(c)'
  BY <1>1 DEF OwnSession
<1>4. \A i \in SessionIDs : StillPending(i)'
  BY <1>2 DEF StillPending
<1>5. \A k \in DOMAIN actions' : KnownSession(k)'
  BY DEF Known, KnownSession
<1>6. Recorded(actions)'
  OBVIOUS
<1> QED BY <1>3, <1>4, <1>5, <1>6 DEF Recording

(* Each step of playback.                                                *)
LEMMA StartPlaybackRecords ==
    ASSUME TypeOK, PlayRecording, StartPlayback
    PROVE  PlayRecording'
<1> SUFFICES ASSUME "refused" \notin faults'
             PROVE  /\ Recording'
                    /\ phase' = "playing" => Replay(queue, OpenIn(world.conns), mNextID)'
                    /\ phase' # "playing" => OpenIn(world.conns)' = {}
  BY DEF PlayRecording
<1>1. /\ "refused" \notin faults /\ phase = "offline" /\ phase' = "playing"
      /\ queue' = CompactPlayback(actions)
      /\ UNCHANGED <<clientVars, recordVars>> /\ mNextID' = mNextID /\ world' = world
  BY DEF StartPlayback, recordVars, mailVars
<1>2. Recording /\ OpenIn(world.conns) = {}
  BY <1>1 DEF PlayRecording
<1>3. Recording'
  BY <1>1, <1>2, RecordingSame
<1>4. PICK q : q = CompactPlayback(actions) /\ Tidy(q) /\ Known(q, mNextID)
  BY <1>2, KnownSessions, CompactPlaybackTidies DEF Recording
<1>5. Replay(q, {}, mNextID)
  BY <1>4, TidyReplay
<1> QED BY <1>1, <1>2, <1>3, <1>4, <1>5

LEMMA GiveUpRecords ==
    ASSUME TypeOK, PlayRecording, Playing, "refused" \notin faults,
           NEW w \in World, w.conns = world.conns, GiveUp(w)
    PROVE  PlayRecording'
<1>1. Recording /\ Replay(queue, OpenIn(w.conns), mNextID)
  BY DEF PlayRecording, Playing
<1>2. /\ phase' = "offline" /\ actions' = RecoverSelects(queue, w.conns)
      /\ world' = [w EXCEPT !.conns = Closed] /\ Forget /\ mNextID' = mNextID
      /\ mRecordID' \in {mRecordID, [mRecordID EXCEPT ![Main] = 0]}
  BY DEF GiveUp
<1>3. w.conns \in Connections
  BY WorldHasConns
<1>4. Recorded(actions') /\ Known(actions', mNextID')
  BY <1>1, <1>2, <1>3, RecoverSelectsRecorded
<1>5. \A c \in Clients : mRecordID'[c] < mNextID'
  <2>1. \A c \in Clients : mRecordID[c] < mNextID
    BY <1>1 DEF Recording, OwnSession
  <2>2. 0 < mNextID /\ mRecordID \in [Clients -> SessionIDs]
    BY OfflineAssumption DEF TypeOK, OfflineTypeOK
  <2>3. \A c \in Clients : mRecordID'[c] = mRecordID[c] \/ mRecordID'[c] = 0
    BY <1>2, <2>2
  <2> QED BY <1>2, <2>1, <2>2, <2>3
<1>6. Recording'
  BY <1>2, <1>4, <1>5, RecordingAnew
<1>7. OpenIn(world'.conns) = {}
  BY <1>2, ClosedConns
<1> QED BY <1>2, <1>6, <1>7 DEF PlayRecording

LEMMA UnansweredConns ==
    ASSUME TypeOK, Playing, NEW w \in Unanswered
    PROVE  w.conns = world.conns
<1>1. Item \in CMailAction /\ world \in World
  BY PlayingItem
<1>2. CASE w = world
  BY <1>2
<1>3. CASE w # world
  <2>1. PICK v : v = PlayEntry(world, Item)
    OBVIOUS
  <2>2. w = [v EXCEPT !.mapped = world.mapped] /\ Item.act \notin {"Select", "Deselect"}
    BY <1>3, <2>1 DEF Unanswered
  <2>3. v.conns = world.conns
    BY <1>1, <2>1, <2>2, PlayedConns
  <2>4. "conns" \in DOMAIN v
    BY <1>1, <2>1, PlayEntryType, WorldHasConns
  <2> QED BY <2>2, <2>3, <2>4
<1> QED BY <1>2, <1>3

LEMMA PlayItemRecords ==
    ASSUME TypeOK, PlayRecording, PlayItem
    PROVE  PlayRecording'
<1> SUFFICES ASSUME "refused" \notin faults PROVE PlayRecording'
  BY DEF PlayRecording, PlayItem
<1>1. Playing /\ Feasible /\ Recording /\ Replay(queue, OpenIn(world.conns), mNextID)
  BY DEF PlayRecording, PlayItem, Playing
<1>2. /\ queue \in Seq(CMailAction) /\ queue # << >>
      /\ Item \in CMailAction /\ world \in World
  BY <1>1, PlayingItem
<1>3. PICK open : open = OpenIn(world.conns)
  OBVIOUS
<1>4. Item = queue[1]
  BY <1>2 DEF Item
<1>5. queue \in Playable(Item, open, mNextID)
  BY <1>1, <1>2, <1>3, <1>4 DEF Playable
<1>6. PICK q \in Playable(Item, open, mNextID) : Done(Tail(q), PlayEntry(world, Item))
  <2>1. PICK p : p = RemoveActions(queue, Item.mbox)
    OBVIOUS
  <2>2. p \in Playable(Item, open, mNextID)
    BY <1>5, <2>1, RemoveActionsReplay
  <2>3. \/ Done(Tail(queue), PlayEntry(world, Item))
        \/ Done(Tail(p), PlayEntry(world, Item))
    BY <2>1 DEF PlayItem
  <2> QED BY <1>5, <2>2, <2>3
<1>7. Replay(Tail(q), After(Item, open), mNextID)
  BY PlayedReplay DEF Playable
<1>8. Item.act = "Select" => world.names[Item.mbox] # 0
  BY <1>1 DEF Feasible
<1>9. OpenIn(PlayEntry(world, Item).conns) = After(Item, open)
  BY <1>2, <1>3, <1>8, PlayedConns
<1>10. /\ queue' = Tail(q) /\ world' = PlayEntry(world, Item) /\ phase' = phase
       /\ UNCHANGED <<clientVars, recordVars>> /\ mNextID' = mNextID
  BY <1>6 DEF Done, recordVars
<1>11. Recording'
  BY <1>1, <1>10, RecordingSame
<1>12. phase' = "playing"
  BY <1>1, <1>10 DEF Playing
<1> QED BY <1>7, <1>9, <1>10, <1>11, <1>12 DEF PlayRecording

LEMMA AgainRecords ==
    ASSUME TypeOK, PlayRecording, Playing, "refused" \notin faults,
           NEW w, w.conns = world.conns, Again(w)
    PROVE  PlayRecording'
<1>1. Recording /\ Replay(queue, OpenIn(world.conns), mNextID)
  BY DEF PlayRecording, Playing
<1>2. /\ queue' = queue /\ world' = w /\ phase' = phase /\ phase = "playing"
      /\ UNCHANGED <<clientVars, recordVars>> /\ mNextID' = mNextID
  BY DEF Again, recordVars, Playing
<1>3. Recording'
  BY <1>1, <1>2, RecordingSame
<1> QED BY <1>1, <1>2, <1>3 DEF PlayRecording

LEMMA PlaybackDoneRecords ==
    ASSUME TypeOK, PlaybackDone
    PROVE  PlayRecording'
<1>1. /\ phase' = "online" /\ actions' = << >> /\ mNextID' = 1
      /\ mRecordID' = [c \in Clients |-> 0] /\ Forget
      /\ world' = [world EXCEPT !.conns = Closed]
  BY DEF PlaybackDone
<1>2. Recorded(actions') /\ Known(actions', mNextID')
  BY <1>1 DEF Recorded, InOrder, Known
<1>3. \A c \in Clients : mRecordID'[c] < mNextID'
  BY <1>1
<1>4. Recording'
  BY <1>1, <1>2, <1>3, RecordingAnew
<1>5. OpenIn(world'.conns) = {}
  BY <1>1, ClosedConns DEF TypeOK, OfflineTypeOK
<1> QED BY <1>1, <1>4, <1>5 DEF PlayRecording

LEMMA RestartRecords ==
    ASSUME TypeOK, PlayRecording, Restart
    PROVE  PlayRecording'
<1> SUFFICES ASSUME "refused" \notin faults PROVE PlayRecording'
  BY DEF PlayRecording, Restart
<1>1. Recording
  BY DEF PlayRecording
<1>2. /\ phase' = "offline" /\ actions' = actions /\ mNextID' = mNextID
      /\ mRecordID' = [c \in Clients |-> 0] /\ Forget
      /\ world' = [world EXCEPT !.conns = Closed]
  BY DEF Restart
<1>3. Recorded(actions') /\ Known(actions', mNextID')
  BY <1>1, <1>2, KnownSessions DEF Recording
<1>4. \A c \in Clients : mRecordID'[c] < mNextID'
  <2>1. 0 < mNextID
    BY OfflineAssumption DEF TypeOK, OfflineTypeOK
  <2> QED BY <1>2, <2>1
<1>5. Recording'
  BY <1>2, <1>3, <1>4, RecordingAnew
<1>6. OpenIn(world'.conns) = {}
  BY <1>2, ClosedConns DEF TypeOK, OfflineTypeOK
<1> QED BY <1>2, <1>5, <1>6 DEF PlayRecording

LEMMA StepRecords ==
    ASSUME TypeOK, PlayRecording, [Next]_vars
    PROVE  PlayRecording'
<1>1. CASE OfflineNext /\ UNCHANGED playVars
  <2>1. OfflineTypeOK /\ faults' = faults
    BY <1>1 DEF TypeOK, playVars
  <2>2. phase = "offline" /\ phase' = phase /\ world'.conns = world.conns
    BY <1>1, <2>1, OfflineConns
  <2>3. Recording => Recording'
    BY <1>1, <2>1, OfflineStepKeeps
  <2> QED BY <2>1, <2>2, <2>3 DEF PlayRecording
<1>2. CASE StartPlayback
  BY <1>2, StartPlaybackRecords
<1>3. CASE PlayItem
  BY <1>3, PlayItemRecords
<1>4. CASE ItemRefused
  BY <1>4 DEF ItemRefused, PlayRecording
<1>5. CASE ItemRetried
  <2> SUFFICES ASSUME "refused" \notin faults PROVE PlayRecording'
    BY <1>5 DEF ItemRetried, PlayRecording
  <2>1. Playing
    BY <1>5 DEF ItemRetried
  <2>2. PICK w \in Unanswered : Again(w) \/ GiveUp(w)
    BY <1>5 DEF ItemRetried
  <2>3. w \in World /\ w.conns = world.conns
    BY <2>1, UnansweredType, UnansweredConns
  <2> QED BY <2>1, <2>2, <2>3, AgainRecords, GiveUpRecords
<1>6. CASE ItemFails
  <2> SUFFICES ASSUME "refused" \notin faults PROVE PlayRecording'
    BY <1>6 DEF ItemFails, PlayRecording
  <2>1. Playing
    BY <1>6 DEF ItemFails
  <2>2. PICK w \in Unanswered : GiveUp(w)
    BY <1>6 DEF ItemFails
  <2>3. w \in World /\ w.conns = world.conns
    BY <2>1, UnansweredType, UnansweredConns
  <2> QED BY <2>1, <2>2, <2>3, GiveUpRecords
<1>7. CASE PlaybackDone
  BY <1>7, PlaybackDoneRecords
<1>8. CASE Restart
  BY <1>8, RestartRecords
<1>9. CASE UNCHANGED vars
  <2>1. /\ phase' = phase /\ queue' = queue /\ world' = world /\ faults' = faults
        /\ UNCHANGED <<clientVars, recordVars>> /\ mNextID' = mNextID
    BY <1>9 DEF vars, playVars, mailVars, recordVars
  <2>2. Recording => Recording'
    BY <2>1, RecordingSame
  <2> QED BY <2>1, <2>2 DEF PlayRecording
<1> QED BY <1>1, <1>2, <1>3, <1>4, <1>5, <1>6, <1>7, <1>8, <1>9 DEF Next, PlayStep

LEMMA InitRecords ==
    ASSUME Init
    PROVE  PlayRecording
<1>1. OfflineInit
  BY DEF Init
<1>2. Recording /\ phase = "offline" /\ world = StartWorld
  BY <1>1, OfflineInitHolds DEF OfflineInit
<1>3. OpenIn(world.conns) = {}
  BY <1>2 DEF StartWorld, OpenIn
<1> QED BY <1>2, <1>3 DEF PlayRecording

(* A journal that a playback had to give up, written anew with the selects *)
(* it has recovered, is again one that compacts to closed sessions, as many*)
(* times as playback fails, and so is what the user records behind it      *)
(* (Playback_RecoverSelects, Playback_RemoveActions).                      *)
THEOREM RecoveredIsClosed == Spec => []RecoveredClosed
<1>1. Init => TypeOK /\ PlayRecording
  BY OfflineInitHolds, PlaybacksAssumption, EmptySeq, InitRecords DEF Init, TypeOK
<1>2. TypeOK /\ PlayRecording /\ [Next]_vars => TypeOK' /\ PlayRecording'
  BY StepTypes, StepRecords
<1>3. PlayRecording => RecoveredClosed
  BY RecordingIsClosed DEF PlayRecording, RecoveredClosed
<1> QED BY <1>1, <1>2, <1>3, PTL DEF Spec
=============================================================================
