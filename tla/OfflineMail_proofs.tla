-------------------------- MODULE OfflineMail_proofs --------------------------
(***************************************************************************)
(* Theorems about the journal an account records while it is offline, for  *)
(* any mailboxes, messages, connections and any length of the journal: the *)
(* state keeps its types, and in the compacted journal every session is    *)
(* selected once, for something, and deselected at its end.                *)
(***************************************************************************)
EXTENDS OfflineMail, SequenceTheorems, FiniteSetTheorems, WellFoundedInduction, TLAPS

-----------------------------------------------------------------------------
(* Induction up to a number, for the numbers in a set.                     *)
LEMMA Upwards ==
    ASSUME NEW n \in Nat, NEW T, 0 \in T, \A k \in 1..n : k - 1 \in T => k \in T
    PROVE  \A k \in 0..n : k \in T
<1> SUFFICES ASSUME NEW k \in 0..n, k \notin T PROVE FALSE
  OBVIOUS
<1> DEFINE Out == {j \in 0..n : j \notin T}
<1>1. Out \subseteq Nat /\ k \in Out
  OBVIOUS
<1>2. PICK x \in Out : \A y \in Out : ~ (<<y, x>> \in OpToRel(<, Nat))
  BY <1>1, NatLessThanWellFounded, WFMin
<1>3. \A y \in Out : ~ (y < x)
  BY <1>1, <1>2 DEF OpToRel
<1>4. x \in 0..n /\ x \notin T /\ x # 0
  OBVIOUS
<1>5. x \in 1..n /\ x - 1 \in 0..n /\ x - 1 < x
  BY <1>4
<1> HIDE DEF Out
<1>6. x - 1 \in T
  BY <1>3, <1>5 DEF Out
<1> QED BY <1>4, <1>5, <1>6

(* The largest of some numbers up to a bound.                              *)
LEMMA MaxOf ==
    ASSUME NEW n \in Nat, NEW s \in SUBSET (1..n), s # {}
    PROVE  Max(s) \in s /\ \A y \in s : Max(s) >= y
<1> DEFINE Up == {n - x : x \in s}
<1>1. Up \subseteq Nat /\ Up # {}
  <2>1. \A x \in s : n - x \in Nat
    OBVIOUS
  <2>2. PICK x \in s : TRUE
    OBVIOUS
  <2> QED BY <2>1, <2>2
<1>2. PICK u \in Up : \A y \in Up : ~ (<<y, u>> \in OpToRel(<, Nat))
  BY <1>1, NatLessThanWellFounded, WFMin
<1>3. \A y \in Up : ~ (y < u)
  BY <1>1, <1>2 DEF OpToRel
<1>4. PICK x \in s : u = n - x
  OBVIOUS
<1>5. \A y \in s : x >= y
  <2> SUFFICES ASSUME NEW y \in s PROVE x >= y
    OBVIOUS
  <2>1. n - y \in Up
    OBVIOUS
  <2> QED BY <1>3, <1>4, <2>1
<1> QED BY <1>4, <1>5 DEF Max

LEMMA MaxOfPrefix ==
    ASSUME NEW k \in Nat \ {0}
    PROVE  Max(1..k) = k /\ (1..k) \ {k} = 1..(k - 1)
<1>1. 1..k # {} /\ k \in 1..k
  OBVIOUS
<1>2. Max(1..k) \in 1..k /\ \A y \in 1..k : Max(1..k) >= y
  BY <1>1, MaxOf
<1> QED BY <1>1, <1>2

-----------------------------------------------------------------------------
(* Folds.  FoldLeft is the value at the whole domain of a function on sets *)
(* of places, which takes the step at the largest place after those of the *)
(* others.  There is such a function, for a step that is itself one.       *)
StaysIn(step, A, n) == \A x \in A : \A k \in 1..n : step[<<x, k>>] \in A

IsFold(g, step, b, A, n) ==
    /\ g \in [SUBSET (1..n) -> A]
    /\ \A s \in SUBSET (1..n) :
         g[s] = IF s = {} THEN b ELSE step[<<g[s \ {Max(s)}], Max(s)>>]

LEMMA FoldExists ==
    ASSUME NEW A, NEW n \in Nat, NEW b \in A, NEW step, StaysIn(step, A, n)
    PROVE  \E g : IsFold(g, step, b, A, n)
<1> USE DEF StaysIn, IsFold
<1> DEFINE Ok(m) == \E g : IsFold(g, step, b, A, m)
           T == {m \in 0..n : Ok(m)}
<1>1. Ok(0)
  <2> DEFINE g == [s \in SUBSET (1..0) |-> b]
  <2>1. g \in [SUBSET (1..0) -> A] /\ \A s \in SUBSET (1..0) : s = {}
    OBVIOUS
  <2>2. \A s \in SUBSET (1..0) :
          g[s] = IF s = {} THEN b ELSE step[<<g[s \ {Max(s)}], Max(s)>>]
    BY <2>1
  <2> HIDE DEF g
  <2> QED BY <2>1, <2>2
<1>2. ASSUME NEW m \in 1..n, Ok(m - 1) PROVE Ok(m)
  <2>1. PICK g \in [SUBSET (1..(m - 1)) -> A] :
             \A s \in SUBSET (1..(m - 1)) :
               g[s] = IF s = {} THEN b ELSE step[<<g[s \ {Max(s)}], Max(s)>>]
    BY <1>2
  <2> DEFINE h == [s \in SUBSET (1..m) |->
                     IF m \in s THEN step[<<g[s \ {m}], m>>] ELSE g[s]]
  <2>2. ASSUME NEW s \in SUBSET (1..m), m \notin s
        PROVE  s \in SUBSET (1..(m - 1))
    BY <2>2
  <2>3. ASSUME NEW s \in SUBSET (1..m)
        PROVE  s \ {m} \in SUBSET (1..(m - 1))
    BY <2>2
  <2>4. h \in [SUBSET (1..m) -> A]
    <3> SUFFICES ASSUME NEW s \in SUBSET (1..m)
                 PROVE  (IF m \in s THEN step[<<g[s \ {m}], m>>] ELSE g[s]) \in A
      OBVIOUS
    <3> QED BY <2>1, <2>2, <2>3
  <2>5. ASSUME NEW s \in SUBSET (1..m)
        PROVE  h[s] = IF s = {} THEN b ELSE step[<<h[s \ {Max(s)}], Max(s)>>]
    <3>1. CASE m \in s
      <4>1. Max(s) = m
        <5>1. m \in Nat /\ s # {}
          BY <3>1
        <5>2. Max(s) \in s /\ \A y \in s : Max(s) >= y
          BY <5>1, MaxOf
        <5>3. Max(s) \in 1..m /\ Max(s) >= m
          BY <3>1, <5>2
        <5> QED BY <5>3
      <4>2. h[s \ {m}] = g[s \ {m}]
        BY <2>3
      <4> QED BY <3>1, <4>1, <4>2
    <3>2. CASE m \notin s /\ s # {}
      <4>1. s \in SUBSET (1..(m - 1))
        BY <2>2, <3>2
      <4>2. /\ s \ {Max(s)} \in SUBSET (1..(m - 1))
            /\ s \ {Max(s)} \in SUBSET (1..m) /\ m \notin s \ {Max(s)}
        BY <3>2, <4>1
      <4>3. h[s \ {Max(s)}] = g[s \ {Max(s)}] /\ h[s] = g[s]
        BY <3>2, <4>2
      <4> QED BY <2>1, <3>2, <4>1, <4>3
    <3>3. CASE s = {}
      BY <2>1, <3>3
    <3> QED BY <3>1, <3>2, <3>3
  <2> HIDE DEF h
  <2> QED BY <2>4, <2>5
<1> HIDE DEF Ok
<1>3. 0 \in T /\ \A m \in 1..n : m - 1 \in T => m \in T
  BY <1>1, <1>2
<1> HIDE DEF T
<1>4. n \in T
  BY <1>3, Upwards
<1>5. Ok(n)
  BY <1>4 DEF T
<1> QED BY <1>5 DEF Ok

LEMMA MinOf ==
    ASSUME NEW s \in SUBSET Nat, s # {}
    PROVE  Min(s) \in s /\ \A y \in s : Min(s) <= y
<1>1. PICK x \in s : \A y \in s : ~ (<<y, x>> \in OpToRel(<, Nat))
  BY NatLessThanWellFounded, WFMin
<1>2. \A y \in s : ~ (y < x)
  BY <1>1 DEF OpToRel
<1>3. \A y \in s : x <= y
  BY <1>2
<1>4. \A z \in s : (\A y \in s : z <= y) => z = x
  BY <1>3
<1> QED BY <1>3, <1>4 DEF Min

-----------------------------------------------------------------------------
(* The entries of a journal.  One is made from Blank, field by field.      *)
Acts == NeedsSelect \cup {"Select", "Deselect", "Append", "Create", "Delete", "Rename"}

Draft ==
    [act   : Acts \cup {Blank.act},
     id    : SessionIDs \cup {0},
     mbox  : Mailboxes \cup {Blank.mbox},
     to    : Mailboxes \cup {Blank.to},
     uids  : SUBSET ({0} \cup Msgs),
     luids : SUBSET Msgs,
     flag  : Flags \cup {Blank.flag},
     set   : BOOLEAN,
     as    : {0} \cup Msgs]

LEMMA BlankIsDraft == Blank \in Draft
BY DEF Blank, Draft

LEMMA DraftAct ==
    ASSUME NEW r \in Draft, NEW x \in Acts
    PROVE  [r EXCEPT !.act = x] \in Draft /\ [r EXCEPT !.act = x].act = x
BY SMT DEF Draft

LEMMA DraftID ==
    ASSUME NEW r \in Draft, NEW x \in SessionIDs
    PROVE  /\ [r EXCEPT !.id = x] \in Draft
           /\ [r EXCEPT !.id = x].act = r.act /\ [r EXCEPT !.id = x].id = x
BY SMT DEF Draft

LEMMA DraftMbox ==
    ASSUME NEW r \in Draft, NEW x \in Mailboxes \cup {Blank.mbox}
    PROVE  /\ [r EXCEPT !.mbox = x] \in Draft
           /\ [r EXCEPT !.mbox = x].act = r.act /\ [r EXCEPT !.mbox = x].id = r.id
BY SMT DEF Draft

LEMMA DraftDone ==
    ASSUME NEW r \in Draft, r.act \in Acts, r.id \in SessionIDs, HasData(r)
    PROVE  r \in CMailAction
BY DEF Draft, CMailAction, Fields, Acts

(* A Select or a Deselect made for a session is an entry of it.            *)
Made(act, i, b) == [Blank EXCEPT !.act = act, !.id = i, !.mbox = b]

LEMMA MadeEntry ==
    ASSUME NEW act \in {"Select", "Deselect"}, NEW i \in SessionIDs, NEW b \in Mailboxes
    PROVE  /\ Made(act, i, b) \in CMailAction
           /\ Made(act, i, b).act = act /\ Made(act, i, b).id = i
           /\ Made(act, i, b).mbox = b
<1> DEFINE r == [Blank EXCEPT !.act = act]
           s == [r EXCEPT !.id = i]
           t == [s EXCEPT !.mbox = b]
<1>1. act \in Acts
  BY DEF Acts
<1>2. r \in Draft
  BY <1>1, BlankIsDraft, DraftAct
<1>3. s \in Draft
  <2> HIDE DEF r
  <2> QED BY <1>2, DraftID
<1>4. t \in Draft
  <2> HIDE DEF s
  <2> QED BY <1>3, DraftMbox
<1>5. t.act = act /\ t.id = i /\ t.mbox = b
  BY DEF Blank
<1>6. t = Made(act, i, b)
  BY BlankIsDraft DEF Draft, Made
<1> HIDE DEF t
<1>7. t \in CMailAction
  BY <1>1, <1>4, <1>5, DraftDone DEF HasData
<1> QED BY <1>5, <1>6, <1>7

LEMMA MadeEntries ==
    ASSUME NEW a \in CMailAction, a.mbox \in Mailboxes, NEW act \in {"Select", "Deselect"}
    PROVE  /\ Session(act, a) \in CMailAction
           /\ Session(act, a).act = act /\ Session(act, a).id = a.id
<1>1. a.id \in SessionIDs
  BY DEF CMailAction, Fields
<1>2. Session(act, a) = Made(act, a.id, a.mbox)
  BY DEF Session, Made
<1> QED BY <1>1, <1>2, MadeEntry

LEMMA SessionHasMbox ==
    ASSUME NEW a \in CMailAction, a.act \in {"Select", "Deselect"}
    PROVE  a.mbox \in Mailboxes
BY DEF CMailAction, HasData

(* Places of a sequence of entries.                                        *)
LEMMA Places ==
    ASSUME NEW S, NEW q \in Seq(S)
    PROVE  /\ Len(q) \in Nat /\ DOMAIN q = 1..Len(q) /\ DOMAIN q \in SUBSET Nat
           /\ \A k \in DOMAIN q : k \in Nat /\ q[k] \in S
BY LenProperties, ElementOfSeq

LEMMA Appended ==
    ASSUME NEW S, NEW s \in Seq(S), NEW e \in S
    PROVE  /\ Append(s, e) \in Seq(S) /\ Len(Append(s, e)) = Len(s) + 1
           /\ \A i \in 1..Len(s) : Append(s, e)[i] = s[i]
           /\ Append(s, e)[Len(s) + 1] = e
BY AppendProperties, LenProperties

-----------------------------------------------------------------------------
(* CompactMissing, turn by turn.                                           *)
Missing == [out : Seq(CMailAction), selects : SUBSET SessionIDs]

LEMMA CheckSelectType ==
    ASSUME NEW q \in Seq(CMailAction), NEW acc \in Missing, NEW k \in 1..Len(q)
    PROVE  CheckSelect(q, acc, k) \in Missing
<1>1. q[k] \in CMailAction /\ k \in Nat /\ DOMAIN q = 1..Len(q) /\ Len(q) \in Nat
  BY Places
<1>2. q[k].id \in SessionIDs
  BY <1>1 DEF CMailAction, Fields
<1>3. acc.out \in Seq(CMailAction) /\ acc.selects \in SUBSET SessionIDs
  BY DEF Missing
<1>4. ASSUME Ends(q, k) # {}
      PROVE  acc.out \o <<Session("Select", q[Min(Ends(q, k))]), q[k]>> \in Seq(CMailAction)
  <2>1. Ends(q, k) \in SUBSET Nat /\ Ends(q, k) \subseteq 1..Len(q)
    BY <1>1 DEF Ends, LaterInSession
  <2>2. Min(Ends(q, k)) \in 1..Len(q)
    BY <1>4, <2>1, MinOf
  <2>3. q[Min(Ends(q, k))] \in CMailAction /\ q[Min(Ends(q, k))].mbox \in Mailboxes
    <3>1. Min(Ends(q, k)) \in Ends(q, k)
      BY <1>4, <2>1, MinOf
    <3>2. q[Min(Ends(q, k))].act = "Deselect"
      BY <3>1 DEF Ends
    <3> QED BY <1>1, <2>2, <3>2, Places, SessionHasMbox
  <2>4. Session("Select", q[Min(Ends(q, k))]) \in CMailAction
    BY <2>3, MadeEntries
  <2>5. <<Session("Select", q[Min(Ends(q, k))]), q[k]>> \in Seq(CMailAction)
    BY <1>1, <2>4
  <2> QED BY <1>3, <2>5, ConcatProperties
<1>5. Append(acc.out, q[k]) \in Seq(CMailAction)
  BY <1>1, <1>3, Appended
<1> QED BY <1>2, <1>3, <1>4, <1>5 DEF CheckSelect, Missing

LEMMA CompactMissingTurns ==
    ASSUME NEW q \in Seq(CMailAction)
    PROVE  \E r : /\ CompactMissing(q) = r[Len(q)].out
                  /\ r[0] = [out |-> << >>, selects |-> {}]
                  /\ \A k \in 1..Len(q) : r[k] = CheckSelect(q, r[k - 1], k)
<1> DEFINE n    == Len(q)
           b    == [out |-> << >>, selects |-> {}]
           ids  == [i \in DOMAIN q |-> i]
           E(g) == g = [s \in SUBSET DOMAIN ids |->
                         IF s = {} THEN b
                         ELSE CheckSelect(q, g[s \ {Max(s)}], ids[Max(s)])]
           f    == CHOOSE g : E(g)
<1>1. CompactMissing(q) = f[DOMAIN ids].out
  BY DEF CompactMissing, FoldLeftDomain, FoldLeft, MapThenFoldSet
<1>2. n \in Nat /\ DOMAIN ids = 1..n /\ \A k \in 1..n : ids[k] = k
  BY Places
<1>3. \A s \in SUBSET (1..n) : s # {} => Max(s) \in 1..n /\ s \ {Max(s)} \in SUBSET (1..n)
  BY <1>2, MaxOf
<1>4. \E g : E(g)
  <2> DEFINE step == [p \in Missing \X (1..n) |-> CheckSelect(q, p[1], p[2])]
  <2>1. \A x \in Missing : \A k \in 1..n : step[<<x, k>>] = CheckSelect(q, x, k)
    OBVIOUS
  <2>2. StaysIn(step, Missing, n)
    BY <2>1, CheckSelectType DEF StaysIn
  <2>3. b \in Missing
    BY DEF Missing
  <2> HIDE DEF step, b, n
  <2>4. \E g : IsFold(g, step, b, Missing, n)
    BY <1>2, <2>2, <2>3, FoldExists, Zenon
  <2>5. PICK g : IsFold(g, step, b, Missing, n)
    BY <2>4
  <2>6. \A s \in SUBSET (1..n) :
          g[s] = IF s = {} THEN b ELSE CheckSelect(q, g[s \ {Max(s)}], ids[Max(s)])
    BY <1>2, <1>3, <2>1, <2>5 DEF IsFold
  <2>7. E(g)
    BY <1>2, <2>5, <2>6 DEF IsFold
  <2> QED BY <2>7
<1>5. E(f)
  BY <1>4
<1> HIDE DEF f, b, ids
<1>6. f[1..0] = b
  <2>1. 1..0 = {} /\ {} \in SUBSET (1..n)
    OBVIOUS
  <2> QED BY <1>2, <1>5, <2>1
<1>7. ASSUME NEW k \in 1..n PROVE f[1..k] = CheckSelect(q, f[1..(k - 1)], k)
  <2>1. k \in Nat \ {0} /\ 1..k \in SUBSET (1..n) /\ 1..k # {}
    BY <1>2
  <2>2. Max(1..k) = k /\ (1..k) \ {k} = 1..(k - 1)
    BY <2>1, MaxOfPrefix
  <2>3. f[1..k] = CheckSelect(q, f[(1..k) \ {Max(1..k)}], ids[Max(1..k)])
    BY <1>2, <1>5, <2>1
  <2> QED BY <1>2, <2>2, <2>3
<1> DEFINE r == [k \in 0..n |-> f[1..k]]
<1>8. r[0] = f[1..0] /\ r[n] = f[1..n]
  BY <1>2
<1>9. \A k \in 1..n : r[k] = f[1..k] /\ r[k - 1] = f[1..(k - 1)]
  BY <1>2
<1> HIDE DEF r
<1>10. CompactMissing(q) = r[n].out /\ r[0] = b
  BY <1>1, <1>2, <1>6, <1>8
<1>11. \A k \in 1..n : r[k] = CheckSelect(q, r[k - 1], k)
  BY <1>7, <1>9
<1> QED BY <1>10, <1>11 DEF b, n

-----------------------------------------------------------------------------
(* What the passes keep.  In its session a Select is the first entry, and  *)
(* nothing that needs the session is behind a Deselect (an append may be): *)
(* there is at most one of each.  In a journal as it is recorded what needs*)
(* a Select has one; in one that is tidy, the sessions have a Deselect too.*)
SessionActs == NeedsSelect \cup {"Select", "Deselect"}

InOrder(q) ==
    \A i, j \in DOMAIN q : q[i].id = q[j].id =>
        /\ q[i].act = "Select" => i <= j
        /\ q[i].act = "Deselect" /\ q[j].act \in SessionActs => j <= i

Has(q, act, id) == \E i \in DOMAIN q : q[i].act = act /\ q[i].id = id

Recorded(q) ==
    /\ q \in Seq(CMailAction)
    /\ InOrder(q)
    /\ \A i \in DOMAIN q : q[i].act \in SessionActs => Has(q, "Select", q[i].id)

Tidy(q) ==
    /\ q \in Seq(CMailAction)
    /\ InOrder(q)
    /\ \A i \in DOMAIN q : q[i].act \in SessionActs =>
         Has(q, "Select", q[i].id) /\ Has(q, "Deselect", q[i].id)

(* CompactMissing leaves a recorded journal alone: nothing is missing.     *)
SelectsKnown(q, selects, k) ==
    \A i \in 1..k :
        \/ q[i].act # "Select"
        \/ \E j \in 1..k : q[j].act = "Deselect" /\ q[j].id = q[i].id
        \/ q[i].id \in selects

Copied(q, out, k) == Len(out) = k /\ \A i \in 1..k : out[i] = q[i]

LEMMA NothingMissing ==
    ASSUME NEW q, Recorded(q), NEW acc \in Missing, NEW k \in 1..Len(q),
           Copied(q, acc.out, k - 1), SelectsKnown(q, acc.selects, k - 1)
    PROVE  /\ Copied(q, CheckSelect(q, acc, k).out, k)
           /\ SelectsKnown(q, CheckSelect(q, acc, k).selects, k)
<1>1. /\ q \in Seq(CMailAction) /\ DOMAIN q = 1..Len(q) /\ Len(q) \in Nat
      /\ k \in Nat \ {0} /\ k \in DOMAIN q /\ q[k] \in CMailAction
  BY Places DEF Recorded
<1>2. q[k].act \in NeedsSelect => q[k].id \in acc.selects
  <2> SUFFICES ASSUME q[k].act \in NeedsSelect PROVE q[k].id \in acc.selects
    OBVIOUS
  <2>1. PICK i \in DOMAIN q : q[i].act = "Select" /\ q[i].id = q[k].id
    BY <1>1 DEF Recorded, SessionActs, Has
  <2>2. i <= k /\ i # k
    BY <1>1, <2>1 DEF Recorded, InOrder, NeedsSelect
  <2>3. i \in 1..(k - 1)
    BY <1>1, <2>2
  <2>4. \A j \in 1..(k - 1) : ~ (q[j].act = "Deselect" /\ q[j].id = q[i].id)
    BY <1>1, <2>1 DEF Recorded, InOrder, SessionActs
  <2> QED BY <2>1, <2>3, <2>4 DEF SelectsKnown
<1>3. CheckSelect(q, acc, k) =
        [out     |-> Append(acc.out, q[k]),
         selects |-> CASE q[k].act = "Select"   -> acc.selects \cup {q[k].id}
                       [] q[k].act = "Deselect" -> acc.selects \ {q[k].id}
                       [] OTHER                 -> acc.selects]
  BY <1>2 DEF CheckSelect
<1>4. Copied(q, Append(acc.out, q[k]), k)
  <2>1. acc.out \in Seq(CMailAction) /\ Len(acc.out) = k - 1
    BY DEF Missing, Copied
  <2>2. /\ Len(Append(acc.out, q[k])) = Len(acc.out) + 1
        /\ \A i \in 1..Len(acc.out) : Append(acc.out, q[k])[i] = acc.out[i]
        /\ Append(acc.out, q[k])[Len(acc.out) + 1] = q[k]
    BY <1>1, <2>1, Appended
  <2> HIDE DEF Missing
  <2>3. \A i \in 1..k : i \in 1..(k - 1) \/ i = (k - 1) + 1
    BY <1>1
  <2>4. (k - 1) + 1 = k
    BY <1>1
  <2> QED BY <2>1, <2>2, <2>3, <2>4 DEF Copied
<1>5. ASSUME NEW sel, sel = CASE q[k].act = "Select"   -> acc.selects \cup {q[k].id}
                              [] q[k].act = "Deselect" -> acc.selects \ {q[k].id}
                              [] OTHER                 -> acc.selects
      PROVE  SelectsKnown(q, sel, k)
  <2> SUFFICES ASSUME NEW i \in 1..k, q[i].act = "Select",
                      \A j \in 1..k : ~ (q[j].act = "Deselect" /\ q[j].id = q[i].id)
               PROVE  q[i].id \in sel
    BY DEF SelectsKnown
  <2>1. CASE i = k
    BY <1>5, <2>1
  <2>2. CASE i # k
    <3>1. i \in 1..(k - 1) /\ 1..(k - 1) \subseteq 1..k /\ k \in 1..k
      BY <1>1, <2>2
    <3>2. q[i].id \in acc.selects
      BY <3>1 DEF SelectsKnown
    <3>3. ~ (q[k].act = "Deselect" /\ q[k].id = q[i].id)
      BY <3>1
    <3> QED BY <1>5, <3>2, <3>3
  <2> QED BY <2>1, <2>2
<1> QED BY <1>3, <1>4, <1>5

LEMMA CompactMissingKeeps ==
    ASSUME NEW q, Recorded(q)
    PROVE  CompactMissing(q) = q
<1> DEFINE n == Len(q)
<1>1. q \in Seq(CMailAction) /\ n \in Nat
  BY Places DEF Recorded
<1>2. PICK r : /\ CompactMissing(q) = r[n].out
               /\ r[0] = [out |-> << >>, selects |-> {}]
               /\ \A k \in 1..n : r[k] = CheckSelect(q, r[k - 1], k)
  BY <1>1, CompactMissingTurns
<1> DEFINE T == {k \in 0..n : /\ r[k] \in Missing
                              /\ Copied(q, r[k].out, k)
                              /\ SelectsKnown(q, r[k].selects, k)}
<1>3. 0 \in T
  <2>1. r[0].out = << >> /\ r[0].selects = {} /\ r[0] \in Missing
    BY <1>2 DEF Missing
  <2> QED BY <1>1, <2>1 DEF Copied, SelectsKnown
<1>4. ASSUME NEW k \in 1..n, k - 1 \in T PROVE k \in T
  <2>1. CheckSelect(q, r[k - 1], k) \in Missing
    BY <1>1, <1>4, CheckSelectType
  <2>2. /\ Copied(q, CheckSelect(q, r[k - 1], k).out, k)
        /\ SelectsKnown(q, CheckSelect(q, r[k - 1], k).selects, k)
    BY <1>4, NothingMissing
  <2> QED BY <1>1, <1>2, <2>1, <2>2
<1>5. n \in T
  <2> HIDE DEF T, n
  <2>1. \A k \in 0..n : k \in T
    BY <1>1, <1>3, <1>4, Upwards
  <2> QED BY <1>1, <2>1
<1> HIDE DEF T
<1>6. CompactMissing(q) \in Seq(CMailAction) /\ Copied(q, CompactMissing(q), n)
  BY <1>2, <1>5 DEF T, Missing
<1> QED BY <1>1, <1>6, SeqEqual DEF Copied

-----------------------------------------------------------------------------
(* CompactUnterminated, turn by turn.                                      *)
LEMMA TwoAppended ==
    ASSUME NEW S, NEW s \in Seq(S), NEW a \in S, NEW d \in S
    PROVE  s \o <<a, d>> = Append(Append(s, a), d)
<1> DEFINE t == Append(Append(s, a), d)
           u == s \o <<a, d>>
<1>1. <<a, d>> \in Seq(S) /\ Len(<<a, d>>) = 2 /\ <<a, d>>[1] = a /\ <<a, d>>[2] = d
  OBVIOUS
<1>2. /\ u \in Seq(S) /\ Len(u) = Len(s) + 2
      /\ \A i \in 1..Len(u) : u[i] = IF i <= Len(s) THEN s[i] ELSE <<a, d>>[i - Len(s)]
  BY <1>1, ConcatProperties
<1>3. Append(s, a) \in Seq(S)
  BY Appended
<1>4. /\ t \in Seq(S) /\ Len(t) = Len(s) + 2
      /\ \A i \in 1..Len(s) : t[i] = s[i]
      /\ t[Len(s) + 1] = a /\ t[Len(s) + 2] = d
  <2>1. /\ Len(Append(s, a)) = Len(s) + 1 /\ Append(s, a)[Len(s) + 1] = a
        /\ \A i \in 1..Len(s) : Append(s, a)[i] = s[i]
    BY Appended
  <2>2. /\ t \in Seq(S) /\ Len(t) = Len(Append(s, a)) + 1
        /\ \A i \in 1..Len(Append(s, a)) : t[i] = Append(s, a)[i]
        /\ t[Len(Append(s, a)) + 1] = d
    BY <1>3, Appended
  <2>3. Len(s) \in Nat
    BY LenProperties
  <2> HIDE DEF t
  <2> QED BY <2>1, <2>2, <2>3
<1>5. Len(s) \in Nat
  BY LenProperties
<1> HIDE DEF t, u
<1>6. \A i \in 1..Len(u) : u[i] = t[i]
  <2> SUFFICES ASSUME NEW i \in 1..Len(u) PROVE u[i] = t[i]
    OBVIOUS
  <2>1. CASE i <= Len(s)
    BY <1>2, <1>4, <1>5, <2>1
  <2>2. CASE i = Len(s) + 1
    <3>1. i - Len(s) = 1 /\ ~ (i <= Len(s))
      BY <1>5, <2>2
    <3> QED BY <1>1, <1>2, <1>4, <2>2, <3>1
  <2>3. CASE i = Len(s) + 2
    <3>1. i - Len(s) = 2 /\ ~ (i <= Len(s))
      BY <1>5, <2>3
    <3> QED BY <1>1, <1>2, <1>4, <2>3, <3>1
  <2> QED BY <1>2, <1>5, <2>1, <2>2, <2>3
<1>7. u = t
  BY <1>2, <1>4, <1>6, SeqEqual
<1> QED BY <1>7 DEF u, t

LEMMA CheckDeselectType ==
    ASSUME NEW q \in Seq(CMailAction), NEW out \in Seq(CMailAction), NEW k \in 1..Len(q)
    PROVE  CheckDeselect(q, out, k) \in Seq(CMailAction)
<1>1. q[k] \in CMailAction /\ k \in Nat /\ Len(q) \in Nat /\ DOMAIN q = 1..Len(q)
  BY Places
<1>2. Append(out, q[k]) \in Seq(CMailAction)
  BY <1>1, Appended
<1>3. ASSUME Opened(q, k) # {}
      PROVE  out \o <<q[k], Session("Deselect", q[Min(Opened(q, k))])>> \in Seq(CMailAction)
  <2>1. Opened(q, k) \in SUBSET Nat /\ Opened(q, k) \subseteq 1..Len(q)
    BY <1>1 DEF Opened
  <2>2. Min(Opened(q, k)) \in 1..Len(q)
    BY <1>3, <2>1, MinOf
  <2>3. q[Min(Opened(q, k))] \in CMailAction /\ q[Min(Opened(q, k))].mbox \in Mailboxes
    <3>1. Min(Opened(q, k)) \in Opened(q, k)
      BY <1>3, <2>1, MinOf
    <3>2. q[Min(Opened(q, k))].act = "Select"
      BY <3>1 DEF Opened, Unterminated
    <3> QED BY <1>1, <2>2, <3>2, Places, SessionHasMbox
  <2>4. Session("Deselect", q[Min(Opened(q, k))]) \in CMailAction
    BY <2>3, MadeEntries
  <2>5. <<q[k], Session("Deselect", q[Min(Opened(q, k))])>> \in Seq(CMailAction)
    BY <1>1, <2>4
  <2> QED BY <2>5, ConcatProperties
<1> QED BY <1>2, <1>3 DEF CheckDeselect

LEMMA CompactUnterminatedTurns ==
    ASSUME NEW q \in Seq(CMailAction)
    PROVE  \E r : /\ CompactUnterminated(q) = r[Len(q)]
                  /\ r[0] = << >>
                  /\ \A k \in 1..Len(q) : r[k] = CheckDeselect(q, r[k - 1], k)
<1> DEFINE n    == Len(q)
           A    == Seq(CMailAction)
           ids  == [i \in DOMAIN q |-> i]
           E(g) == g = [s \in SUBSET DOMAIN ids |->
                         IF s = {} THEN << >>
                         ELSE CheckDeselect(q, g[s \ {Max(s)}], ids[Max(s)])]
           f    == CHOOSE g : E(g)
<1>1. CompactUnterminated(q) = f[DOMAIN ids]
  BY DEF CompactUnterminated, FoldLeftDomain, FoldLeft, MapThenFoldSet
<1>2. n \in Nat /\ DOMAIN ids = 1..n /\ \A k \in 1..n : ids[k] = k
  BY Places
<1>3. \A s \in SUBSET (1..n) : s # {} => Max(s) \in 1..n /\ s \ {Max(s)} \in SUBSET (1..n)
  BY <1>2, MaxOf
<1>4. \E g : E(g)
  <2> DEFINE step == [p \in A \X (1..n) |-> CheckDeselect(q, p[1], p[2])]
             b    == << >>
  <2>1. \A x \in A : \A k \in 1..n : step[<<x, k>>] = CheckDeselect(q, x, k)
    OBVIOUS
  <2>2. StaysIn(step, A, n)
    BY <2>1, CheckDeselectType DEF StaysIn
  <2>3. b \in A
    OBVIOUS
  <2> HIDE DEF step, b, n, A
  <2>4. \E g : IsFold(g, step, b, A, n)
    BY <1>2, <2>2, <2>3, FoldExists, Zenon
  <2>5. PICK g : IsFold(g, step, b, A, n)
    BY <2>4
  <2>6. \A s \in SUBSET (1..n) :
          g[s] = IF s = {} THEN b ELSE CheckDeselect(q, g[s \ {Max(s)}], ids[Max(s)])
    BY <1>2, <1>3, <2>1, <2>5 DEF IsFold
  <2>7. E(g)
    BY <1>2, <2>5, <2>6 DEF IsFold, b
  <2> QED BY <2>7
<1>5. E(f)
  BY <1>4
<1> HIDE DEF f, ids
<1>6. f[1..0] = << >>
  <2>1. 1..0 = {} /\ {} \in SUBSET (1..n)
    OBVIOUS
  <2> QED BY <1>2, <1>5, <2>1
<1>7. ASSUME NEW k \in 1..n PROVE f[1..k] = CheckDeselect(q, f[1..(k - 1)], k)
  <2>1. k \in Nat \ {0} /\ 1..k \in SUBSET (1..n) /\ 1..k # {}
    BY <1>2
  <2>2. Max(1..k) = k /\ (1..k) \ {k} = 1..(k - 1)
    BY <2>1, MaxOfPrefix
  <2>3. f[1..k] = CheckDeselect(q, f[(1..k) \ {Max(1..k)}], ids[Max(1..k)])
    BY <1>2, <1>5, <2>1
  <2> QED BY <1>2, <2>2, <2>3
<1> DEFINE r == [k \in 0..n |-> f[1..k]]
<1>8. r[0] = f[1..0] /\ r[n] = f[1..n]
  BY <1>2
<1>9. \A k \in 1..n : r[k] = f[1..k] /\ r[k - 1] = f[1..(k - 1)]
  BY <1>2
<1> HIDE DEF r
<1>10. CompactUnterminated(q) = r[n] /\ r[0] = << >>
  BY <1>1, <1>2, <1>6, <1>8
<1>11. \A k \in 1..n : r[k] = CheckDeselect(q, r[k - 1], k)
  BY <1>7, <1>9
<1> QED BY <1>10, <1>11 DEF n

(* An entry put at the end of a journal in order: if it needs its session, *)
(* that has not been deselected there; if it is a Select, the session is   *)
(* new.                                                                    *)
LEMMA PutLast ==
    ASSUME NEW out \in Seq(CMailAction), NEW e \in CMailAction, InOrder(out),
           \A i \in DOMAIN out : out[i].id = e.id =>
             /\ out[i].act = "Deselect" => e.act \notin SessionActs
             /\ e.act # "Select"
    PROVE  /\ InOrder(Append(out, e))
           /\ \A i \in DOMAIN Append(out, e) :
                Append(out, e)[i] = e \/ (i \in DOMAIN out /\ Append(out, e)[i] = out[i])
           /\ Has(Append(out, e), e.act, e.id)
           /\ \A act, id : Has(out, act, id) => Has(Append(out, e), act, id)
<1> DEFINE p == Append(out, e)
           m == Len(out)
<1>1. /\ p \in Seq(CMailAction) /\ Len(p) = m + 1
      /\ \A i \in 1..m : p[i] = out[i]
      /\ p[m + 1] = e
  BY Appended
<1>2. m \in Nat /\ DOMAIN out = 1..m /\ DOMAIN p = 1..(m + 1)
  BY <1>1, Places
<1> HIDE DEF p, m
<1>3. \A i \in DOMAIN p :
        (i = m + 1 /\ p[i] = e) \/ (i \in DOMAIN out /\ p[i] = out[i])
  BY <1>1, <1>2
<1>4. InOrder(p)
  <2> SUFFICES ASSUME NEW i \in DOMAIN p, NEW j \in DOMAIN p, p[i].id = p[j].id
               PROVE  /\ p[i].act = "Select" => i <= j
                      /\ p[i].act = "Deselect" /\ p[j].act \in SessionActs => j <= i
    BY DEF InOrder
  <2>1. CASE i \in DOMAIN out /\ j \in DOMAIN out
    BY <1>1, <1>2, <2>1 DEF InOrder
  <2>2. CASE i \in DOMAIN out /\ j = m + 1
    <3>1. p[j] = e /\ p[i] = out[i] /\ i <= j
      BY <1>1, <1>2, <2>2
    <3> QED BY <2>2, <3>1
  <2>3. CASE i = m + 1 /\ j \in DOMAIN out
    <3>1. p[i] = e /\ p[j] = out[j] /\ j <= i
      BY <1>1, <1>2, <2>3
    <3> QED BY <2>3, <3>1
  <2>4. CASE i = m + 1 /\ j = m + 1
    BY <1>2, <2>4
  <2> QED BY <1>2, <2>1, <2>2, <2>3, <2>4
<1>5. Has(p, e.act, e.id)
  BY <1>1, <1>2 DEF Has
<1>6. ASSUME NEW act, NEW id, Has(out, act, id) PROVE Has(p, act, id)
  BY <1>1, <1>2, <1>6 DEF Has
<1> QED BY <1>3, <1>4, <1>5, <1>6 DEF p

(* What is true of the journal written when k entries have been looked at. *)
ClosedBy(q, out, k, i) ==
    /\ \E j \in 1..k : q[j].id = out[i].id
    /\ out[i].act = "Deselect" =>
         \/ \E d \in 1..k : q[d].act = "Deselect" /\ q[d].id = out[i].id
         \/ \A j \in k + 1 .. Len(q) : q[j].id # out[i].id
    /\ out[i].act \in SessionActs =>
         /\ Has(out, "Select", out[i].id)
         /\ \/ Has(out, "Deselect", out[i].id)
            \/ \E j \in k + 1 .. Len(q) : q[j].id = out[i].id
         /\ \E j \in 1..k : q[j].act = "Select" /\ q[j].id = out[i].id

Closing(q, out, k) ==
    /\ InOrder(out)
    /\ \A i \in DOMAIN out : ClosedBy(q, out, k, i)
    /\ \A j \in 1..k : q[j].act = "Select" /\ LaterInSession(q, j) # {} =>
         Has(out, "Select", q[j].id)
    /\ \A j \in 1..k : q[j].act = "Deselect" => Has(out, "Deselect", q[j].id)

(* The entry at k is written after the others.                             *)
LEMMA WriteNext ==
    ASSUME NEW q, Recorded(q), NEW out \in Seq(CMailAction), NEW k \in 1..Len(q),
           Closing(q, out, k - 1)
    PROVE  LET p == Append(out, q[k]) IN
           /\ InOrder(p)
           /\ \A i \in DOMAIN p : p[i] = q[k] \/ (i \in DOMAIN out /\ p[i] = out[i])
           /\ Has(p, q[k].act, q[k].id)
           /\ \A act, id : Has(out, act, id) => Has(p, act, id)
           /\ \A i \in DOMAIN out : out[i].act = "Deselect" /\ out[i].id = q[k].id =>
                \E d \in 1..(k - 1) : q[d].act = "Deselect" /\ q[d].id = q[k].id
<1>1. /\ q \in Seq(CMailAction) /\ DOMAIN q = 1..Len(q) /\ Len(q) \in Nat
      /\ k \in Nat \ {0} /\ k \in DOMAIN q /\ q[k] \in CMailAction
  BY Places DEF Recorded
<1>2. ASSUME NEW i \in DOMAIN out, out[i].id = q[k].id
      PROVE  /\ out[i].act = "Deselect" =>
                  \E d \in 1..(k - 1) : q[d].act = "Deselect" /\ q[d].id = q[k].id
             /\ out[i].act = "Deselect" => q[k].act \notin SessionActs
             /\ q[k].act # "Select"
  <2>1. ClosedBy(q, out, k - 1, i)
    BY DEF Closing
  <2>2. k \in (k - 1) + 1 .. Len(q)
    BY <1>1
  <2>3. out[i].act = "Deselect" =>
          \E d \in 1..(k - 1) : q[d].act = "Deselect" /\ q[d].id = q[k].id
    BY <1>2, <2>1, <2>2 DEF ClosedBy
  <2>7. ASSUME NEW d \in 1..(k - 1), q[d].act = "Deselect", q[d].id = q[k].id
        PROVE  q[k].act \notin SessionActs
    <3>1. d \in DOMAIN q /\ ~ (k <= d)
      BY <1>1
    <3> QED BY <1>1, <2>7, <3>1 DEF Recorded, InOrder
  <2>4. PICK j \in 1..(k - 1) : q[j].id = q[k].id
    BY <1>2, <2>1 DEF ClosedBy
  <2>5. j \in DOMAIN q /\ ~ (k <= j)
    BY <1>1
  <2>6. q[k].act # "Select"
    BY <1>1, <2>4, <2>5 DEF Recorded, InOrder
  <2> QED BY <2>3, <2>6, <2>7
<1>3. InOrder(out)
  BY DEF Closing
<1> HIDE DEF Closing
<1> QED BY <1>1, <1>2, <1>3, PutLast

(* The last entry of a session that is selected and not left open.         *)
LEMMA LastOfSession ==
    ASSUME NEW q, Recorded(q), NEW k \in 1..Len(q), LaterInSession(q, k) = {},
           Opened(q, k) = {}, ~ Unterminated(q, k),
           NEW s \in 1..k, q[s].act = "Select", q[s].id = q[k].id
    PROVE  \E d \in 1..k : q[d].act = "Deselect" /\ q[d].id = q[k].id
<1>1. DOMAIN q = 1..Len(q) /\ Len(q) \in Nat /\ k \in DOMAIN q
  BY Places DEF Recorded
<1>2. s # k
  BY DEF Unterminated, Ends
<1>3. s \in 1..(k - 1)
  BY <1>1, <1>2
<1>4. Ends(q, s) # {}
  BY <1>3 DEF Opened, Unterminated
<1>5. PICK d \in s + 1 .. Len(q) : q[d].id = q[s].id /\ q[d].act = "Deselect"
  BY <1>4 DEF Ends, LaterInSession
<1>6. ~ (d \in k + 1 .. Len(q))
  BY <1>5 DEF LaterInSession
<1>7. d \in 1..k
  BY <1>1, <1>6
<1> QED BY <1>5, <1>7

(* The entries written before stay as they are.                            *)
LEMMA StillClosed ==
    ASSUME NEW q, NEW out, NEW p, NEW k \in 1..Len(q), Len(q) \in Nat,
           NEW i, ClosedBy(q, out, k - 1, i), p[i] = out[i],
           \A act, id : Has(out, act, id) => Has(p, act, id),
           q[k].id = out[i].id /\ out[i].act \in SessionActs =>
             Has(p, "Deselect", q[k].id) \/ LaterInSession(q, k) # {}
    PROVE  ClosedBy(q, p, k, i)
<1>1. /\ 1..(k - 1) \subseteq 1..k
      /\ k + 1 .. Len(q) \subseteq (k - 1) + 1 .. Len(q)
      /\ \A j \in (k - 1) + 1 .. Len(q) : j = k \/ j \in k + 1 .. Len(q)
  OBVIOUS
<1>2. LaterInSession(q, k) # {} => \E j \in k + 1 .. Len(q) : q[j].id = q[k].id
  BY DEF LaterInSession
<1>3. p[i].act \in SessionActs =>
        Has(p, "Deselect", p[i].id) \/ \E j \in k + 1 .. Len(q) : q[j].id = p[i].id
  BY <1>1, <1>2 DEF ClosedBy
<1>4. p[i].act = "Deselect" =>
         \/ \E d \in 1..k : q[d].act = "Deselect" /\ q[d].id = p[i].id
         \/ \A j \in k + 1 .. Len(q) : q[j].id # p[i].id
  BY <1>1 DEF ClosedBy
<1>5. \E j \in 1..k : q[j].id = p[i].id
  BY <1>1 DEF ClosedBy
<1>6. p[i].act \in SessionActs =>
         Has(p, "Select", p[i].id) /\ \E j \in 1..k : q[j].act = "Select" /\ q[j].id = p[i].id
  BY <1>1 DEF ClosedBy
<1> QED BY <1>3, <1>4, <1>5, <1>6 DEF ClosedBy

LEMMA ClosingStep ==
    ASSUME NEW q, Recorded(q), NEW out \in Seq(CMailAction), NEW k \in 1..Len(q),
           Closing(q, out, k - 1)
    PROVE  Closing(q, CheckDeselect(q, out, k), k)
<1> DEFINE a == q[k]
           p == Append(out, a)
<1>1. /\ q \in Seq(CMailAction) /\ DOMAIN q = 1..Len(q) /\ Len(q) \in Nat
      /\ k \in Nat \ {0} /\ k \in DOMAIN q /\ a \in CMailAction
  BY Places DEF Recorded
<1>2. /\ InOrder(p)
      /\ \A i \in DOMAIN p : p[i] = a \/ (i \in DOMAIN out /\ p[i] = out[i])
      /\ Has(p, a.act, a.id)
      /\ \A act, id : Has(out, act, id) => Has(p, act, id)
      /\ \A i \in DOMAIN out : out[i].act = "Deselect" /\ out[i].id = a.id =>
           \E d \in 1..(k - 1) : q[d].act = "Deselect" /\ q[d].id = a.id
  BY WriteNext
<1>3. /\ \A i \in DOMAIN out : ClosedBy(q, out, k - 1, i)
      /\ \A j \in 1..(k - 1) : q[j].act = "Select" /\ LaterInSession(q, j) # {} =>
           Has(out, "Select", q[j].id)
      /\ \A j \in 1..(k - 1) : q[j].act = "Deselect" => Has(out, "Deselect", q[j].id)
      /\ InOrder(out)
  BY DEF Closing
<1>4. ASSUME NEW s \in 1..k, s # k, q[s].act = "Select", q[s].id = a.id
      PROVE  Has(out, "Select", a.id)
  <2>1. s \in 1..(k - 1) /\ k \in s + 1 .. Len(q)
    BY <1>1, <1>4
  <2>2. k \in LaterInSession(q, s)
    BY <1>4, <2>1 DEF LaterInSession
  <2> QED BY <1>3, <1>4, <2>1, <2>2
<1>5. ASSUME a.act \in SessionActs
      PROVE  \E s \in 1..k : q[s].act = "Select" /\ q[s].id = a.id
  <2>1. PICK s \in DOMAIN q : q[s].act = "Select" /\ q[s].id = a.id
    BY <1>1, <1>5 DEF Recorded, Has
  <2>2. s <= k
    BY <1>1, <2>1 DEF Recorded, InOrder
  <2> QED BY <1>1, <2>1, <2>2
<1>7. \A j \in 1..k : j = k \/ j \in 1..(k - 1)
  BY <1>1
<1>6. \A j \in 1..k : q[j].act = "Deselect" => Has(p, "Deselect", q[j].id)
  BY <1>2, <1>3, <1>7
<1>8. k \in 1..k
  BY <1>1
<1>9. ASSUME NEW i \in DOMAIN p, p[i] = a,
             a.act \in SessionActs =>
               Has(p, "Deselect", a.id) \/ LaterInSession(q, k) # {}
      PROVE  ClosedBy(q, p, k, i)
  <2>1. a.act \in SessionActs => Has(p, "Select", a.id)
    <3> SUFFICES ASSUME a.act \in SessionActs PROVE Has(p, "Select", a.id)
      OBVIOUS
    <3>1. PICK s \in 1..k : q[s].act = "Select" /\ q[s].id = a.id
      BY <1>5
    <3>2. CASE s = k
      BY <1>2, <3>1, <3>2
    <3>3. CASE s # k
      BY <1>2, <1>4, <3>1, <3>3
    <3> QED BY <3>2, <3>3
  <2>2. LaterInSession(q, k) # {} => \E j \in k + 1 .. Len(q) : q[j].id = a.id
    BY DEF LaterInSession
  <2> HIDE DEF a, p
  <2> QED BY <1>5, <1>8, <1>9, <2>1, <2>2 DEF ClosedBy, a
<1> HIDE DEF a, p
<1>10. CASE LaterInSession(q, k) # {}
  <2>1. ASSUME NEW i \in DOMAIN p PROVE ClosedBy(q, p, k, i)
    <3>1. CASE p[i] = a
      BY <1>9, <1>10, <3>1
    <3>2. CASE i \in DOMAIN out /\ p[i] = out[i]
      BY <1>1, <1>2, <1>3, <1>10, <3>2, StillClosed
    <3> QED BY <1>2, <3>1, <3>2
  <2>2. ASSUME NEW j \in 1..k, q[j].act = "Select", LaterInSession(q, j) # {}
        PROVE  Has(p, "Select", q[j].id)
    BY <1>2, <1>3, <1>7, <2>2 DEF a
  <2>3. CheckDeselect(q, out, k) = p
    BY <1>10 DEF CheckDeselect, p, a
  <2> QED BY <1>2, <1>6, <2>1, <2>2, <2>3 DEF Closing
<1>11. CASE LaterInSession(q, k) = {} /\ Opened(q, k) # {}
  <2>1. Opened(q, k) \in SUBSET Nat
    BY <1>1 DEF Opened
  <2>2. PICK o : o = Min(Opened(q, k)) /\ o \in Opened(q, k)
    BY <1>11, <2>1, MinOf
  <2>3. o \in 1..(k - 1) /\ q[o].id = a.id /\ q[o].act = "Select" /\ Ends(q, o) = {}
    BY <2>2 DEF Opened, Unterminated, a
  <2>4. o \in 1..k /\ o # k /\ o \in DOMAIN q /\ k \in o + 1 .. Len(q)
    BY <1>1, <2>3
  <2>5. a.act # "Deselect"
    BY <2>3, <2>4 DEF Ends, LaterInSession, a
  <2> DEFINE d == Session("Deselect", q[o])
             t == Append(p, d)
  <2>6. d \in CMailAction /\ d.act = "Deselect" /\ d.id = a.id
    <3>1. q[o] \in CMailAction /\ q[o].mbox \in Mailboxes
      BY <1>1, <2>3, <2>4, Places, SessionHasMbox
    <3> QED BY <2>3, <3>1, MadeEntries
  <2>7. CheckDeselect(q, out, k) = t
    BY <1>1, <1>11, <2>2, <2>6, TwoAppended DEF CheckDeselect, p, a
  <2> HIDE DEF d
  <2>8. p \in Seq(CMailAction)
    BY <1>1, Appended DEF p
  <2>15. \A j \in 1..(k - 1) : ~ (q[j].act = "Deselect" /\ q[j].id = a.id)
    <3> SUFFICES ASSUME NEW j \in 1..(k - 1), q[j].act = "Deselect", q[j].id = a.id
                 PROVE  FALSE
      OBVIOUS
    <3>1. j \in DOMAIN q /\ o <= j /\ o # j
      BY <1>1, <2>3, <2>4 DEF Recorded, InOrder
    <3>2. j \in o + 1 .. Len(q)
      BY <1>1, <2>3, <3>1
    <3> QED BY <2>3, <3>2 DEF Ends, LaterInSession
  <2>9. \A i \in DOMAIN p : p[i].id = d.id => p[i].act # "Deselect" /\ d.act # "Select"
    BY <1>2, <2>5, <2>6, <2>15
  <2>10. /\ InOrder(t)
         /\ \A i \in DOMAIN t : t[i] = d \/ (i \in DOMAIN p /\ t[i] = p[i])
         /\ Has(t, d.act, d.id)
         /\ \A act, id : Has(p, act, id) => Has(t, act, id)
    BY <1>2, <2>6, <2>8, <2>9, PutLast
  <2> HIDE DEF t
  <2>11. Has(t, "Select", a.id) /\ Has(t, "Deselect", a.id)
    BY <1>2, <1>4, <2>3, <2>4, <2>6, <2>10
  <2>12. ASSUME NEW i \in DOMAIN t, t[i].id = a.id, t[i] \in {a, d}
         PROVE  ClosedBy(q, t, k, i)
    <3>1. \A j \in k + 1 .. Len(q) : q[j].id # a.id
      BY <1>11 DEF LaterInSession, a
    <3>2. q[k].id = a.id
      BY DEF a
    <3> QED BY <1>8, <2>3, <2>4, <2>11, <2>12, <3>1, <3>2 DEF ClosedBy
  <2>13. ASSUME NEW i \in DOMAIN t PROVE ClosedBy(q, t, k, i)
    <3>1. CASE t[i] = d \/ t[i] = a
      BY <2>6, <2>12, <3>1
    <3>2. CASE i \in DOMAIN out /\ t[i] = out[i]
      BY <1>1, <1>2, <1>3, <2>10, <2>11, <3>2, StillClosed DEF a
    <3> QED BY <1>2, <2>10, <3>1, <3>2
  <2>14. ASSUME NEW j \in 1..k, q[j].act = "Select", LaterInSession(q, j) # {}
         PROVE  Has(t, "Select", q[j].id)
    BY <1>2, <1>3, <1>7, <1>11, <2>10, <2>14
  <2>16. \A j \in 1..k : q[j].act = "Deselect" => Has(t, "Deselect", q[j].id)
    BY <1>6, <2>10
  <2> QED BY <2>7, <2>10, <2>13, <2>14, <2>16 DEF Closing
<1>12. CASE LaterInSession(q, k) = {} /\ Opened(q, k) = {} /\ Unterminated(q, k)
  <2>1. CheckDeselect(q, out, k) = out
    BY <1>12 DEF CheckDeselect
  <2>2. ASSUME NEW i \in DOMAIN out PROVE out[i].id # a.id
    <3>1. PICK j \in 1..(k - 1) : q[j].id = out[i].id
      BY <1>3 DEF ClosedBy
    <3>2. j \in DOMAIN q /\ ~ (k <= j)
      BY <1>1
    <3> QED BY <1>1, <1>12, <3>1, <3>2 DEF Recorded, InOrder, Unterminated, a
  <2>3. ASSUME NEW i \in DOMAIN out PROVE ClosedBy(q, out, k, i)
    BY <1>1, <1>3, <2>2, StillClosed DEF a
  <2>4. ASSUME NEW j \in 1..k, q[j].act = "Select", LaterInSession(q, j) # {}
        PROVE  Has(out, "Select", q[j].id)
    BY <1>3, <1>7, <1>12, <2>4
  <2>5. \A j \in 1..k : q[j].act = "Deselect" => Has(out, "Deselect", q[j].id)
    BY <1>3, <1>7, <1>12 DEF Unterminated
  <2> QED BY <1>3, <2>1, <2>3, <2>4, <2>5 DEF Closing
<1>13. CASE LaterInSession(q, k) = {} /\ Opened(q, k) = {} /\ ~ Unterminated(q, k)
  <2>1. CheckDeselect(q, out, k) = p
    BY <1>13 DEF CheckDeselect, p, a
  <2>2. ASSUME NEW s \in 1..k, q[s].act = "Select", q[s].id = a.id
        PROVE  Has(p, "Deselect", a.id)
    <3>1. PICK d \in 1..k : q[d].act = "Deselect" /\ q[d].id = a.id
      BY <1>13, <2>2, LastOfSession DEF a
    <3> QED BY <1>6, <3>1
  <2>3. ASSUME NEW i \in DOMAIN p PROVE ClosedBy(q, p, k, i)
    <3>1. CASE p[i] = a
      BY <1>5, <1>9, <2>2, <3>1
    <3>2. CASE i \in DOMAIN out /\ p[i] = out[i]
      <4>1. q[k].id = out[i].id /\ out[i].act \in SessionActs => Has(p, "Deselect", q[k].id)
        <5> SUFFICES ASSUME q[k].id = out[i].id, out[i].act \in SessionActs
                     PROVE  Has(p, "Deselect", q[k].id)
          OBVIOUS
        <5>1. PICK s \in 1..(k - 1) : q[s].act = "Select" /\ q[s].id = out[i].id
          BY <1>3, <3>2 DEF ClosedBy
        <5>2. s \in 1..k
          BY <1>1
        <5> QED BY <2>2, <5>1, <5>2 DEF a
      <4> QED BY <1>1, <1>2, <1>3, <3>2, <4>1, StillClosed
    <3> QED BY <1>2, <3>1, <3>2
  <2>4. ASSUME NEW j \in 1..k, q[j].act = "Select", LaterInSession(q, j) # {}
        PROVE  Has(p, "Select", q[j].id)
    BY <1>2, <1>3, <1>7, <1>13, <2>4
  <2> QED BY <1>2, <1>6, <2>1, <2>3, <2>4 DEF Closing
<1> QED BY <1>10, <1>11, <1>12, <1>13

(* CompactUnterminated makes a recorded journal tidy.                      *)
(* The sessions of the entries are known: their IDs are below n, and only  *)
(* entries that need no session have the ID 0.                             *)
Known(q, n) ==
    \A k \in DOMAIN q : q[k].id < n /\ (q[k].act \in SessionActs => q[k].id # 0)

LEMMA CompactUnterminatedTidies ==
    ASSUME NEW q, Recorded(q)
    PROVE  /\ Tidy(CompactUnterminated(q))
           /\ \A m : Known(q, m) => Known(CompactUnterminated(q), m)
<1> DEFINE n == Len(q)
<1>1. q \in Seq(CMailAction) /\ n \in Nat
  BY Places DEF Recorded
<1>2. PICK r : /\ CompactUnterminated(q) = r[n]
               /\ r[0] = << >>
               /\ \A k \in 1..n : r[k] = CheckDeselect(q, r[k - 1], k)
  BY <1>1, CompactUnterminatedTurns
<1> DEFINE T == {k \in 0..n : r[k] \in Seq(CMailAction) /\ Closing(q, r[k], k)}
<1>3. 0 \in T
  <2>1. r[0] \in Seq(CMailAction) /\ DOMAIN r[0] = {} /\ 1..0 = {}
    BY <1>2
  <2> QED BY <1>1, <2>1 DEF Closing, InOrder
<1>4. ASSUME NEW k \in 1..n, k - 1 \in T PROVE k \in T
  <2>1. CheckDeselect(q, r[k - 1], k) \in Seq(CMailAction)
    BY <1>1, <1>4, CheckDeselectType
  <2>2. Closing(q, CheckDeselect(q, r[k - 1], k), k)
    BY <1>4, ClosingStep
  <2> QED BY <1>1, <1>2, <2>1, <2>2
<1>5. n \in T
  <2> HIDE DEF T, n
  <2>1. \A k \in 0..n : k \in T
    BY <1>1, <1>3, <1>4, Upwards
  <2> QED BY <1>1, <2>1
<1>6. r[n] \in Seq(CMailAction) /\ Closing(q, r[n], n)
  BY <1>5
<1>7. n + 1 .. n = {}
  BY <1>1
<1> HIDE DEF n
<1>8. ASSUME NEW i \in DOMAIN r[n], r[n][i].act \in SessionActs
      PROVE  Has(r[n], "Select", r[n][i].id) /\ Has(r[n], "Deselect", r[n][i].id)
  BY <1>6, <1>7, <1>8 DEF Closing, ClosedBy, n
<1>9. DOMAIN q = 1..n
  BY <1>1, Places DEF n
<1>10. ASSUME NEW m, Known(q, m), NEW i \in DOMAIN r[n]
       PROVE  /\ r[n][i].id < m
              /\ r[n][i].act \in SessionActs => r[n][i].id # 0
  <2>1. ClosedBy(q, r[n], n, i)
    BY <1>6 DEF Closing
  <2>2. PICK j \in DOMAIN q : q[j].id = r[n][i].id
    BY <1>9, <2>1 DEF ClosedBy
  <2>3. ASSUME r[n][i].act \in SessionActs PROVE r[n][i].id # 0
    <3>1. PICK l \in DOMAIN q : q[l].act = "Select" /\ q[l].id = r[n][i].id
      BY <1>9, <2>1, <2>3 DEF ClosedBy
    <3>2. q[l].act \in SessionActs
      BY <3>1 DEF SessionActs
    <3> QED BY <1>10, <3>1, <3>2 DEF Known
  <2> QED BY <1>10, <2>2, <2>3 DEF Known
<1>11. \A m : Known(q, m) => Known(r[n], m)
  BY <1>10 DEF Known
<1> QED BY <1>2, <1>6, <1>8, <1>11 DEF Tidy, Closing

-----------------------------------------------------------------------------
(* CompactMultiple.  What its inner loop finds is a later Select.          *)
Reselects(q, i) == {j \in i + 1 .. Len(q) : q[j].act = "Select"}

Seeking(q, i) == [at : {0} \cup Reselects(q, i), total : Int, over : BOOLEAN]

LEMMA SeekReselectType ==
    ASSUME NEW q \in Seq(CMailAction), NEW i \in 1..Len(q),
           NEW acc \in Seeking(q, i), NEW j \in 1..Len(q)
    PROVE  SeekReselect(q, i, acc, j) \in Seeking(q, i)
<1>1. acc.total \in Int /\ acc.at \in {0} \cup Reselects(q, i) /\ acc.over \in BOOLEAN
  BY DEF Seeking
<1>2. CASE j <= i \/ acc.over
  BY <1>2 DEF SeekReselect
<1>3. CASE ~ (j <= i \/ acc.over) /\ q[j].act = "Select" /\ q[j].mbox = q[i].mbox
  <2>1. j \in Reselects(q, i)
    BY <1>3, Places DEF Reselects
  <2>2. SeekReselect(q, i, acc, j) = [acc EXCEPT !.at = j, !.over = TRUE]
    BY <1>3 DEF SeekReselect
  <2>3. \A x \in {0} \cup Reselects(q, i), y \in BOOLEAN :
          [acc EXCEPT !.at = x, !.over = y] \in Seeking(q, i)
    BY DEF Seeking
  <2> QED BY <2>1, <2>2, <2>3
<1>4. CASE ~ (j <= i \/ acc.over) /\ q[j].act = "Select" /\ q[j].mbox # q[i].mbox
  <2>1. SeekReselect(q, i, acc, j) = [acc EXCEPT !.total = @ + 1, !.over = acc.total + 1 > 2]
    BY <1>4 DEF SeekReselect
  <2>2. \A x \in Int, y \in BOOLEAN :
          [acc EXCEPT !.total = x, !.over = y] \in Seeking(q, i)
    BY DEF Seeking
  <2>3. acc.total + 1 \in Int /\ (acc.total + 1 > 2) \in BOOLEAN
    BY <1>1
  <2>4. [acc EXCEPT !.total = acc.total + 1, !.over = acc.total + 1 > 2] \in Seeking(q, i)
    BY <2>2, <2>3
  <2> QED BY <2>1, <2>4
<1>5. CASE ~ (j <= i \/ acc.over) /\ q[j].act = "Deselect"
  BY <1>1, <1>5 DEF SeekReselect, Seeking
<1>6. CASE ~ (j <= i \/ acc.over) /\ q[j].act \notin {"Select", "Deselect"}
  BY <1>6 DEF SeekReselect
<1> QED BY <1>2, <1>3, <1>4, <1>5, <1>6

LEMMA FindReselectTurns ==
    ASSUME NEW q \in Seq(CMailAction), NEW i \in 1..Len(q), NEW total \in Int
    PROVE  \E r : /\ FindReselect(q, i, total) = r[Len(q)]
                  /\ r[0] = [at |-> 0, total |-> total, over |-> FALSE]
                  /\ \A k \in 1..Len(q) : r[k] = SeekReselect(q, i, r[k - 1], k)
<1> DEFINE n    == Len(q)
           A    == Seeking(q, i)
           b    == [at |-> 0, total |-> total, over |-> FALSE]
           ids  == [j \in DOMAIN q |-> j]
           E(g) == g = [s \in SUBSET DOMAIN ids |->
                         IF s = {} THEN b
                         ELSE SeekReselect(q, i, g[s \ {Max(s)}], ids[Max(s)])]
           f    == CHOOSE g : E(g)
<1>1. FindReselect(q, i, total) = f[DOMAIN ids]
  BY DEF FindReselect, FoldLeftDomain, FoldLeft, MapThenFoldSet
<1>2. n \in Nat /\ DOMAIN ids = 1..n /\ \A k \in 1..n : ids[k] = k
  BY Places
<1>3. \A s \in SUBSET (1..n) : s # {} => Max(s) \in 1..n /\ s \ {Max(s)} \in SUBSET (1..n)
  BY <1>2, MaxOf
<1>4. \E g : E(g)
  <2> DEFINE step == [p \in A \X (1..n) |-> SeekReselect(q, i, p[1], p[2])]
  <2>1. \A x \in A : \A k \in 1..n : step[<<x, k>>] = SeekReselect(q, i, x, k)
    OBVIOUS
  <2>2. StaysIn(step, A, n)
    BY <2>1, SeekReselectType DEF StaysIn
  <2>3. b \in A
    BY DEF Seeking
  <2> HIDE DEF step, b, n, A
  <2>4. \E g : IsFold(g, step, b, A, n)
    BY <1>2, <2>2, <2>3, FoldExists, Zenon
  <2>5. PICK g : IsFold(g, step, b, A, n)
    BY <2>4
  <2>6. ASSUME NEW s \in SUBSET (1..n)
        PROVE  g[s] = IF s = {} THEN b ELSE SeekReselect(q, i, g[s \ {Max(s)}], ids[Max(s)])
    <3>1. CASE s = {}
      BY <2>5, <3>1 DEF IsFold
    <3>2. CASE s # {}
      <4>1. Max(s) \in 1..n /\ s \ {Max(s)} \in SUBSET (1..n) /\ ids[Max(s)] = Max(s)
        BY <1>2, <1>3, <3>2
      <4>2. g[s \ {Max(s)}] \in A
        BY <2>5, <4>1 DEF IsFold
      <4>3. g[s] = step[<<g[s \ {Max(s)}], Max(s)>>]
        BY <2>5, <3>2 DEF IsFold
      <4> QED BY <2>1, <3>2, <4>1, <4>2, <4>3
    <3> QED BY <3>1, <3>2
  <2>7. E(g)
    BY <1>2, <2>5, <2>6 DEF IsFold
  <2> QED BY <2>7
<1>5. E(f)
  BY <1>4
<1> HIDE DEF f, ids, b
<1>6. f[1..0] = b
  <2>1. 1..0 = {} /\ {} \in SUBSET (1..n)
    OBVIOUS
  <2> QED BY <1>2, <1>5, <2>1
<1>7. ASSUME NEW k \in 1..n PROVE f[1..k] = SeekReselect(q, i, f[1..(k - 1)], k)
  <2>1. k \in Nat \ {0} /\ 1..k \in SUBSET (1..n) /\ 1..k # {}
    <3>1. n \in Nat /\ k \in 1..n
      BY <1>2
    <3> HIDE DEF n
    <3> QED BY ONLY <3>1
  <2>2. Max(1..k) = k /\ (1..k) \ {k} = 1..(k - 1)
    BY <2>1, MaxOfPrefix
  <2>3. f[1..k] = SeekReselect(q, i, f[(1..k) \ {Max(1..k)}], ids[Max(1..k)])
    BY <1>2, <1>5, <2>1
  <2> QED BY <1>2, <2>2, <2>3
<1> DEFINE r == [k \in 0..n |-> f[1..k]]
<1>8. r[0] = f[1..0] /\ r[n] = f[1..n]
  BY <1>2
<1>9. \A k \in 1..n : r[k] = f[1..k] /\ r[k - 1] = f[1..(k - 1)]
  BY <1>2
<1> HIDE DEF r
<1>10. FindReselect(q, i, total) = r[n] /\ r[0] = b
  BY <1>1, <1>2, <1>6, <1>8
<1>11. \A k \in 1..n : r[k] = SeekReselect(q, i, r[k - 1], k)
  BY <1>7, <1>9
<1> QED BY <1>10, <1>11 DEF n, b

LEMMA FindReselectType ==
    ASSUME NEW q \in Seq(CMailAction), NEW i \in 1..Len(q), NEW total \in Int
    PROVE  FindReselect(q, i, total) \in Seeking(q, i)
<1> DEFINE n == Len(q)
<1>1. n \in Nat
  BY Places
<1>2. PICK r : /\ FindReselect(q, i, total) = r[n]
               /\ r[0] = [at |-> 0, total |-> total, over |-> FALSE]
               /\ \A k \in 1..n : r[k] = SeekReselect(q, i, r[k - 1], k)
  BY FindReselectTurns
<1> DEFINE T == {k \in 0..n : r[k] \in Seeking(q, i)}
<1>3. 0 \in T
  <2>1. \A x \in Int, y \in BOOLEAN : [at |-> 0, total |-> x, over |-> y] \in Seeking(q, i)
    BY DEF Seeking
  <2>2. r[0] \in Seeking(q, i)
    BY <1>2, <2>1
  <2> QED BY <1>1, <2>2
<1>4. ASSUME NEW k \in 1..n, k - 1 \in T PROVE k \in T
  <2>1. SeekReselect(q, i, r[k - 1], k) \in Seeking(q, i)
    BY <1>4, SeekReselectType
  <2> QED BY <1>1, <1>2, <2>1
<1>5. n \in T
  <2> HIDE DEF T, n
  <2>1. \A k \in 0..n : k \in T
    BY <1>1, <1>3, <1>4, Upwards
  <2> QED BY <1>1, <2>1
<1> QED BY <1>2, <1>5

-----------------------------------------------------------------------------
(* Two entries go from a sequence.                                         *)
Skip(i, k) == IF k < i THEN k ELSE k + 1

LEMMA Removed ==
    ASSUME NEW S, NEW q \in Seq(S), NEW i \in 1..Len(q)
    PROVE  /\ RemoveAt(q, i) \in Seq(S) /\ Len(RemoveAt(q, i)) = Len(q) - 1
           /\ \A k \in 1..(Len(q) - 1) : RemoveAt(q, i)[k] = q[Skip(i, k)]
<1> DEFINE n == Len(q)
           a == SubSeq(q, 1, i - 1)
           b == SubSeq(q, i + 1, n)
<1>1. n \in Nat /\ i \in Nat \ {0} /\ i <= n
  BY LenProperties
<1>2. a \in Seq(S) /\ Len(a) = i - 1 /\ \A k \in 1..(i - 1) : a[k] = q[k]
  BY <1>1, SubSeqProperties
<1>3. b \in Seq(S) /\ Len(b) = n - i /\ \A k \in 1..(n - i) : b[k] = q[i + k]
  BY <1>1, SubSeqProperties
<1> HIDE DEF a, b
<1>4. /\ a \o b \in Seq(S) /\ Len(a \o b) = n - 1
      /\ \A k \in 1..(n - 1) : (a \o b)[k] = IF k <= i - 1 THEN a[k] ELSE b[k - (i - 1)]
  BY <1>1, <1>2, <1>3, ConcatProperties
<1>5. ASSUME NEW k \in 1..(n - 1) PROVE (a \o b)[k] = q[Skip(i, k)]
  <2>1. CASE k < i
    BY <1>1, <1>2, <1>4, <2>1 DEF Skip
  <2>2. CASE ~ (k < i)
    <3>1. k - (i - 1) \in 1..(n - i) /\ i + (k - (i - 1)) = k + 1 /\ ~ (k <= i - 1)
      BY <1>1, <2>2
    <3>2. b[k - (i - 1)] = q[k + 1]
      BY <1>3, <3>1
    <3> QED BY <1>4, <2>2, <3>1, <3>2 DEF Skip
  <2> QED BY <2>1, <2>2
<1> QED BY <1>4, <1>5 DEF RemoveAt, a, b

LEMMA EntryRenamed ==
    ASSUME NEW a \in CMailAction, NEW x \in SessionIDs
    PROVE  /\ [a EXCEPT !.id = x] \in CMailAction
           /\ [a EXCEPT !.id = x].act = a.act /\ [a EXCEPT !.id = x].id = x
<1> DEFINE b == [a EXCEPT !.id = x]
<1>1. b \in Fields
  BY SMT DEF CMailAction, Fields
<1>2. /\ b.act = a.act /\ b.id = x
      /\ b.flag = a.flag /\ b.as = a.as /\ b.mbox = a.mbox /\ b.to = a.to
  BY SMT DEF CMailAction, Fields
<1> HIDE DEF b
<1>3. b \in CMailAction
  BY <1>1, <1>2 DEF CMailAction, HasData
<1> QED BY <1>2, <1>3 DEF b

(* The session deselected at i goes on where the one selected at j was: the*)
(* entries that are left keep their order and their kind.                  *)
LeftAt(i, j, k) == Skip(j, Skip(i, k))

LeftOf(q, i, j, p) ==
    /\ p \in Seq(CMailAction) /\ Len(p) = Len(q) - 2
    /\ \A k \in DOMAIN p :
         /\ LeftAt(i, j, k) \in DOMAIN q \ {i, j}
         /\ p[k].act = q[LeftAt(i, j, k)].act
         /\ p[k].id = IF LeftAt(i, j, k) >= j /\ q[LeftAt(i, j, k)].id = q[j].id
                      THEN q[i].id ELSE q[LeftAt(i, j, k)].id

LEMMA Joined ==
    ASSUME NEW q \in Seq(CMailAction), NEW i \in DOMAIN q, NEW j \in DOMAIN q, i < j
    PROVE  LeftOf(q, i, j, JoinSessions(q, i, j))
<1> DEFINE new == [k \in DOMAIN q |->
                     IF k >= j /\ q[k].id = q[j].id THEN [q[k] EXCEPT !.id = q[i].id] ELSE q[k]]
           p == JoinSessions(q, i, j)
<1>1. /\ DOMAIN q = 1..Len(q) /\ Len(q) \in Nat /\ i \in Nat /\ j \in Nat
      /\ \A k \in DOMAIN q : q[k] \in CMailAction
  BY Places
<1>2. q[i].id \in SessionIDs
  BY <1>1 DEF CMailAction, Fields
<1>3. \A k \in DOMAIN q : new[k] \in CMailAction
  BY <1>1, <1>2, EntryRenamed
<1>4. new \in Seq(CMailAction) /\ Len(new) = Len(q) /\ DOMAIN new = DOMAIN q
  <2>1. new \in [1..Len(q) -> CMailAction]
    BY <1>1, <1>3
  <2> QED BY <1>1, <2>1
<1>5. \A k \in DOMAIN q :
        /\ new[k].act = q[k].act
        /\ new[k].id = IF k >= j /\ q[k].id = q[j].id THEN q[i].id ELSE q[k].id
  BY <1>1, <1>2, EntryRenamed
<1>6. p = RemoveAt(RemoveAt(new, j), i)
  BY DEF JoinSessions
<1> HIDE DEF new, p
<1> DEFINE m == RemoveAt(new, j)
<1>7. /\ m \in Seq(CMailAction) /\ Len(m) = Len(q) - 1
      /\ \A k \in 1..(Len(q) - 1) : m[k] = new[Skip(j, k)]
  <2>1. j \in 1..Len(new)
    BY <1>1, <1>4
  <2>2. /\ m \in Seq(CMailAction) /\ Len(m) = Len(new) - 1
        /\ \A k \in 1..(Len(new) - 1) : m[k] = new[Skip(j, k)]
    BY <1>4, <2>1, Removed
  <2> QED BY <1>4, <2>2
<1>8. i \in 1..Len(m)
  BY <1>1, <1>7
<1> HIDE DEF m
<1>9. /\ RemoveAt(m, i) \in Seq(CMailAction) /\ Len(RemoveAt(m, i)) = Len(m) - 1
      /\ \A k \in 1..(Len(m) - 1) : RemoveAt(m, i)[k] = m[Skip(i, k)]
  BY <1>7, <1>8, Removed
<1>10. /\ p \in Seq(CMailAction) /\ Len(p) = Len(q) - 2
       /\ \A k \in 1..(Len(q) - 2) : p[k] = m[Skip(i, k)]
  BY <1>1, <1>6, <1>7, <1>9 DEF m
<1>11. DOMAIN p = 1..(Len(q) - 2)
  BY <1>10, LenProperties
<1>12. ASSUME NEW k \in DOMAIN p
       PROVE  LeftAt(i, j, k) \in DOMAIN q \ {i, j} /\ p[k] = new[LeftAt(i, j, k)]
  <2>1. Skip(i, k) \in 1..(Len(q) - 1) /\ Skip(i, k) # i
    BY <1>1, <1>11 DEF Skip
  <2>2. LeftAt(i, j, k) \in 1..Len(q) /\ LeftAt(i, j, k) # j /\ LeftAt(i, j, k) # i
    BY <1>1, <2>1 DEF Skip, LeftAt
  <2>3. p[k] = new[Skip(j, Skip(i, k))]
    BY <1>7, <1>10, <1>11, <2>1
  <2> QED BY <1>1, <2>2, <2>3 DEF LeftAt
<1>13. LeftOf(q, i, j, p)
  BY <1>5, <1>10, <1>12 DEF LeftOf
<1> QED BY <1>13 DEF p

SkipsBoth(n, i, j) ==
    /\ \A k, l \in 1..(n - 2) : LeftAt(i, j, k) <= LeftAt(i, j, l) <=> k <= l
    /\ \A x \in (1..n) \ {i, j} : \E k \in 1..(n - 2) : LeftAt(i, j, k) = x

LEMMA LeftOrder ==
    ASSUME NEW n \in Nat, NEW i \in 1..n, NEW j \in 1..n, i < j
    PROVE  SkipsBoth(n, i, j)
<1>1. ASSUME NEW k \in 1..(n - 2), NEW l \in 1..(n - 2)
      PROVE  LeftAt(i, j, k) <= LeftAt(i, j, l) <=> k <= l
  BY DEF LeftAt, Skip
<1>2. ASSUME NEW x \in (1..n) \ {i, j}
      PROVE  \E k \in 1..(n - 2) : LeftAt(i, j, k) = x
  <2>1. CASE x < i
    <3>1. x \in 1..(n - 2) /\ LeftAt(i, j, x) = x
      BY <2>1 DEF LeftAt, Skip
    <3> QED BY <3>1
  <2>2. CASE x > i /\ x < j
    <3>1. x - 1 \in 1..(n - 2) /\ LeftAt(i, j, x - 1) = x
      BY <2>2 DEF LeftAt, Skip
    <3> QED BY <3>1
  <2>3. CASE x > j
    <3>1. x - 2 \in 1..(n - 2) /\ LeftAt(i, j, x - 2) = x
      BY <2>3 DEF LeftAt, Skip
    <3> QED BY <3>1
  <2> QED BY <2>1, <2>2, <2>3
<1> QED BY <1>1, <1>2 DEF SkipsBoth

LEMMA JoinKeepsTidy ==
    ASSUME NEW q, Tidy(q), NEW i \in DOMAIN q, q[i].act = "Deselect", NEW j \in Reselects(q, i)
    PROVE  Tidy(JoinSessions(q, i, j))
<1> DEFINE p == JoinSessions(q, i, j)
           n == Len(q)
           x == q[i].id
           y == q[j].id
           h(k) == LeftAt(i, j, k)
<1>1. q \in Seq(CMailAction) /\ DOMAIN q = 1..n /\ n \in Nat /\ \A k \in DOMAIN q : k \in Nat
  BY Places DEF Tidy
<1>2. j \in DOMAIN q /\ i < j /\ q[j].act = "Select" /\ i \in Nat /\ j \in Nat
  BY <1>1 DEF Reselects
<1>3. /\ p \in Seq(CMailAction) /\ Len(p) = n - 2
      /\ \A k \in DOMAIN p : /\ h(k) \in DOMAIN q \ {i, j}
                             /\ p[k].act = q[h(k)].act
                             /\ p[k].id = IF h(k) >= j /\ q[h(k)].id = y
                                          THEN x ELSE q[h(k)].id
  <2>1. LeftOf(q, i, j, p)
    BY <1>1, <1>2, Joined
  <2> HIDE DEF p
  <2> QED BY <2>1 DEF LeftOf
<1>4. DOMAIN p = 1..(n - 2)
  BY <1>3, LenProperties
<1>5. /\ \A k, l \in DOMAIN p : h(k) <= h(l) <=> k <= l
      /\ \A z \in DOMAIN q \ {i, j} : \E k \in DOMAIN p : h(k) = z
  <2>1. i \in 1..n /\ j \in 1..n
    BY <1>1, <1>2
  <2>2. /\ \A k, l \in 1..(n - 2) : LeftAt(i, j, k) <= LeftAt(i, j, l) <=> k <= l
        /\ \A z \in (1..n) \ {i, j} : \E k \in 1..(n - 2) : LeftAt(i, j, k) = z
    <3>1. n \in Nat /\ i < j
      BY <1>1, <1>2
    <3> HIDE DEF n
    <3>2. SkipsBoth(n, i, j)
      BY <2>1, <3>1, LeftOrder
    <3> QED BY <3>2 DEF SkipsBoth
  <2> HIDE DEF p, n
  <2> QED BY <1>1, <1>4, <2>2, SMTT(30)
<1>6. InOrder(q)
  BY DEF Tidy
<1> HIDE DEF p, n, h
<1>7. x # y
  BY <1>1, <1>2, <1>6 DEF InOrder
<1>8. \A k \in DOMAIN q : /\ q[k].id = y => j <= k
                          /\ q[k].id = x /\ q[k].act \in SessionActs => k <= i
                          /\ q[k].id = y /\ q[k].act = "Select" => k = j
                          /\ q[k].id = x /\ q[k].act = "Deselect" => k = i
  <2> SUFFICES ASSUME NEW k \in DOMAIN q
               PROVE  /\ q[k].id = y => j <= k
                      /\ q[k].id = x /\ q[k].act \in SessionActs => k <= i
                      /\ q[k].id = y /\ q[k].act = "Select" => k = j
                      /\ q[k].id = x /\ q[k].act = "Deselect" => k = i
    OBVIOUS
  <2>1. k \in Nat /\ i \in Nat /\ j \in Nat
    BY <1>1, <1>2
  <2>2. q[k].id = y => j <= k
    BY <1>2, <1>6 DEF InOrder
  <2>3. q[k].id = x /\ q[k].act \in SessionActs => k <= i
    BY <1>6 DEF InOrder
  <2>4. q[k].id = y /\ q[k].act = "Select" => k <= j
    BY <1>2, <1>6 DEF InOrder
  <2>5. q[k].id = x /\ q[k].act = "Deselect" => i <= k
    BY <1>6 DEF InOrder, SessionActs
  <2>6. "Deselect" \in SessionActs
    BY DEF SessionActs
  <2> QED BY <2>1, <2>2, <2>3, <2>4, <2>5, <2>6
<1>9. ASSUME NEW k \in DOMAIN p
      PROVE  /\ h(k) \in DOMAIN q /\ h(k) # i /\ h(k) # j /\ h(k) \in Nat
             /\ p[k].act = q[h(k)].act
             /\ p[k].id # x => q[h(k)].id = p[k].id
             /\ p[k].id = x => \/ /\ q[h(k)].id = x /\ p[k].act # "Deselect"
                                  /\ p[k].act \in SessionActs => h(k) <= i
                               \/ q[h(k)].id = y /\ j <= h(k) /\ p[k].act # "Select"
             /\ p[k].id # y
  BY <1>1, <1>3, <1>7, <1>8, <1>9
<1>10. ASSUME NEW k \in DOMAIN p, NEW l \in DOMAIN p, p[k].id = p[l].id
       PROVE  /\ p[k].act = "Select" => h(k) <= h(l)
              /\ p[k].act = "Deselect" /\ p[l].act \in SessionActs => h(l) <= h(k)
  <2>1. CASE p[k].id # x
    BY <1>6, <1>9, <1>10, <2>1 DEF InOrder
  <2>2. CASE p[k].id = x
    <3>1. ASSUME p[k].act = "Select" PROVE h(k) <= h(l)
      <4>1. q[h(k)].id = x /\ h(k) <= i /\ q[h(k)].act = "Select"
        BY <1>9, <2>2, <3>1 DEF SessionActs
      <4>2. CASE q[h(l)].id = x
        BY <1>6, <1>9, <4>1, <4>2 DEF InOrder
      <4>3. CASE j <= h(l)
        BY <1>2, <1>9, <4>1, <4>3
      <4> QED BY <1>9, <1>10, <2>2, <4>2, <4>3
    <3>2. ASSUME p[k].act = "Deselect", p[l].act \in SessionActs PROVE h(l) <= h(k)
      <4>1. q[h(k)].id = y /\ j <= h(k) /\ q[h(k)].act = "Deselect"
        BY <1>9, <2>2, <3>2
      <4>2. CASE q[h(l)].id = y
        BY <1>6, <1>9, <3>2, <4>1, <4>2 DEF InOrder
      <4>3. CASE h(l) <= i
        BY <1>2, <1>9, <4>1, <4>3
      <4> QED BY <1>9, <1>10, <2>2, <3>2, <4>2, <4>3
    <3> QED BY <3>1, <3>2
  <2> QED BY <2>1, <2>2
<1>11. InOrder(p)
  BY <1>5, <1>10 DEF InOrder
<1>12. ASSUME NEW s \in DOMAIN q \ {i, j}
       PROVE  Has(p, q[s].act, IF q[s].id = y THEN x ELSE q[s].id)
  <2>1. PICK k \in DOMAIN p : h(k) = s
    BY <1>5
  <2>2. p[k].act = q[s].act /\ p[k].id = IF q[s].id = y THEN x ELSE q[s].id
    BY <1>3, <1>8, <2>1
  <2> QED BY <2>2 DEF Has
<1>13. ASSUME NEW k \in DOMAIN p, p[k].act \in SessionActs
       PROVE  Has(p, "Select", p[k].id) /\ Has(p, "Deselect", p[k].id)
  <2>1. CASE p[k].id # x
    <3>1. q[h(k)].act \in SessionActs /\ q[h(k)].id = p[k].id
      BY <1>9, <1>13, <2>1
    <3>2. Has(q, "Select", p[k].id) /\ Has(q, "Deselect", p[k].id)
      BY <1>9, <3>1 DEF Tidy
    <3>3. PICK s \in DOMAIN q, d \in DOMAIN q :
               /\ q[s].act = "Select" /\ q[s].id = p[k].id
               /\ q[d].act = "Deselect" /\ q[d].id = p[k].id
      BY <3>2 DEF Has
    <3>4. s \notin {i, j} /\ d \notin {i, j} /\ q[s].id # y /\ q[d].id # y
      BY <1>2, <1>9, <2>1, <3>3
    <3> QED BY <1>12, <3>3, <3>4
  <2>2. CASE p[k].id = x
    <3>1. Has(q, "Select", x) /\ Has(q, "Deselect", y)
      BY <1>2 DEF Tidy, SessionActs
    <3>2. PICK s \in DOMAIN q, d \in DOMAIN q :
               /\ q[s].act = "Select" /\ q[s].id = x
               /\ q[d].act = "Deselect" /\ q[d].id = y
      BY <3>1 DEF Has
    <3>3. s \notin {i, j} /\ d \notin {i, j}
      BY <1>2, <1>7, <3>2
    <3> QED BY <1>7, <1>12, <2>2, <3>2, <3>3
  <2> QED BY <2>1, <2>2
<1>14. Tidy(p)
  BY <1>3, <1>11, <1>13 DEF Tidy
<1> QED BY <1>14 DEF p

LEMMA JoinKeepsKnown ==
    ASSUME NEW q \in Seq(CMailAction), NEW m, Known(q, m),
           NEW i \in DOMAIN q, q[i].act = "Deselect", NEW j \in Reselects(q, i)
    PROVE  Known(JoinSessions(q, i, j), m)
<1>1. j \in DOMAIN q /\ i < j
  BY Places DEF Reselects
<1>2. PICK p : p = JoinSessions(q, i, j)
  OBVIOUS
<1>3. LeftOf(q, i, j, p)
  BY <1>1, <1>2, Joined
<1>4. q[i].id < m /\ q[i].id # 0
  BY DEF Known, SessionActs
<1>5. ASSUME NEW k \in DOMAIN p
      PROVE  p[k].id < m /\ (p[k].act \in SessionActs => p[k].id # 0)
  <2>1. PICK l \in DOMAIN q : /\ p[k].act = q[l].act
                              /\ p[k].id = q[i].id \/ p[k].id = q[l].id
    BY <1>3 DEF LeftOf
  <2>2. q[l].id < m /\ (q[l].act \in SessionActs => q[l].id # 0)
    BY DEF Known
  <2> QED BY <1>4, <2>1, <2>2
<1> QED BY <1>2, <1>5 DEF Known

Queues(tidy, m) == {q \in Seq(CMailAction) : tidy => Tidy(q) /\ Known(q, m)}

Joining(tidy, m) == [queue : Queues(tidy, m), i : Nat \ {0}, total : Int]

LEMMA JoinNextType ==
    ASSUME NEW tidy, NEW m, NEW s \in Joining(tidy, m)
    PROVE  JoinNext(s) \in Joining(tidy, m)
<1> DEFINE q == s.queue
           i == s.i
<1>1. q \in Queues(tidy, m) /\ q \in Seq(CMailAction) /\ i \in Nat \ {0} /\ s.total \in Int
  BY DEF Joining, Queues
<1>2. Len(q) \in Nat /\ DOMAIN q = 1..Len(q)
  BY <1>1, Places
<1>3. \A x \in Nat \ {0}, y \in Int : [s EXCEPT !.i = x, !.total = y] \in Joining(tidy, m)
  BY DEF Joining
<1>4. \A x \in Queues(tidy, m), y \in Int :
        [s EXCEPT !.queue = x, !.total = y] \in Joining(tidy, m)
  BY DEF Joining
<1>5. \A x \in Nat \ {0} : [s EXCEPT !.i = x] \in Joining(tidy, m)
  BY DEF Joining
<1>6. CASE i > Len(q)
  BY <1>1, <1>2, <1>6 DEF JoinNext
<1>7. CASE i <= Len(q) /\ q[i].act = "Select"
  <2>1. JoinNext(s) = [s EXCEPT !.i = i + 1, !.total = s.total + 1]
    BY <1>1, <1>2, <1>7 DEF JoinNext
  <2>2. i + 1 \in Nat \ {0} /\ s.total + 1 \in Int
    BY <1>1
  <2> QED BY <1>3, <2>1, <2>2
<1>8. CASE i <= Len(q) /\ q[i].act = "Deselect"
  <2> DEFINE found == FindReselect(q, i, s.total - 1)
  <2>1. i \in 1..Len(q) /\ s.total - 1 \in Int
    BY <1>1, <1>2, <1>8
  <2>2. found \in Seeking(q, i)
    BY <1>1, <2>1, FindReselectType
  <2>3. found.total \in Int /\ found.at \in {0} \cup Reselects(q, i)
    BY <2>2 DEF Seeking
  <2>4. JoinNext(s) = IF found.at = 0
                      THEN [s EXCEPT !.i = i + 1, !.total = found.total]
                      ELSE [s EXCEPT !.queue = JoinSessions(q, i, found.at),
                                     !.total = found.total]
    BY <1>1, <1>2, <1>8 DEF JoinNext
  <2> HIDE DEF found
  <2>5. CASE found.at = 0
    <3>1. i + 1 \in Nat \ {0}
      BY <1>1
    <3> QED BY <1>3, <2>3, <2>4, <2>5, <3>1, ZenonT(30)
  <2>6. CASE found.at # 0
    <3>1. Tidy(q) => Tidy(JoinSessions(q, i, found.at))
      BY <1>1, <1>2, <1>8, <2>1, <2>3, <2>6, JoinKeepsTidy
    <3>2. found.at \in DOMAIN q /\ i \in DOMAIN q /\ i < found.at
      BY <1>1, <1>2, <2>1, <2>3, <2>6 DEF Reselects
    <3>3. JoinSessions(q, i, found.at) \in Seq(CMailAction)
      BY <1>1, <3>2, Joined DEF LeftOf
    <3>4. Known(q, m) => Known(JoinSessions(q, i, found.at), m)
      BY <1>1, <1>8, <2>3, <2>6, <3>2, JoinKeepsKnown
    <3>5. JoinSessions(q, i, found.at) \in Queues(tidy, m)
      BY <1>1, <3>1, <3>3, <3>4 DEF Queues
    <3> QED BY <1>4, <2>3, <2>4, <2>6, <3>5
  <2> QED BY <2>5, <2>6
<1>9. CASE i <= Len(q) /\ q[i].act \notin {"Select", "Deselect"}
  <2>1. JoinNext(s) = [s EXCEPT !.i = i + 1]
    BY <1>1, <1>2, <1>9 DEF JoinNext
  <2>2. i + 1 \in Nat \ {0}
    BY <1>1
  <2> QED BY <1>5, <2>1, <2>2
<1> QED BY <1>1, <1>2, <1>6, <1>7, <1>8, <1>9

LEMMA CompactMultipleTurns ==
    ASSUME NEW q \in Seq(CMailAction)
    PROVE  \E r : /\ CompactMultiple(q) = r[Len(q)].queue
                  /\ r[0] = [queue |-> q, i |-> 1, total |-> 0]
                  /\ \A k \in 1..Len(q) : r[k] = JoinNext(r[k - 1])
<1> DEFINE n    == Len(q)
           b    == [queue |-> q, i |-> 1, total |-> 0]
           ids  == [j \in DOMAIN q |-> j]
           E(g) == g = [s \in SUBSET DOMAIN ids |->
                         IF s = {} THEN b ELSE JoinNext(g[s \ {Max(s)}])]
           f    == CHOOSE g : E(g)
<1>1. CompactMultiple(q) = f[DOMAIN ids].queue
  BY DEF CompactMultiple, FoldLeftDomain, FoldLeft, MapThenFoldSet
<1>2. n \in Nat /\ DOMAIN ids = 1..n
  BY Places
<1>3. \A s \in SUBSET (1..n) : s # {} => Max(s) \in 1..n /\ s \ {Max(s)} \in SUBSET (1..n)
  BY <1>2, MaxOf
<1>4. \E g : E(g)
  <2> DEFINE J == Joining(FALSE, 0)
             step == [p \in J \X (1..n) |-> JoinNext(p[1])]
  <2>1. \A x \in J : \A k \in 1..n : step[<<x, k>>] = JoinNext(x)
    OBVIOUS
  <2>2. StaysIn(step, J, n)
    BY <2>1, JoinNextType DEF StaysIn
  <2>3. b \in J
    BY DEF Joining, Queues
  <2> HIDE DEF step, b, n, J
  <2>4. \E g : IsFold(g, step, b, J, n)
    BY <1>2, <2>2, <2>3, FoldExists, Zenon
  <2>5. PICK g : IsFold(g, step, b, J, n)
    BY <2>4
  <2>6. \A s \in SUBSET (1..n) :
          g[s] = IF s = {} THEN b ELSE JoinNext(g[s \ {Max(s)}])
    BY <1>3, <2>1, <2>5 DEF IsFold
  <2>7. E(g)
    BY <1>2, <2>5, <2>6 DEF IsFold
  <2> QED BY <2>7
<1>5. E(f)
  BY <1>4
<1> HIDE DEF f, ids, b
<1>6. f[1..0] = b
  <2>1. 1..0 = {} /\ {} \in SUBSET (1..n)
    OBVIOUS
  <2> QED BY <1>2, <1>5, <2>1
<1>7. ASSUME NEW k \in 1..n PROVE f[1..k] = JoinNext(f[1..(k - 1)])
  <2>1. k \in Nat \ {0} /\ 1..k \in SUBSET (1..n) /\ 1..k # {}
    <3>1. n \in Nat /\ k \in 1..n
      BY <1>2
    <3>2. \A m \in Nat : \A j \in 1..m :
            j \in Nat \ {0} /\ 1..j \in SUBSET (1..m) /\ 1..j # {}
      OBVIOUS
    <3> HIDE DEF n
    <3> QED BY ONLY <3>1, <3>2
  <2>2. Max(1..k) = k /\ (1..k) \ {k} = 1..(k - 1)
    BY <2>1, MaxOfPrefix
  <2>3. f[1..k] = JoinNext(f[(1..k) \ {Max(1..k)}])
    BY <1>2, <1>5, <2>1
  <2> QED BY <2>2, <2>3
<1> DEFINE r == [k \in 0..n |-> f[1..k]]
<1>8. r[0] = f[1..0] /\ r[n] = f[1..n]
  BY <1>2
<1>9. \A k \in 1..n : r[k] = f[1..k] /\ r[k - 1] = f[1..(k - 1)]
  BY <1>2
<1> HIDE DEF r
<1>10. CompactMultiple(q) = r[n].queue /\ r[0] = b
  BY <1>1, <1>2, <1>6, <1>8
<1>11. \A k \in 1..n : r[k] = JoinNext(r[k - 1])
  BY <1>7, <1>9
<1> QED BY <1>10, <1>11 DEF n, b

(* Joining the sessions of a mailbox keeps a tidy journal tidy, and its    *)
(* sessions known.                                                         *)
LEMMA CompactMultipleJoins ==
    ASSUME NEW tidy, NEW m, NEW q \in Queues(tidy, m)
    PROVE  CompactMultiple(q) \in Queues(tidy, m)
<1> DEFINE n == Len(q)
<1>1. n \in Nat /\ q \in Seq(CMailAction)
  BY Places DEF Queues
<1>2. PICK r : /\ CompactMultiple(q) = r[n].queue
               /\ r[0] = [queue |-> q, i |-> 1, total |-> 0]
               /\ \A k \in 1..n : r[k] = JoinNext(r[k - 1])
  BY <1>1, CompactMultipleTurns
<1> DEFINE T == {k \in 0..n : r[k] \in Joining(tidy, m)}
<1>3. 0 \in T
  BY <1>1, <1>2 DEF Joining
<1>4. ASSUME NEW k \in 1..n, k - 1 \in T PROVE k \in T
  <2>1. JoinNext(r[k - 1]) \in Joining(tidy, m)
    BY <1>4, JoinNextType
  <2> QED BY <1>1, <1>2, <2>1
<1>5. n \in T
  <2> HIDE DEF T, n
  <2>1. \A k \in 0..n : k \in T
    BY <1>1, <1>3, <1>4, Upwards
  <2> QED BY <1>1, <2>1
<1> QED BY <1>2, <1>5 DEF Joining

-----------------------------------------------------------------------------
(* The last two passes change what the entries say, never their kind or    *)
(* their session.                                                          *)
SameSessions(p, q) ==
    /\ Len(p) = Len(q)
    /\ \A k \in DOMAIN q : p[k].act = q[k].act /\ p[k].id = q[k].id

Alike(q) == {p \in Seq(CMailAction) : SameSessions(p, q)}

LEMMA AlikeIsTidy ==
    ASSUME NEW q, Tidy(q), NEW p \in Alike(q)
    PROVE  Tidy(p) /\ \A m : Known(q, m) => Known(p, m)
<1>1. q \in Seq(CMailAction) /\ p \in Seq(CMailAction) /\ SameSessions(p, q)
  BY DEF Tidy, Alike
<1>2. DOMAIN p = DOMAIN q
  BY <1>1, Places DEF SameSessions
<1>3. \A k \in DOMAIN p : p[k].act = q[k].act /\ p[k].id = q[k].id
  BY <1>1, <1>2 DEF SameSessions
<1>4. \A act, id : Has(q, act, id) => Has(p, act, id)
  BY <1>2, <1>3 DEF Has
<1>5. InOrder(p)
  BY <1>2, <1>3 DEF Tidy, InOrder
<1>6. \A i \in DOMAIN p : p[i].act \in SessionActs =>
        Has(p, "Select", p[i].id) /\ Has(p, "Deselect", p[i].id)
  BY <1>2, <1>3, <1>4 DEF Tidy
<1>7. \A m : Known(q, m) => Known(p, m)
  BY <1>2, <1>3 DEF Known
<1> QED BY <1>1, <1>5, <1>6, <1>7 DEF Tidy

LEMMA AlikeItself ==
    ASSUME NEW q \in Seq(CMailAction)
    PROVE  q \in Alike(q)
BY DEF Alike, SameSessions

LEMMA AlikeAgain ==
    ASSUME NEW q \in Seq(CMailAction), NEW p \in Alike(q), NEW t \in Alike(p)
    PROVE  t \in Alike(q)
<1>1. p \in Seq(CMailAction) /\ DOMAIN p = DOMAIN q
  BY Places DEF Alike, SameSessions
<1> QED BY <1>1 DEF Alike, SameSessions

(* Other messages in an entry.                                             *)
LEMMA EntryUIDs ==
    ASSUME NEW a \in CMailAction, NEW U \in SUBSET ({0} \cup Msgs), NEW L \in SUBSET Msgs
    PROVE  /\ [a EXCEPT !.uids = U] \in CMailAction
           /\ [a EXCEPT !.uids = U].act = a.act /\ [a EXCEPT !.uids = U].id = a.id
           /\ [a EXCEPT !.luids = L] \in CMailAction
           /\ [a EXCEPT !.luids = L].act = a.act /\ [a EXCEPT !.luids = L].id = a.id
<1> DEFINE b == [a EXCEPT !.uids = U]
           c == [a EXCEPT !.luids = L]
<1>1. b \in Fields /\ c \in Fields
  BY SMT DEF CMailAction, Fields
<1>2. /\ b.act = a.act /\ b.id = a.id
      /\ b.flag = a.flag /\ b.as = a.as /\ b.mbox = a.mbox /\ b.to = a.to
  BY SMT DEF CMailAction, Fields
<1>3. /\ c.act = a.act /\ c.id = a.id
      /\ c.flag = a.flag /\ c.as = a.as /\ c.mbox = a.mbox /\ c.to = a.to
  BY SMT DEF CMailAction, Fields
<1> HIDE DEF b, c
<1>4. b \in CMailAction /\ c \in CMailAction
  BY <1>1, <1>2, <1>3 DEF CMailAction, HasData
<1> QED BY <1>2, <1>3, <1>4 DEF b, c

LEMMA EntrySet ==
    ASSUME NEW q \in Seq(CMailAction), NEW k \in DOMAIN q, NEW a \in CMailAction,
           a.act = q[k].act, a.id = q[k].id
    PROVE  [q EXCEPT ![k] = a] \in Alike(q)
<1> DEFINE p == [q EXCEPT ![k] = a]
<1>1. DOMAIN q = 1..Len(q) /\ Len(q) \in Nat /\ \A j \in DOMAIN q : q[j] \in CMailAction
  BY Places
<1>2. p \in Seq(CMailAction) /\ Len(p) = Len(q)
  <2>1. p \in [1..Len(q) -> CMailAction]
    BY <1>1
  <2> QED BY <1>1, <2>1
<1>3. \A j \in DOMAIN q : p[j].act = q[j].act /\ p[j].id = q[j].id
  OBVIOUS
<1> QED BY <1>2, <1>3 DEF Alike, SameSessions

LEMMA CompactExpungeAlike ==
    ASSUME NEW q \in Seq(CMailAction)
    PROVE  CompactExpunge(q) \in Alike(q)
<1> DEFINE p == CompactExpunge(q)
<1>1. DOMAIN q = 1..Len(q) /\ Len(q) \in Nat /\ \A j \in DOMAIN q : q[j] \in CMailAction
  BY Places
<1>2. \A j \in DOMAIN q : q[j].uids \in SUBSET ({0} \cup Msgs) /\ q[j].luids \in SUBSET Msgs
  BY <1>1 DEF CMailAction, Fields
<1>3. ASSUME NEW k \in DOMAIN q
      PROVE  p[k] \in CMailAction /\ p[k].act = q[k].act /\ p[k].id = q[k].id
  <2>1. CASE q[k].act # "Expunge"
    BY <1>1, <2>1 DEF CompactExpunge
  <2>2. CASE q[k].act = "Expunge"
    <3> DEFINE all  == {j \in DOMAIN q : q[j].act = "Expunge" /\ q[j].id = q[k].id}
               keep == IF k = Max(all) THEN all ELSE {}
               U    == UNION {q[j].uids : j \in keep}
               L    == UNION {q[j].luids : j \in keep}
               a    == [q[k] EXCEPT !.uids = U]
    <3>1. keep \subseteq DOMAIN q
      OBVIOUS
    <3>2. p[k] = [a EXCEPT !.luids = L]
      BY <2>2 DEF CompactExpunge
    <3> HIDE DEF keep
    <3>3. U \in SUBSET ({0} \cup Msgs) /\ L \in SUBSET Msgs
      BY <1>2, <3>1
    <3> HIDE DEF U, L
    <3>4. a \in CMailAction /\ a.act = q[k].act /\ a.id = q[k].id
      BY <1>1, <3>3, EntryUIDs
    <3> HIDE DEF a
    <3>5. /\ [a EXCEPT !.luids = L] \in CMailAction
          /\ [a EXCEPT !.luids = L].act = a.act /\ [a EXCEPT !.luids = L].id = a.id
      BY <3>3, <3>4, EntryUIDs
    <3> HIDE DEF p
    <3> QED BY ONLY <3>2, <3>4, <3>5
  <2> QED BY <2>1, <2>2
<1>4. DOMAIN p = DOMAIN q /\ p = [k \in DOMAIN q |-> p[k]]
  BY DEF CompactExpunge
<1> HIDE DEF p
<1>5. p \in Seq(CMailAction) /\ Len(p) = Len(q)
  <2>1. p \in [1..Len(q) -> CMailAction]
    BY <1>1, <1>3, <1>4
  <2> QED BY <1>1, <2>1
<1>6. p \in Alike(q)
  BY <1>3, <1>5 DEF Alike, SameSessions
<1> QED BY <1>6 DEF p

LEMMA UIDsSet ==
    ASSUME NEW q \in Seq(CMailAction), NEW k \in DOMAIN q,
           NEW U \in SUBSET ({0} \cup Msgs), NEW L \in SUBSET Msgs
    PROVE  [q EXCEPT ![k].uids = U] \in Alike(q) /\ [q EXCEPT ![k].luids = L] \in Alike(q)
<1>1. q[k] \in CMailAction
  BY Places
<1>2. ASSUME NEW a \in CMailAction, a.act = q[k].act, a.id = q[k].id
      PROVE  [q EXCEPT ![k] = a] \in Alike(q)
  BY <1>2, EntrySet
<1>3. [q EXCEPT ![k] = [q[k] EXCEPT !.uids = U]] \in Alike(q)
  BY <1>1, <1>2, EntryUIDs
<1>4. [q EXCEPT ![k] = [q[k] EXCEPT !.luids = L]] \in Alike(q)
  BY <1>1, <1>2, EntryUIDs
<1> QED BY <1>3, <1>4

LEMMA TransferAlike ==
    ASSUME NEW q \in Seq(CMailAction), NEW from \in DOMAIN q, NEW to \in DOMAIN q
    PROVE  TransferUIDs(q, from, to) \in Alike(q)
<1> DEFINE q1 == [q EXCEPT ![from].uids = {}]
           q2 == [q1 EXCEPT ![from].luids = {}]
           q3 == [q2 EXCEPT ![to].uids = @ \cup q[from].uids]
           q4 == [q3 EXCEPT ![to].luids = @ \cup q[from].luids]
<1>1. \A p \in Seq(CMailAction) : \A j \in DOMAIN p :
        p[j].uids \in SUBSET ({0} \cup Msgs) /\ p[j].luids \in SUBSET Msgs
  <2>1. \A a \in CMailAction : a.uids \in SUBSET ({0} \cup Msgs) /\ a.luids \in SUBSET Msgs
    BY DEF CMailAction, Fields
  <2> QED BY <2>1, Places
<1>2. \A p : p \in Alike(q) => p \in Seq(CMailAction) /\ DOMAIN p = DOMAIN q
  BY Places DEF Alike, SameSessions
<1>3. q1 \in Alike(q)
  BY UIDsSet
<1>4. q2 \in Alike(q)
  <2> HIDE DEF q1
  <2>1. q2 \in Alike(q1)
    BY <1>2, <1>3, UIDsSet
  <2> HIDE DEF q2
  <2> QED BY <1>3, <2>1, AlikeAgain
<1>5. q3 \in Alike(q)
  <2> HIDE DEF q2
  <2>1. q2[to].uids \cup q[from].uids \in SUBSET ({0} \cup Msgs)
    BY <1>1, <1>2, <1>4
  <2>2. q3 = [q2 EXCEPT ![to].uids = q2[to].uids \cup q[from].uids]
    BY <1>2, <1>4
  <2>3. q3 \in Alike(q2)
    BY <1>2, <1>4, <2>1, <2>2, UIDsSet
  <2> HIDE DEF q3
  <2> QED BY <1>4, <2>3, AlikeAgain
<1>6. q4 \in Alike(q)
  <2> HIDE DEF q3
  <2>1. q3[to].luids \cup q[from].luids \in SUBSET Msgs
    BY <1>1, <1>2, <1>5
  <2>2. q4 = [q3 EXCEPT ![to].luids = q3[to].luids \cup q[from].luids]
    BY <1>2, <1>5
  <2>3. q4 \in Alike(q3)
    BY <1>2, <1>5, <2>1, <2>2, UIDsSet
  <2> HIDE DEF q4
  <2> QED BY <1>5, <2>3, AlikeAgain
<1>7. q4 = TransferUIDs(q, from, to)
  BY DEF TransferUIDs
<1> QED BY <1>6, <1>7

LEMMA MoveAlike ==
    ASSUME NEW q \in Seq(CMailAction), NEW k \in DOMAIN q, NEW stop \in 0..(Len(q) + 1)
    PROVE  MoveFlags(q, k, stop) \in Alike(q)
<1> DEFINE path == IF stop < k THEN stop + 1 .. k - 1 ELSE k + 1 .. stop - 1
           met  == {j \in path : MustStop(q[k], q[j])}
           at   == IF stop < k THEN Max(met) ELSE Min(met)
<1>1. DOMAIN q = 1..Len(q) /\ Len(q) \in Nat
  BY Places
<1>2. path \subseteq 1..Len(q)
  BY <1>1
<1> HIDE DEF path
<1>3. met \in SUBSET (1..Len(q)) /\ met \in SUBSET Nat
  <2>1. met \subseteq path
    OBVIOUS
  <2> HIDE DEF met
  <2> QED BY <1>1, <1>2, <2>1
<1> HIDE DEF met
<1>4. met # {} => at \in DOMAIN q
  BY <1>1, <1>3, MaxOf, MinOf
<1> HIDE DEF at
<1>5. MoveFlags(q, k, stop) = q \/ (met # {} /\ MoveFlags(q, k, stop) = TransferUIDs(q, k, at))
  BY DEF MoveFlags, met, at, path
<1> QED BY <1>4, <1>5, TransferAlike, AlikeItself

(* A fold stays in a set its steps do not leave.                           *)
LEMMA FoldStays ==
    ASSUME NEW A, NEW n \in Nat, NEW f, f[{}] \in A,
           \A s \in SUBSET (1..n) :
             s # {} /\ f[s \ {Max(s)}] \in A => f[s] \in A
    PROVE  f[1..n] \in A
<1> DEFINE T == {k \in 0..n : f[1..k] \in A}
<1>1. 0 \in T
  <2>1. 1..0 = {}
    OBVIOUS
  <2> QED BY <2>1
<1>2. ASSUME NEW k \in 1..n, k - 1 \in T PROVE k \in T
  <2>1. k \in Nat \ {0} /\ 1..k \in SUBSET (1..n) /\ 1..k # {} /\ k \in 0..n
    OBVIOUS
  <2>2. Max(1..k) = k /\ (1..k) \ {k} = 1..(k - 1)
    BY <2>1, MaxOfPrefix
  <2>3. f[1..(k - 1)] \in A
    BY <1>2
  <2> QED BY <2>1, <2>2, <2>3
<1> HIDE DEF T
<1>3. \A k \in 0..n : k \in T
  BY <1>1, <1>2, Upwards
<1>4. n \in T
  BY <1>3
<1> QED BY <1>4 DEF T

LEMMA RiseAndSinkAlike ==
    ASSUME NEW q \in Seq(CMailAction), NEW p \in Alike(q), NEW k \in DOMAIN q,
           NEW s \in DOMAIN q, NEW e \in 0..(Len(q) + 1)
    PROVE  Rise(p, k, s, e) \in Alike(q) /\ Sink(p, k, s, e) \in Alike(q)
<1>1. p \in Seq(CMailAction) /\ DOMAIN p = DOMAIN q /\ Len(p) = Len(q)
  BY Places DEF Alike, SameSessions
<1>2. s \in 0..(Len(p) + 1) /\ e \in 0..(Len(p) + 1) /\ k \in DOMAIN p
  BY <1>1, Places
<1>3. MoveFlags(p, k, s) \in Alike(q) /\ MoveFlags(p, k, e) \in Alike(q)
  BY <1>1, <1>2, MoveAlike, AlikeAgain
<1> QED BY <1>3 DEF Rise, Sink

LEMMA RisenAlike ==
    ASSUME NEW q \in Seq(CMailAction), NEW s \in DOMAIN q, NEW e \in 0..(Len(q) + 1)
    PROVE  FoldLeft(LAMBDA p, k : Rise(p, k, s, e), q, [k \in DOMAIN q |-> k]) \in Alike(q)
<1> DEFINE n    == Len(q)
           A    == Alike(q)
           ids  == [k \in DOMAIN q |-> k]
           E(g) == g = [t \in SUBSET DOMAIN ids |->
                         IF t = {} THEN q ELSE Rise(g[t \ {Max(t)}], ids[Max(t)], s, e)]
           f    == CHOOSE g : E(g)
<1>1. FoldLeft(LAMBDA p, k : Rise(p, k, s, e), q, ids) = f[DOMAIN ids]
  BY DEF FoldLeft, MapThenFoldSet
<1>2. n \in Nat /\ DOMAIN ids = 1..n /\ \A k \in 1..n : ids[k] = k
  BY Places
<1>3. \A t \in SUBSET (1..n) : t # {} => Max(t) \in 1..n /\ t \ {Max(t)} \in SUBSET (1..n)
  BY <1>2, MaxOf
<1>4. \A x \in A : \A k \in 1..n : Rise(x, k, s, e) \in A
  BY Places, RiseAndSinkAlike
<1>5. q \in A
  BY AlikeItself
<1>6. \E g : E(g)
  <2> DEFINE step == [p \in A \X (1..n) |-> Rise(p[1], p[2], s, e)]
  <2>1. \A x \in A : \A k \in 1..n : step[<<x, k>>] = Rise(x, k, s, e)
    OBVIOUS
  <2>2. StaysIn(step, A, n)
    BY <1>4, <2>1 DEF StaysIn
  <2> HIDE DEF step, n, A
  <2>3. \E g : IsFold(g, step, q, A, n)
    BY <1>2, <1>5, <2>2, FoldExists, Zenon
  <2>4. PICK g : IsFold(g, step, q, A, n)
    BY <2>3
  <2>5. \A t \in SUBSET (1..n) :
          g[t] = IF t = {} THEN q ELSE Rise(g[t \ {Max(t)}], ids[Max(t)], s, e)
    BY <1>2, <1>3, <2>1, <2>4 DEF IsFold
  <2>6. E(g)
    BY <1>2, <2>4, <2>5 DEF IsFold
  <2> QED BY <2>6
<1>7. E(f)
  BY <1>6
<1> HIDE DEF f, ids, A, n
<1>8. f[{}] \in A /\ \A t \in SUBSET (1..n) : t # {} /\ f[t \ {Max(t)}] \in A => f[t] \in A
  <2>1. \A t \in SUBSET (1..n) :
          f[t] = IF t = {} THEN q ELSE Rise(f[t \ {Max(t)}], ids[Max(t)], s, e)
    BY <1>2, <1>7
  <2> HIDE DEF E
  <2>2. f[{}] \in A
    BY <1>5, <2>1
  <2>3. ASSUME NEW t \in SUBSET (1..n), t # {}, f[t \ {Max(t)}] \in A PROVE f[t] \in A
    <3>1. Max(t) \in 1..n /\ ids[Max(t)] = Max(t)
      BY <1>2, <1>3, <2>3
    <3> QED BY <1>4, <2>1, <2>3, <3>1
  <2> QED BY <2>2, <2>3
<1>9. f[1..n] \in A
  BY <1>2, <1>8, FoldStays
<1> QED BY <1>1, <1>2, <1>9 DEF A, ids

LEMMA SunkAlike ==
    ASSUME NEW q \in Seq(CMailAction), NEW b \in Alike(q), NEW s \in DOMAIN q,
           NEW e \in 0..(Len(q) + 1)
    PROVE  FoldLeft(LAMBDA p, k : Sink(p, k, s, e), b, [k \in DOMAIN q |-> Len(q) + 1 - k]) \in Alike(q)
<1> DEFINE n    == Len(q)
           A    == Alike(q)
           ids  == [k \in DOMAIN q |-> Len(q) + 1 - k]
           E(g) == g = [t \in SUBSET DOMAIN ids |->
                         IF t = {} THEN b ELSE Sink(g[t \ {Max(t)}], ids[Max(t)], s, e)]
           f    == CHOOSE g : E(g)
<1>1. FoldLeft(LAMBDA p, k : Sink(p, k, s, e), b, [k \in DOMAIN q |-> Len(q) + 1 - k]) = f[DOMAIN ids]
  BY DEF FoldLeft, MapThenFoldSet
<1>2. n \in Nat /\ DOMAIN ids = 1..n /\ \A k \in 1..n : ids[k] = Len(q) + 1 - k /\ ids[k] \in 1..n
  BY Places
<1>3. \A t \in SUBSET (1..n) : t # {} => Max(t) \in 1..n /\ t \ {Max(t)} \in SUBSET (1..n)
  BY <1>2, MaxOf
<1>4. \A x \in A : \A k \in 1..n : Sink(x, k, s, e) \in A
  BY Places, RiseAndSinkAlike
<1>5. b \in A
  OBVIOUS
<1>6. \E g : E(g)
  <2> DEFINE step == [p \in A \X (1..n) |-> Sink(p[1], ids[p[2]], s, e)]
  <2>1. \A x \in A : \A k \in 1..n : step[<<x, k>>] = Sink(x, ids[k], s, e)
    OBVIOUS
  <2>2. StaysIn(step, A, n)
    BY <1>2, <1>4, <2>1 DEF StaysIn
  <2> HIDE DEF step, n, A
  <2>3. \E g : IsFold(g, step, b, A, n)
    BY <1>2, <1>5, <2>2, FoldExists, Zenon
  <2>4. PICK g : IsFold(g, step, b, A, n)
    BY <2>3
  <2>5. \A t \in SUBSET (1..n) :
          g[t] = IF t = {} THEN b ELSE Sink(g[t \ {Max(t)}], ids[Max(t)], s, e)
    BY <1>3, <2>1, <2>4 DEF IsFold
  <2>6. E(g)
    BY <1>2, <2>4, <2>5 DEF IsFold
  <2> QED BY <2>6
<1>7. E(f)
  BY <1>6
<1> HIDE DEF f, ids, A, n
<1>8. f[{}] \in A /\ \A t \in SUBSET (1..n) : t # {} /\ f[t \ {Max(t)}] \in A => f[t] \in A
  <2>1. \A t \in SUBSET (1..n) :
          f[t] = IF t = {} THEN b ELSE Sink(f[t \ {Max(t)}], ids[Max(t)], s, e)
    BY <1>2, <1>7
  <2> HIDE DEF E
  <2>2. f[{}] \in A
    BY <1>5, <2>1
  <2>3. ASSUME NEW t \in SUBSET (1..n), t # {}, f[t \ {Max(t)}] \in A PROVE f[t] \in A
    <3>1. ids[Max(t)] \in 1..n
      BY <1>2, <1>3, <2>3
    <3> QED BY <1>4, <2>1, <2>3, <3>1
  <2> QED BY <2>2, <2>3
<1>9. f[1..n] \in A
  BY <1>2, <1>8, FoldStays
<1> QED BY <1>1, <1>2, <1>9 DEF A, ids


LEMMA MergeFlagsAlike ==
    ASSUME NEW q \in Seq(CMailAction), NEW s \in DOMAIN q
    PROVE  MergeFlags(q, s) \in Alike(q)
<1> DEFINE e == IF Ends(q, s) = {} THEN Len(q) + 1 ELSE Min(Ends(q, s))
           risen == FoldLeft(LAMBDA p, k : Rise(p, k, s, e), q, [k \in DOMAIN q |-> k])
<1>1. e \in 0..(Len(q) + 1)
  <2>1. Len(q) \in Nat /\ s \in Nat
    BY Places
  <2>2. Ends(q, s) \in SUBSET Nat /\ Ends(q, s) \subseteq 1..Len(q)
    BY <2>1 DEF Ends, LaterInSession
  <2> QED BY <2>1, <2>2, MinOf
<1>2. MergeFlags(q, s) = FoldLeft(LAMBDA p, k : Sink(p, k, s, e), risen,
                                  [k \in DOMAIN q |-> Len(q) + 1 - k])
  BY DEF MergeFlags
<1> HIDE DEF e
<1>3. risen \in Alike(q)
  BY <1>1, RisenAlike
<1> HIDE DEF risen
<1> QED BY <1>1, <1>2, <1>3, SunkAlike


LEMMA CompactFlagsAlike ==
    ASSUME NEW q \in Seq(CMailAction)
    PROVE  CompactFlags(q) \in Alike(q)
<1> DEFINE n    == Len(q)
           A    == Alike(q)
           ids  == [k \in DOMAIN q |-> k]
           E(g) == g = [t \in SUBSET DOMAIN ids |->
                         IF t = {} THEN q ELSE (IF q[ids[Max(t)]].act = "Select" THEN MergeFlags(g[t \ {Max(t)}], ids[Max(t)]) ELSE g[t \ {Max(t)}])]
           f    == CHOOSE g : E(g)
<1>1. CompactFlags(q) = f[DOMAIN ids]
  BY DEF CompactFlags, FoldLeftDomain, FoldLeft, MapThenFoldSet
<1>2. n \in Nat /\ DOMAIN ids = 1..n /\ \A k \in 1..n : ids[k] = k /\ ids[k] \in 1..n
  BY Places
<1>3. \A t \in SUBSET (1..n) : t # {} => Max(t) \in 1..n /\ t \ {Max(t)} \in SUBSET (1..n)
  BY <1>2, MaxOf
<1>4. \A x \in A : \A k \in 1..n : (IF q[k].act = "Select" THEN MergeFlags(x, k) ELSE x) \in A
  <2>1. ASSUME NEW x \in A, NEW k \in 1..n PROVE MergeFlags(x, k) \in A
    <3>1. x \in Seq(CMailAction) /\ DOMAIN x = 1..Len(x) /\ Len(x) = n
      BY Places DEF Alike, SameSessions
    <3> QED BY <3>1, MergeFlagsAlike, AlikeAgain
  <2> QED BY <2>1
<1>5. q \in A
  BY AlikeItself
<1>6. \E g : E(g)
  <2> DEFINE step == [p \in A \X (1..n) |-> (IF q[ids[p[2]]].act = "Select" THEN MergeFlags(p[1], ids[p[2]]) ELSE p[1])]
  <2>1. \A x \in A : \A k \in 1..n : step[<<x, k>>] = (IF q[ids[k]].act = "Select" THEN MergeFlags(x, ids[k]) ELSE x)
    OBVIOUS
  <2>2. StaysIn(step, A, n)
    BY <1>2, <1>4, <2>1 DEF StaysIn
  <2> HIDE DEF step, n, A
  <2>3. \E g : IsFold(g, step, q, A, n)
    BY <1>2, <1>5, <2>2, FoldExists, Zenon
  <2>4. PICK g : IsFold(g, step, q, A, n)
    BY <2>3
  <2>5. \A t \in SUBSET (1..n) :
          g[t] = IF t = {} THEN q ELSE (IF q[ids[Max(t)]].act = "Select" THEN MergeFlags(g[t \ {Max(t)}], ids[Max(t)]) ELSE g[t \ {Max(t)}])
    BY <1>3, <2>1, <2>4 DEF IsFold
  <2>6. E(g)
    BY <1>2, <2>4, <2>5 DEF IsFold
  <2> QED BY <2>6
<1>7. E(f)
  BY <1>6
<1> HIDE DEF f, ids, A, n
<1>8. f[{}] \in A /\ \A t \in SUBSET (1..n) : t # {} /\ f[t \ {Max(t)}] \in A => f[t] \in A
  <2>1. \A t \in SUBSET (1..n) :
          f[t] = IF t = {} THEN q ELSE (IF q[ids[Max(t)]].act = "Select" THEN MergeFlags(f[t \ {Max(t)}], ids[Max(t)]) ELSE f[t \ {Max(t)}])
    BY <1>2, <1>7
  <2> HIDE DEF E
  <2>2. f[{}] \in A
    BY <1>5, <2>1
  <2>3. ASSUME NEW t \in SUBSET (1..n), t # {}, f[t \ {Max(t)}] \in A PROVE f[t] \in A
    <3>1. ids[Max(t)] \in 1..n
      BY <1>2, <1>3, <2>3
    <3> QED BY <1>4, <2>1, <2>3, <3>1
  <2> QED BY <2>2, <2>3
<1>9. f[1..n] \in A
  BY <1>2, <1>8, FoldStays
<1> QED BY <1>1, <1>2, <1>9 DEF A, ids


-----------------------------------------------------------------------------
(* All five passes: a journal as it is recorded becomes a tidy one.        *)
LEMMA CompactPlaybackTidies ==
    ASSUME NEW q, Recorded(q), NEW m, Known(q, m)
    PROVE  Tidy(CompactPlayback(q)) /\ Known(CompactPlayback(q), m)
<1>1. CompactMissing(q) = q
  BY CompactMissingKeeps
<1>2. PICK t : /\ t = CompactMultiple(CompactUnterminated(CompactMissing(q)))
               /\ Tidy(t) /\ Known(t, m)
  <2>1. CompactUnterminated(q) \in Queues(TRUE, m)
    BY CompactUnterminatedTidies DEF Queues, Tidy
  <2>2. CompactMultiple(CompactUnterminated(q)) \in Queues(TRUE, m)
    BY <2>1, CompactMultipleJoins
  <2> QED BY <1>1, <2>2 DEF Queues
<1>3. t \in Seq(CMailAction)
  BY <1>2 DEF Tidy
<1>4. PICK x : x = CompactExpunge(t) /\ x \in Alike(t)
  BY <1>3, CompactExpungeAlike
<1>5. x \in Seq(CMailAction)
  BY <1>4 DEF Alike
<1>6. CompactFlags(x) \in Alike(t)
  BY <1>3, <1>4, <1>5, CompactFlagsAlike, AlikeAgain
<1>7. Tidy(CompactFlags(x)) /\ Known(CompactFlags(x), m)
  BY <1>2, <1>6, AlikeIsTidy
<1> QED BY <1>2, <1>4, <1>7 DEF CompactPlayback

(* Any queue of entries stays one, recorded like this or not.             *)
LEMMA CompactMissingType ==
    ASSUME NEW q \in Seq(CMailAction)
    PROVE  CompactMissing(q) \in Seq(CMailAction)
<1>1. PICK n \in Nat : n = Len(q)
  BY Places
<1>2. PICK r : /\ CompactMissing(q) = r[n].out
               /\ r[0] = [out |-> << >>, selects |-> {}]
               /\ \A k \in 1..n : r[k] = CheckSelect(q, r[k - 1], k)
  BY <1>1, CompactMissingTurns
<1> DEFINE T == {k \in 0..n : r[k] \in Missing}
<1>3. 0 \in T
  <2>1. r[0] \in Missing
    BY <1>2 DEF Missing
  <2> QED BY <2>1
<1>4. \A k \in 1..n : k - 1 \in T => k \in T
  BY <1>1, <1>2, CheckSelectType
<1> HIDE DEF T
<1>5. \A k \in 0..n : k \in T
  BY <1>3, <1>4, Upwards
<1>6. r[n] \in Missing
  BY <1>5 DEF T
<1> QED BY <1>2, <1>6 DEF Missing

LEMMA CompactUnterminatedType ==
    ASSUME NEW q \in Seq(CMailAction)
    PROVE  CompactUnterminated(q) \in Seq(CMailAction)
<1>1. PICK n \in Nat : n = Len(q)
  BY Places
<1>2. PICK r : /\ CompactUnterminated(q) = r[n]
               /\ r[0] = << >>
               /\ \A k \in 1..n : r[k] = CheckDeselect(q, r[k - 1], k)
  BY <1>1, CompactUnterminatedTurns
<1> DEFINE T == {k \in 0..n : r[k] \in Seq(CMailAction)}
<1>3. 0 \in T
  <2>1. r[0] \in Seq(CMailAction)
    BY <1>2
  <2> QED BY <2>1
<1>4. \A k \in 1..n : k - 1 \in T => k \in T
  BY <1>1, <1>2, CheckDeselectType
<1> HIDE DEF T
<1>5. \A k \in 0..n : k \in T
  BY <1>3, <1>4, Upwards
<1> QED BY <1>2, <1>5 DEF T

LEMMA CompactPlaybackType ==
    ASSUME NEW q \in Seq(CMailAction)
    PROVE  CompactPlayback(q) \in Seq(CMailAction)
<1>1. PICK t : t = CompactUnterminated(CompactMissing(q)) /\ t \in Seq(CMailAction)
  BY CompactMissingType, CompactUnterminatedType
<1>2. PICK u : u = CompactMultiple(t) /\ u \in Seq(CMailAction)
  <2>1. t \in Queues(FALSE, 0)
    BY <1>1 DEF Queues
  <2>2. CompactMultiple(t) \in Queues(FALSE, 0)
    BY <2>1, CompactMultipleJoins
  <2> QED BY <2>2 DEF Queues
<1>3. PICK x : x = CompactExpunge(u) /\ x \in Seq(CMailAction)
  BY <1>2, CompactExpungeAlike DEF Alike
<1>4. CompactFlags(x) \in Seq(CMailAction)
  BY <1>3, CompactFlagsAlike DEF Alike
<1> QED BY <1>1, <1>2, <1>3, <1>4 DEF CompactPlayback

(* What being tidy is about, in the words of SessionsClosed.               *)
LEMMA TidyIsClosed ==
    ASSUME NEW q, Tidy(q), NEW id
    PROVE  ClosedSession(q, id)
<1> DEFINE selects   == EntriesOf(q, "Select", id)
           deselects == EntriesOf(q, "Deselect", id)
           work      == UNION {EntriesOf(q, act, id) : act \in NeedsSelect}
<1>1. q \in Seq(CMailAction) /\ \A k \in DOMAIN q : k \in Nat
  BY Places DEF Tidy
<1>2. ASSUME NEW k \in DOMAIN q, q[k].id = id, q[k].act \in SessionActs
      PROVE  \E s, d \in DOMAIN q :
               selects = {s} /\ deselects = {d} /\ s <= k /\ k <= d
  <2>1. PICK s \in DOMAIN q, d \in DOMAIN q :
             /\ q[s].act = "Select" /\ q[s].id = id
             /\ q[d].act = "Deselect" /\ q[d].id = id
    BY <1>2 DEF Tidy, Has
  <2>2. \A x \in DOMAIN q : q[x].id = id =>
          /\ s <= x
          /\ q[x].act \in SessionActs => x <= d
          /\ q[x].act = "Select" => x <= s
          /\ q[x].act = "Deselect" => d <= x
    BY <2>1 DEF Tidy, InOrder, SessionActs
  <2>3. selects = {s} /\ deselects = {d}
    BY <1>1, <2>1, <2>2 DEF EntriesOf, SessionActs
  <2> QED BY <1>2, <2>2, <2>3
<1>3. CASE \E k \in DOMAIN q : q[k].id = id /\ q[k].act \in SessionActs
  <2>1. PICK s \in DOMAIN q, d \in DOMAIN q : selects = {s} /\ deselects = {d}
    BY <1>2, <1>3
  <2>2. Cardinality(selects) = 1 /\ Cardinality(deselects) = 1
    BY <2>1, FS_Singleton
  <2>3. ASSUME NEW k \in work
        PROVE  (\E i \in selects : i < k) /\ (\E j \in deselects : j > k)
    <3>1. k \in DOMAIN q /\ q[k].id = id /\ q[k].act \in NeedsSelect
      BY DEF EntriesOf
    <3>2. PICK s2 \in DOMAIN q, d2 \in DOMAIN q :
               selects = {s2} /\ deselects = {d2} /\ s2 <= k /\ k <= d2
      BY <1>2, <3>1 DEF SessionActs
    <3>3. q[s2].act = "Select" /\ q[d2].act = "Deselect"
      BY <3>2 DEF EntriesOf
    <3>4. s2 # k /\ d2 # k
      BY <3>1, <3>3 DEF NeedsSelect
    <3>5. s2 < k /\ d2 > k
      BY <1>1, <3>1, <3>2, <3>4
    <3> QED BY <3>2, <3>5
  <2> QED BY <2>2, <2>3 DEF ClosedSession
<1>4. CASE ~ \E k \in DOMAIN q : q[k].id = id /\ q[k].act \in SessionActs
  <2>1. selects = {} /\ deselects = {} /\ work = {}
    BY <1>4 DEF SessionActs, EntriesOf
  <2>2. Cardinality(selects) = 0 /\ Cardinality(deselects) = 0
    BY <2>1, FS_EmptySet
  <2> QED BY <2>1, <2>2 DEF ClosedSession
<1> QED BY <1>3, <1>4



-----------------------------------------------------------------------------
(* What is true of the journal while it is recorded.  A client that has a  *)
(* mailbox has a session of its own, which has not been deselected, and of *)
(* which the Select is in the journal unless it is still pending.          *)
OwnSession(c) ==
    LET id == mRecordID[c]
    IN  /\ id < mNextID
        /\ mCurrent_mbox[c] # NoMbox =>
             /\ id # 0
             /\ \A d \in Clients \ {c} : mRecordID[d] # id
             /\ ~ Has(actions, "Deselect", id)
             /\ mPendingSelect[id] # NoMbox \/ Has(actions, "Select", id)

StillPending(id) ==
    mPendingSelect[id] # NoMbox =>
        id # 0 /\ id < mNextID /\ \A k \in DOMAIN actions : actions[k].id # id

KnownSession(k) ==
    /\ actions[k].id < mNextID
    /\ actions[k].act \in SessionActs => actions[k].id # 0

LEMMA KnownSessions == (\A k \in DOMAIN actions : KnownSession(k)) <=> Known(actions, mNextID)
BY DEF KnownSession, Known

Recording ==
    /\ Recorded(actions)
    /\ \A c \in Clients : OwnSession(c)
    /\ \A id \in SessionIDs : StillPending(id)
    /\ \A k \in DOMAIN actions : KnownSession(k)

LEMMA RecordingIsClosed ==
    ASSUME Recording
    PROVE  SessionsClosed
<1>1. PICK q : q = CompactPlayback(actions) /\ Tidy(q)
  BY KnownSessions, CompactPlaybackTidies DEF Recording
<1> QED BY <1>1, TidyIsClosed DEF SessionsClosed

-----------------------------------------------------------------------------
(* The largest of finitely many numbers.                                   *)

LEMMA MaxOfFinite ==
    ASSUME NEW s \in SUBSET Nat, IsFiniteSet(s), s # {}
    PROVE  Max(s) \in s /\ \A y \in s : Max(s) >= y
<1>1. PICK n \in Nat : ExistsBijection(1..n, s)
  BY FS_NatBijection
<1>2. PICK f \in [1..n -> s] : \A y \in s : \E i \in 1..n : f[i] = y
  BY <1>1 DEF ExistsBijection, Bijection, Surjection
<1>3. n # 0
  <2>1. PICK y \in s : TRUE
    OBVIOUS
  <2>2. PICK i \in 1..n : f[i] = y
    BY <1>2, <2>1
  <2> QED BY <2>2
<1> DEFINE T == {k \in 0..n : k = 0 \/ \E i \in 1..k : \A j \in 1..k : f[i] >= f[j]}
<1>4. 0 \in T
  OBVIOUS
<1>5. ASSUME NEW k \in 1..n, k - 1 \in T
      PROVE  k \in T
  <2>1. \A i \in 1..n : f[i] \in Nat
    BY <1>2
  <2>2. CASE k = 1
    BY <2>1, <2>2
  <2>3. CASE k # 1
    <3>1. PICK i \in 1..(k - 1) : \A j \in 1..(k - 1) : f[i] >= f[j]
      BY <1>5, <2>3
    <3>2. \A j \in 1..k : j = k \/ j \in 1..(k - 1)
      OBVIOUS
    <3>3. CASE f[k] >= f[i]
      <4>1. \A j \in 1..k : f[k] >= f[j]
        BY <2>1, <3>1, <3>2, <3>3
      <4> QED BY <4>1
    <3>4. CASE ~ (f[k] >= f[i])
      <4>1. \A j \in 1..k : f[i] >= f[j]
        BY <2>1, <3>1, <3>2, <3>4
      <4> QED BY <4>1
    <3> QED BY <3>3, <3>4
  <2> QED BY <2>2, <2>3
<1>6. n \in T
  <2>1. \A k \in 1..n : k - 1 \in T => k \in T
    BY <1>5
  <2> HIDE DEF T
  <2>2. \A k \in 0..n : k \in T
    BY <1>4, <2>1, Upwards
  <2> QED BY <2>2
<1>7. PICK i \in 1..n : \A j \in 1..n : f[i] >= f[j]
  BY <1>3, <1>6
<1>8. \E x \in s : \A y \in s : x >= y
  <2>1. f[i] \in s
    BY <1>2
  <2>2. ASSUME NEW y \in s
        PROVE  f[i] >= y
    <3>1. PICK j \in 1..n : f[j] = y
      BY <1>2
    <3> QED BY <1>7, <3>1
  <2> QED BY <2>1, <2>2
<1> QED BY <1>8 DEF Max

(* A recorded journal and one more entry.                                  *)
NoEntry(q, id) == \A k \in DOMAIN q : q[k].id # id

LEMMA OneMore ==
    ASSUME NEW q \in Seq(CMailAction), NEW a \in CMailAction
    PROVE  /\ Append(q, a) \in Seq(CMailAction)
           /\ \A k \in DOMAIN q : k \in DOMAIN Append(q, a) /\ Append(q, a)[k] = q[k]
           /\ \A k \in DOMAIN Append(q, a) :
                \/ k \in DOMAIN q /\ Append(q, a)[k] = q[k]
                \/ k = Len(q) + 1 /\ Append(q, a)[k] = a
           /\ Len(q) + 1 \in DOMAIN Append(q, a) /\ Append(q, a)[Len(q) + 1] = a
           /\ \A k \in DOMAIN q : k < Len(q) + 1
           /\ \A act, id : Has(Append(q, a), act, id)
                             <=> Has(q, act, id) \/ (a.act = act /\ a.id = id)
           /\ \A id : NoEntry(Append(q, a), id) <=> NoEntry(q, id) /\ a.id # id
<1> DEFINE p == Append(q, a)
<1>1. /\ p \in Seq(CMailAction) /\ Len(p) = Len(q) + 1
      /\ \A i \in 1..Len(q) : p[i] = q[i]
      /\ p[Len(q) + 1] = a
  BY Appended
<1>2. Len(q) \in Nat /\ DOMAIN q = 1..Len(q)
  BY Places
<1>3. Len(p) \in Nat /\ DOMAIN p = 1..Len(p)
  BY <1>1, Places
<1> HIDE DEF p
<1>4. \A k \in DOMAIN q : k \in DOMAIN p /\ p[k] = q[k]
  BY <1>1, <1>2, <1>3
<1>5. \A k \in DOMAIN p : \/ k \in DOMAIN q /\ p[k] = q[k]
                          \/ k = Len(q) + 1 /\ p[k] = a
  BY <1>1, <1>2, <1>3
<1>6. Len(q) + 1 \in DOMAIN p /\ \A k \in DOMAIN q : k < Len(q) + 1
  BY <1>1, <1>2, <1>3
<1>7. \A act, id : Has(p, act, id) <=> Has(q, act, id) \/ (a.act = act /\ a.id = id)
  BY <1>1, <1>4, <1>5, <1>6 DEF Has
<1>8. \A id : NoEntry(p, id) <=> NoEntry(q, id) /\ a.id # id
  BY <1>1, <1>4, <1>5, <1>6 DEF NoEntry
<1> QED BY <1>1, <1>4, <1>5, <1>6, <1>7, <1>8 DEF p

(* An entry is recorded in a session that is open, a Select in a new one.  *)
LEMMA RecordedGrows ==
    ASSUME NEW q, Recorded(q), NEW a \in CMailAction,
           a.act \in SessionActs => ~ Has(q, "Deselect", a.id),
           a.act = "Select" => NoEntry(q, a.id),
           a.act \in SessionActs \ {"Select"} => Has(q, "Select", a.id)
    PROVE  Recorded(Append(q, a))
<1> DEFINE p == Append(q, a)
<1>1. q \in Seq(CMailAction)
  BY DEF Recorded
<1>2. /\ p \in Seq(CMailAction)
      /\ \A k \in DOMAIN q : k \in DOMAIN p /\ p[k] = q[k]
      /\ \A k \in DOMAIN p : \/ k \in DOMAIN q /\ p[k] = q[k]
                             \/ k = Len(q) + 1 /\ p[k] = a
      /\ Len(q) + 1 \in DOMAIN p /\ p[Len(q) + 1] = a
      /\ \A k \in DOMAIN q : k < Len(q) + 1
      /\ \A act, id : Has(p, act, id) <=> Has(q, act, id) \/ (a.act = act /\ a.id = id)
  BY <1>1, OneMore
<1>3. Len(q) \in Nat /\ \A k \in DOMAIN q : k \in Nat
  BY <1>1, Places
<1> HIDE DEF p
<1>4. InOrder(p)
  <2> SUFFICES ASSUME NEW i \in DOMAIN p, NEW j \in DOMAIN p, p[i].id = p[j].id
               PROVE  /\ p[i].act = "Select" => i <= j
                      /\ p[i].act = "Deselect" /\ p[j].act \in SessionActs => j <= i
    BY DEF InOrder
  <2>1. CASE i \in DOMAIN q /\ j \in DOMAIN q
    BY <1>2, <2>1 DEF Recorded, InOrder
  <2>2. CASE i \in DOMAIN q /\ j \notin DOMAIN q
    <3>1. p[i] = q[i] /\ j = Len(q) + 1 /\ p[j] = a /\ i < j
      BY <1>2, <2>2
    <3>2. q[i].act = "Deselect" => p[j].act \notin SessionActs
      BY <2>2, <3>1 DEF Has
    <3> QED BY <1>3, <2>2, <3>1, <3>2
  <2>3. CASE i \notin DOMAIN q /\ j \in DOMAIN q
    <3>1. p[j] = q[j] /\ i = Len(q) + 1 /\ p[i] = a /\ j < i
      BY <1>2, <2>3
    <3>2. a.act # "Select"
      BY <2>3, <3>1 DEF NoEntry
    <3> QED BY <1>3, <2>3, <3>1, <3>2
  <2>4. CASE i \notin DOMAIN q /\ j \notin DOMAIN q
    <3>1. i = j /\ i = Len(q) + 1
      BY <1>2, <2>4
    <3> QED BY <1>3, <3>1
  <2> QED BY <2>1, <2>2, <2>3, <2>4
<1>5. ASSUME NEW i \in DOMAIN p, p[i].act \in SessionActs
      PROVE  Has(p, "Select", p[i].id)
  <2>1. CASE i \in DOMAIN q
    BY <1>2, <1>5, <2>1 DEF Recorded
  <2>2. CASE i \notin DOMAIN q
    <3>1. p[i] = a
      BY <1>2, <2>2
    <3> QED BY <1>2, <1>5, <3>1
  <2> QED BY <2>1, <2>2
<1>6. Recorded(p)
  BY <1>2, <1>4, <1>5 DEF Recorded
<1> QED BY <1>6 DEF p

(* The entries clients record: of the kinds of Works, made from Blank.     *)
Works == Acts \ {"Select", "Deselect"}

Work == {e \in Draft : e.act \in Works /\ HasData(e)}

Purged(e, U, L) == [e EXCEPT !.uids = U, !.luids = L]

LEMMA PurgedDraft ==
    ASSUME NEW e \in Draft, NEW U \in SUBSET ({0} \cup Msgs), NEW L \in SUBSET Msgs
    PROVE  /\ Purged(e, U, L) \in Draft
           /\ Purged(e, U, L).act = e.act /\ Purged(e, U, L).mbox = e.mbox
           /\ Purged(e, U, L).to = e.to /\ Purged(e, U, L).flag = e.flag
           /\ Purged(e, U, L).as = e.as
<1> DEFINE r == [e EXCEPT !.uids = U]
           s == [r EXCEPT !.luids = L]
<1>1. /\ r \in Draft /\ r.act = e.act /\ r.mbox = e.mbox /\ r.to = e.to
      /\ r.flag = e.flag /\ r.as = e.as
  BY SMT DEF Draft
<1>2. /\ s \in Draft /\ s.act = r.act /\ s.mbox = r.mbox /\ s.to = r.to
      /\ s.flag = r.flag /\ s.as = r.as
  <2> HIDE DEF r
  <2> QED BY <1>1, SMT DEF Draft
<1>3. s = Purged(e, U, L)
  BY SMT DEF Draft, Purged
<1> HIDE DEF r, s
<1> QED BY <1>1, <1>2, <1>3

LEMMA PurgeUIDsDraft ==
    ASSUME NEW e \in Draft, NEW S \in SUBSET Msgs
    PROVE  /\ PurgeUIDs(e, S) \in Draft
           /\ PurgeUIDs(e, S).act = e.act /\ PurgeUIDs(e, S).mbox = e.mbox
           /\ PurgeUIDs(e, S).to = e.to /\ PurgeUIDs(e, S).flag = e.flag
           /\ PurgeUIDs(e, S).as = e.as
<1> DEFINE known == S \cap world.mapped
           U == known \cup (IF known \in {{}, S} THEN {} ELSE {0})
           L == IF known = {} THEN S ELSE {}
<1>1. U \in SUBSET ({0} \cup Msgs) /\ L \in SUBSET Msgs
  OBVIOUS
<1>2. PurgeUIDs(e, S) = Purged(e, U, L)
  BY DEF PurgeUIDs, Purged
<1> HIDE DEF U, L
<1> QED BY <1>1, <1>2, PurgedDraft

(* What each operation records.                                            *)
LEMMA FlagWork ==
    ASSUME NEW f \in Flags, NEW v \in BOOLEAN, NEW S \in SUBSET Msgs
    PROVE  /\ PurgeUIDs([Blank EXCEPT !.act = "Flag", !.flag = f, !.set = v], S) \in Work
           /\ PurgeUIDs([Blank EXCEPT !.act = "Flag", !.flag = f, !.set = v], S).act
                = "Flag"
<1> DEFINE r == [Blank EXCEPT !.act = "Flag"]
           s == [r EXCEPT !.flag = f]
           t == [s EXCEPT !.set = v]
<1>1. r \in Draft /\ r.act = "Flag"
  BY BlankIsDraft, DraftAct DEF Acts, NeedsSelect
<1>2. s \in Draft /\ s.act = "Flag" /\ s.flag = f
  <2> HIDE DEF r
  <2> QED BY <1>1, SMT DEF Draft
<1>3. t \in Draft /\ t.act = "Flag" /\ t.flag = f
  <2> HIDE DEF s
  <2> QED BY <1>2, SMT DEF Draft
<1>4. t = [Blank EXCEPT !.act = "Flag", !.flag = f, !.set = v]
  BY BlankIsDraft DEF Draft
<1> HIDE DEF t
<1>5. PurgeUIDs(t, S) \in Draft /\ PurgeUIDs(t, S).act = "Flag" /\ PurgeUIDs(t, S).flag = f
  BY <1>3, PurgeUIDsDraft
<1>6. PurgeUIDs(t, S) \in Work
  BY <1>5 DEF Work, Works, Acts, NeedsSelect, HasData
<1> QED BY <1>4, <1>5, <1>6

LEMMA CopyWork ==
    ASSUME NEW b \in Mailboxes, NEW m \in Msgs, NEW n \in Msgs
    PROVE  /\ [PurgeUIDs([Blank EXCEPT !.act = "Copy", !.mbox = b], {m})
                  EXCEPT !.as = n] \in Work
           /\ [PurgeUIDs([Blank EXCEPT !.act = "Copy", !.mbox = b], {m})
                  EXCEPT !.as = n].act = "Copy"
<1> DEFINE r == [Blank EXCEPT !.act = "Copy"]
           s == [r EXCEPT !.mbox = b]
<1>1. r \in Draft /\ r.act = "Copy"
  BY BlankIsDraft, DraftAct DEF Acts, NeedsSelect
<1>2. s \in Draft /\ s.act = "Copy" /\ s.mbox = b
  <2> HIDE DEF r
  <2> QED BY <1>1, SMT DEF Draft
<1>3. s = [Blank EXCEPT !.act = "Copy", !.mbox = b]
  BY BlankIsDraft DEF Draft
<1> HIDE DEF s
<1>4. {m} \in SUBSET Msgs
  OBVIOUS
<1>5. PICK t : t = PurgeUIDs(s, {m})
  OBVIOUS
<1>6. t \in Draft /\ t.act = "Copy" /\ t.mbox = b
  BY <1>2, <1>4, <1>5, PurgeUIDsDraft
<1>7. PICK u : u = [t EXCEPT !.as = n]
  OBVIOUS
<1>8. u \in Draft /\ u.act = "Copy" /\ u.mbox = b /\ u.as = n
  BY <1>6, <1>7, SMT DEF Draft
<1>9. u \in Work
  BY <1>8 DEF Work, Works, Acts, NeedsSelect, HasData
<1> QED BY <1>3, <1>5, <1>7, <1>8, <1>9

LEMMA AppendWork ==
    ASSUME NEW b \in Mailboxes, NEW n \in Msgs
    PROVE  /\ [Blank EXCEPT !.act = "Append", !.mbox = b, !.as = n] \in Work
           /\ [Blank EXCEPT !.act = "Append", !.mbox = b, !.as = n].act = "Append"
<1> DEFINE r == [Blank EXCEPT !.act = "Append"]
           s == [r EXCEPT !.mbox = b]
           t == [s EXCEPT !.as = n]
<1>1. r \in Draft /\ r.act = "Append"
  BY BlankIsDraft, DraftAct DEF Acts
<1>2. s \in Draft /\ s.act = "Append" /\ s.mbox = b
  <2> HIDE DEF r
  <2> QED BY <1>1, SMT DEF Draft
<1>3. t \in Draft /\ t.act = "Append" /\ t.mbox = b /\ t.as = n
  <2> HIDE DEF s
  <2> QED BY <1>2, SMT DEF Draft
<1>4. t = [Blank EXCEPT !.act = "Append", !.mbox = b, !.as = n]
  BY BlankIsDraft DEF Draft
<1> HIDE DEF t
<1>5. t \in Work
  BY <1>3 DEF Work, Works, Acts, NeedsSelect, HasData
<1> QED BY <1>3, <1>4, <1>5

LEMMA ExpungeWork ==
    ASSUME NEW S \in SUBSET Msgs
    PROVE  /\ PurgeUIDs([Blank EXCEPT !.act = "Expunge"], S) \in Work
           /\ PurgeUIDs([Blank EXCEPT !.act = "Expunge"], S).act = "Expunge"
<1>1. PICK r : r = [Blank EXCEPT !.act = "Expunge"]
  OBVIOUS
<1>2. r \in Draft /\ r.act = "Expunge"
  BY <1>1, BlankIsDraft, DraftAct DEF Acts, NeedsSelect
<1>3. PurgeUIDs(r, S) \in Draft /\ PurgeUIDs(r, S).act = "Expunge"
  BY <1>2, PurgeUIDsDraft
<1>4. PurgeUIDs(r, S) \in Work
  BY <1>3 DEF Work, Works, Acts, NeedsSelect, HasData
<1> QED BY <1>1, <1>3, <1>4

LEMMA MailboxWork ==
    ASSUME NEW b \in Mailboxes, NEW act \in {"Create", "Delete"}
    PROVE  /\ [Blank EXCEPT !.act = act, !.mbox = b] \in Work
           /\ [Blank EXCEPT !.act = act, !.mbox = b].act = act
<1> DEFINE r == [Blank EXCEPT !.act = act]
           s == [r EXCEPT !.mbox = b]
<1>1. r \in Draft /\ r.act = act
  BY BlankIsDraft, DraftAct DEF Acts
<1>2. s \in Draft /\ s.act = act /\ s.mbox = b
  <2> HIDE DEF r
  <2> QED BY <1>1, SMT DEF Draft
<1>3. s = [Blank EXCEPT !.act = act, !.mbox = b]
  BY BlankIsDraft DEF Draft
<1> HIDE DEF s
<1>4. s \in Work
  BY <1>2 DEF Work, Works, Acts, NeedsSelect, HasData
<1> QED BY <1>2, <1>3, <1>4

LEMMA RenameWork ==
    ASSUME NEW b \in Mailboxes, NEW d \in Mailboxes
    PROVE  /\ [Blank EXCEPT !.act = "Rename", !.mbox = b, !.to = d] \in Work
           /\ [Blank EXCEPT !.act = "Rename", !.mbox = b, !.to = d].act = "Rename"
<1> DEFINE r == [Blank EXCEPT !.act = "Rename"]
           s == [r EXCEPT !.mbox = b]
           t == [s EXCEPT !.to = d]
<1>1. r \in Draft /\ r.act = "Rename"
  BY BlankIsDraft, DraftAct DEF Acts
<1>2. s \in Draft /\ s.act = "Rename" /\ s.mbox = b
  <2> HIDE DEF r
  <2> QED BY <1>1, SMT DEF Draft
<1>3. t \in Draft /\ t.act = "Rename" /\ t.mbox = b /\ t.to = d
  <2> HIDE DEF s
  <2> QED BY <1>2, SMT DEF Draft
<1>4. t = [Blank EXCEPT !.act = "Rename", !.mbox = b, !.to = d]
  BY BlankIsDraft DEF Draft
<1> HIDE DEF t
<1>5. t \in Work
  BY <1>3 DEF Work, Works, Acts, NeedsSelect, HasData
<1> QED BY <1>3, <1>4, <1>5

(* Work in a session is an entry of the journal.                           *)
LEMMA WorkEntry ==
    ASSUME NEW e \in Work, NEW i \in SessionIDs
    PROVE  /\ [e EXCEPT !.id = i] \in CMailAction
           /\ [e EXCEPT !.id = i].act = e.act /\ [e EXCEPT !.id = i].id = i
           /\ e.act \in Works
<1>1. PICK r : r = [e EXCEPT !.id = i]
  OBVIOUS
<1>2. e \in Draft /\ HasData(e) /\ e.act \in Works
  BY DEF Work
<1>3. /\ r \in Draft /\ r.act = e.act /\ r.id = i /\ r.mbox = e.mbox /\ r.to = e.to
      /\ r.flag = e.flag /\ r.as = e.as
  BY <1>1, <1>2, SMT DEF Draft
<1>4. HasData(r)
  BY <1>2, <1>3 DEF HasData
<1>5. r \in CMailAction
  BY <1>2, <1>3, <1>4, DraftDone DEF Works
<1> QED BY <1>1, <1>2, <1>3, <1>5

(* Recording an entry writes one or two: a pending select goes first.      *)
LEMMA RecordWrites ==
    ASSUME OfflineTypeOK, NEW c \in Clients, NEW e, Record(c, e),
           [e EXCEPT !.id = mRecordID[c]] \in CMailAction
    PROVE  \E q, f :
             /\ f = [e EXCEPT !.id = mRecordID[c]]
             /\ actions' = Append(q, f)
             /\ \/ Pending(c) = NoMbox /\ q = actions
                \/ /\ Pending(c) \in Mailboxes
                   /\ q = Append(actions, Made("Select", mRecordID[c], Pending(c)))
             /\ mPendingSelect' = [mPendingSelect EXCEPT ![mRecordID[c]] = NoMbox]
<1>1. PICK f : f = [e EXCEPT !.id = mRecordID[c]] /\ f \in CMailAction
  OBVIOUS
<1>2. mRecordID[c] \in SessionIDs /\ Pending(c) \in Mailboxes \cup {NoMbox}
      /\ actions \in Seq(CMailAction)
  BY DEF OfflineTypeOK, Pending
<1>3. mPendingSelect' = [mPendingSelect EXCEPT ![mRecordID[c]] = NoMbox]
  BY DEF Record
<1>4. PICK sel : sel = [Blank EXCEPT !.act = "Select", !.id = mRecordID[c],
                                     !.mbox = Pending(c)]
  OBVIOUS
<1>5. actions' = actions \o (IF Pending(c) = NoMbox THEN << >> ELSE <<sel>>) \o <<f>>
  BY <1>1, <1>4 DEF Record
<1>6. CASE Pending(c) = NoMbox
  <2>1. actions \o << >> = actions
    BY <1>2, ConcatEmptySeq
  <2>2. actions' = actions \o <<f>>
    BY <1>5, <1>6, <2>1
  <2>3. actions' = Append(actions, f)
    BY <1>1, <1>2, <2>2, AppendIsConcat
  <2> QED BY <1>1, <1>3, <1>6, <2>3
<1>7. CASE Pending(c) # NoMbox
  <2>1. Pending(c) \in Mailboxes
    BY <1>2, <1>7
  <2>2. sel = Made("Select", mRecordID[c], Pending(c))
    BY <1>4 DEF Made
  <2>3. sel \in CMailAction
    BY <1>2, <2>1, <2>2, MadeEntry
  <2>4. Append(actions, sel) = actions \o <<sel>>
    BY <1>2, <2>3, AppendIsConcat
  <2>5. Append(actions, sel) \in Seq(CMailAction)
    BY <1>2, <2>3, Appended
  <2>6. Append(Append(actions, sel), f) = Append(actions, sel) \o <<f>>
    BY <1>1, <2>5, AppendIsConcat
  <2>7. actions' = Append(Append(actions, sel), f)
    BY <1>5, <1>7, <2>4, <2>6
  <2> QED BY <1>1, <1>3, <2>1, <2>2, <2>7
<1> QED BY <1>6, <1>7

(* Recording an entry in the session of a client.                          *)
LEMMA IDs ==
    ASSUME OfflineTypeOK
    PROVE  /\ \A i \in SessionIDs : i \in Nat
           /\ 0 \in SessionIDs /\ mNextID \in SessionIDs
           /\ \A c \in Clients : mRecordID[c] \in SessionIDs
           /\ \A i \in SessionIDs : mPendingSelect[i] \in Mailboxes \cup {NoMbox}
           /\ \A c \in Clients : mCurrent_mbox[c] \in Mailboxes \cup {NoMbox}
           /\ NoMbox \notin Mailboxes
BY OfflineAssumption DEF OfflineTypeOK

LEMMA RecordTypes ==
    ASSUME OfflineTypeOK, NEW c \in Clients, NEW e \in Work, Record(c, e)
    PROVE  /\ actions' \in Seq(CMailAction)
           /\ mPendingSelect' \in [SessionIDs -> Mailboxes \cup {NoMbox}]
<1>1. PICK id : id = mRecordID[c] /\ id \in SessionIDs
  BY IDs
<1>2. PICK f : f = [e EXCEPT !.id = id] /\ f \in CMailAction
  BY <1>1, WorkEntry
<1>3. PICK q : /\ actions' = Append(q, f)
               /\ \/ Pending(c) = NoMbox /\ q = actions
                  \/ /\ Pending(c) \in Mailboxes
                     /\ q = Append(actions, Made("Select", id, Pending(c)))
               /\ mPendingSelect' = [mPendingSelect EXCEPT ![id] = NoMbox]
  BY <1>1, <1>2, RecordWrites, ZenonT(30)
<1>4. actions \in Seq(CMailAction)
  BY DEF OfflineTypeOK
<1>5. q \in Seq(CMailAction)
  <2>1. CASE Pending(c) \in Mailboxes /\ q = Append(actions, Made("Select", id, Pending(c)))
    <3>1. Made("Select", id, Pending(c)) \in CMailAction
      BY <1>1, <2>1, MadeEntry
    <3> QED BY <1>4, <2>1, <3>1, Appended
  <2> QED BY <1>3, <1>4, <2>1
<1>6. Append(q, f) \in Seq(CMailAction)
  BY <1>2, <1>5, Appended
<1>7. mPendingSelect' \in [SessionIDs -> Mailboxes \cup {NoMbox}]
  BY <1>3 DEF OfflineTypeOK
<1> QED BY <1>3, <1>6, <1>7

LEMMA RecordKeeps ==
    ASSUME OfflineTypeOK, Recording, NEW c \in Clients, NEW e \in Work,
           e.act \in NeedsSelect => mCurrent_mbox[c] # NoMbox,
           Record(c, e), UNCHANGED <<clientVars, mNextID>>
    PROVE  Recording'
<1>1. PICK id : id = mRecordID[c] /\ id \in SessionIDs
  BY IDs
<1>2. PICK f : /\ f = [e EXCEPT !.id = id]
               /\ f \in CMailAction /\ f.act = e.act /\ f.id = id /\ e.act \in Works
  BY <1>1, WorkEntry
<1>3. PICK q : /\ actions' = Append(q, f)
               /\ \/ Pending(c) = NoMbox /\ q = actions
                  \/ /\ Pending(c) \in Mailboxes
                     /\ q = Append(actions, Made("Select", id, Pending(c)))
               /\ mPendingSelect' = [mPendingSelect EXCEPT ![id] = NoMbox]
  BY <1>1, <1>2, RecordWrites
<1>4. /\ id < mNextID
      /\ mCurrent_mbox[c] # NoMbox =>
           /\ id # 0
           /\ ~ Has(actions, "Deselect", id)
           /\ mPendingSelect[id] # NoMbox \/ Has(actions, "Select", id)
  BY <1>1 DEF Recording, OwnSession
<1>5. Pending(c) = mPendingSelect[id]
  BY <1>1 DEF Pending
<1>6. mPendingSelect[id] # NoMbox => id # 0 /\ NoEntry(actions, id)
  BY <1>1 DEF Recording, StillPending, NoEntry
<1>7. actions \in Seq(CMailAction) /\ Recorded(actions)
  BY DEF Recording, OfflineTypeOK
<1>8. f.act # "Select" /\ f.act # "Deselect"
  BY <1>2 DEF Works
<1>9. f.act \in SessionActs =>
        mCurrent_mbox[c] # NoMbox /\ id # 0 /\ ~ Has(actions, "Deselect", id)
  BY <1>2, <1>4, <1>8 DEF SessionActs
<1>10. NoEntry(actions, id) => ~ Has(actions, "Deselect", id)
  BY DEF NoEntry, Has
(* The queue before the entry itself.                                      *)
<1>11. /\ q \in Seq(CMailAction) /\ Recorded(q)
       /\ \A k \in DOMAIN q : \/ k \in DOMAIN actions /\ q[k] = actions[k]
                              \/ q[k].id = id /\ id # 0
       /\ \A i : Has(q, "Deselect", i) <=> Has(actions, "Deselect", i)
       /\ \A i : Has(actions, "Select", i) => Has(q, "Select", i)
       /\ mCurrent_mbox[c] # NoMbox => Has(q, "Select", id)
       /\ \A i : i # id /\ NoEntry(actions, i) => NoEntry(q, i)
  <2>1. CASE Pending(c) = NoMbox
    <3>1. q = actions
      BY <1>3, <2>1, IDs
    <3> QED BY <1>4, <1>5, <1>7, <2>1, <3>1
  <2>2. CASE Pending(c) # NoMbox
    <3>1. Pending(c) \in Mailboxes
      BY <1>3, <2>2
    <3>2. PICK s : /\ s = Made("Select", id, Pending(c))
                   /\ s \in CMailAction /\ s.act = "Select" /\ s.id = id
      BY <1>1, <3>1, MadeEntry
    <3>3. q = Append(actions, s)
      BY <1>3, <2>2, <3>2
    <3>4. id # 0 /\ NoEntry(actions, id)
      BY <1>5, <1>6, <2>2
    <3>5. Recorded(q)
      BY <1>7, <1>10, <3>2, <3>3, <3>4, RecordedGrows
    <3>6. /\ \A k \in DOMAIN q : \/ k \in DOMAIN actions /\ q[k] = actions[k]
                                 \/ k = Len(actions) + 1 /\ q[k] = s
          /\ \A act, i : Has(q, act, i) <=> Has(actions, act, i) \/ (s.act = act /\ s.id = i)
          /\ \A i : NoEntry(q, i) <=> NoEntry(actions, i) /\ s.id # i
      BY <1>7, <3>2, <3>3, OneMore
    <3>7. q \in Seq(CMailAction)
      BY <3>5 DEF Recorded
    <3> QED BY <3>2, <3>4, <3>5, <3>6, <3>7
  <2> QED BY <2>1, <2>2
(* The queue with the entry.                                               *)
<1>12. /\ actions' \in Seq(CMailAction)
       /\ \A k \in DOMAIN actions' : \/ k \in DOMAIN q /\ actions'[k] = q[k]
                                     \/ k = Len(q) + 1 /\ actions'[k] = f
       /\ \A act, i : Has(actions', act, i) <=> Has(q, act, i) \/ (f.act = act /\ f.id = i)
       /\ \A i : NoEntry(actions', i) <=> NoEntry(q, i) /\ f.id # i
  <2>1. PICK p : p = Append(q, f)
    OBVIOUS
  <2>2. q \in Seq(CMailAction) /\ f \in CMailAction
    BY <1>2, <1>11
  <2>3. /\ p \in Seq(CMailAction)
        /\ \A k \in DOMAIN p : \/ k \in DOMAIN q /\ p[k] = q[k]
                               \/ k = Len(q) + 1 /\ p[k] = f
        /\ \A act, i : Has(p, act, i) <=> Has(q, act, i) \/ (f.act = act /\ f.id = i)
        /\ \A i : NoEntry(p, i) <=> NoEntry(q, i) /\ f.id # i
    BY <2>1, <2>2, OneMore
  <2>4. actions' = p
    BY <1>3, <2>1
  <2> QED BY <2>3, <2>4
<1>13. Recorded(actions')
  <2>1. f.act \in SessionActs \ {"Select"} => Has(q, "Select", f.id)
    BY <1>2, <1>9, <1>11
  <2>2. f.act \in SessionActs => ~ Has(q, "Deselect", f.id)
    BY <1>2, <1>9, <1>11
  <2> QED BY <1>2, <1>3, <1>8, <1>11, <2>1, <2>2, RecordedGrows
<1>14. /\ mPendingSelect'[id] = NoMbox
       /\ \A i \in SessionIDs : i # id => mPendingSelect'[i] = mPendingSelect[i]
  BY <1>1, <1>3 DEF OfflineTypeOK
<1>15. mRecordID' = mRecordID /\ mCurrent_mbox' = mCurrent_mbox /\ mNextID' = mNextID
  BY DEF clientVars
<1>16. ASSUME NEW d \in Clients
       PROVE  OwnSession(d)'
  <2>1. PICK j : j = mRecordID[d] /\ j \in SessionIDs
    BY IDs
  <2>2. /\ j < mNextID
        /\ mCurrent_mbox[d] # NoMbox =>
             /\ j # 0
             /\ \A h \in Clients \ {d} : mRecordID[h] # j
             /\ ~ Has(actions, "Deselect", j)
             /\ mPendingSelect[j] # NoMbox \/ Has(actions, "Select", j)
    BY <2>1 DEF Recording, OwnSession
  <2>3. mCurrent_mbox[d] # NoMbox => ~ Has(actions', "Deselect", j)
    BY <1>8, <1>11, <1>12, <2>2
  <2>4. mCurrent_mbox[d] # NoMbox =>
          mPendingSelect'[j] # NoMbox \/ Has(actions', "Select", j)
    <3>1. CASE j = id
      BY <1>1, <1>11, <1>12, <2>2, <3>1
    <3>2. CASE j # id
      BY <1>11, <1>12, <1>14, <2>1, <2>2, <3>2
    <3> QED BY <3>1, <3>2
  <2> QED BY <1>15, <2>1, <2>2, <2>3, <2>4 DEF OwnSession
<1>17. ASSUME NEW i \in SessionIDs
       PROVE  StillPending(i)'
  <2>1. CASE i = id
    BY <1>14, <2>1 DEF StillPending
  <2>2. CASE i # id
    <3>1. mPendingSelect[i] # NoMbox => i # 0 /\ i < mNextID /\ NoEntry(actions, i)
      BY DEF Recording, StillPending, NoEntry
    <3>2. NoEntry(actions, i) => NoEntry(actions', i)
      BY <1>2, <1>11, <1>12, <2>2
    <3> QED BY <1>14, <1>15, <2>2, <3>1, <3>2 DEF StillPending, NoEntry
  <2> QED BY <2>1, <2>2
<1>18. ASSUME NEW k \in DOMAIN actions'
       PROVE  KnownSession(k)'
  <2>1. \A j \in DOMAIN actions : /\ actions[j].id < mNextID
                                  /\ actions[j].act \in SessionActs => actions[j].id # 0
    BY DEF Recording, KnownSession
  <2>2. CASE k \in DOMAIN q /\ actions'[k] = q[k]
    BY <1>4, <1>11, <1>15, <2>1, <2>2 DEF KnownSession
  <2>3. CASE actions'[k] = f
    BY <1>2, <1>4, <1>9, <1>15, <2>3 DEF KnownSession
  <2> QED BY <1>12, <2>2, <2>3
<1> QED BY <1>13, <1>16, <1>17, <1>18 DEF Recording

(* A client lets go of its mailbox: the entries of other sessions stay.    *)
LEMMA DeselectTypes ==
    ASSUME OfflineTypeOK, NEW c \in Clients, mCurrent_mbox[c] # NoMbox
    PROVE  Deselected(c) \in Seq(CMailAction)
<1>1. mRecordID[c] \in SessionIDs /\ mCurrent_mbox[c] \in Mailboxes
  BY IDs
<1>2. PICK d : d = Made("Deselect", mRecordID[c], mCurrent_mbox[c]) /\ d \in CMailAction
  BY <1>1, MadeEntry
<1>3. Deselected(c) = actions \/ Deselected(c) = Append(actions, d)
  BY <1>2 DEF Deselected, Made
<1>4. actions \in Seq(CMailAction)
  BY DEF OfflineTypeOK
<1> QED BY <1>2, <1>3, <1>4, Appended

LEMMA DeselectKeeps ==
    ASSUME OfflineTypeOK, Recording, NEW c \in Clients, mCurrent_mbox[c] # NoMbox
    PROVE  /\ Deselected(c) \in Seq(CMailAction) /\ Recorded(Deselected(c))
           /\ \A k \in DOMAIN Deselected(c) :
                /\ Deselected(c)[k].id < mNextID
                /\ Deselected(c)[k].act \in SessionActs => Deselected(c)[k].id # 0
           /\ \A act, i : i # mRecordID[c] =>
                (Has(Deselected(c), act, i) <=> Has(actions, act, i))
           /\ \A i : i # mRecordID[c] /\ NoEntry(actions, i) => NoEntry(Deselected(c), i)
<1>1. PICK id : id = mRecordID[c] /\ id \in SessionIDs
  BY IDs
<1>2. /\ id # 0 /\ id < mNextID /\ ~ Has(actions, "Deselect", id)
      /\ mPendingSelect[id] # NoMbox \/ Has(actions, "Select", id)
  BY <1>1 DEF Recording, OwnSession
<1>3. actions \in Seq(CMailAction) /\ Recorded(actions)
  BY DEF Recording, OfflineTypeOK
<1>4. \A k \in DOMAIN actions : /\ actions[k].id < mNextID
                                /\ actions[k].act \in SessionActs => actions[k].id # 0
  BY DEF Recording, KnownSession
<1>5. CASE mPendingSelect[id] # NoMbox
  <2>1. Deselected(c) = actions
    BY <1>1, <1>5 DEF Deselected
  <2> QED BY <1>3, <1>4, <2>1
<1>6. CASE mPendingSelect[id] = NoMbox
  <2>1. mCurrent_mbox[c] \in Mailboxes
    BY IDs
  <2>2. PICK d : /\ d = Made("Deselect", id, mCurrent_mbox[c])
                 /\ d \in CMailAction /\ d.act = "Deselect" /\ d.id = id
    BY <1>1, <2>1, MadeEntry
  <2>3. PICK q : q = Append(actions, d)
    OBVIOUS
  <2>4. Deselected(c) = q
    BY <1>1, <1>6, <2>2, <2>3 DEF Deselected, Made
  <2>5. /\ q \in Seq(CMailAction)
        /\ \A k \in DOMAIN q : \/ k \in DOMAIN actions /\ q[k] = actions[k]
                               \/ k = Len(actions) + 1 /\ q[k] = d
        /\ \A act, i : Has(q, act, i) <=> Has(actions, act, i) \/ (d.act = act /\ d.id = i)
        /\ \A i : NoEntry(q, i) <=> NoEntry(actions, i) /\ d.id # i
    BY <1>3, <2>2, <2>3, OneMore
  <2>6. Recorded(q)
    BY <1>2, <1>3, <1>6, <2>2, <2>3, RecordedGrows
  <2>7. \A k \in DOMAIN q : q[k].id < mNextID /\ (q[k].act \in SessionActs => q[k].id # 0)
    BY <1>2, <1>4, <2>2, <2>5
  <2> QED BY <1>1, <2>2, <2>4, <2>5, <2>6, <2>7
<1> QED BY <1>5, <1>6

-----------------------------------------------------------------------------
(* What the steps of the clients do to the types of the journal ...        *)
JournalTypeOK ==
    /\ mCurrent_mbox \in [Clients -> Mailboxes \cup {NoMbox}]
    /\ mRecordID \in [Clients -> SessionIDs]
    /\ mPendingSelect \in [SessionIDs -> Mailboxes \cup {NoMbox}]
    /\ mNextID \in SessionIDs \ {0}
    /\ actions \in Seq(CMailAction)

LEMMA WorkTypes ==
    ASSUME OfflineTypeOK, NEW c \in Clients, NEW e \in Work, Record(c, e),
           UNCHANGED <<clientVars, mNextID>>
    PROVE  JournalTypeOK'
<1>1. /\ actions' \in Seq(CMailAction)
      /\ mPendingSelect' \in [SessionIDs -> Mailboxes \cup {NoMbox}]
  BY RecordTypes
<1>2. mCurrent_mbox' = mCurrent_mbox /\ mRecordID' = mRecordID /\ mNextID' = mNextID
  BY DEF clientVars
<1> QED BY <1>1, <1>2 DEF JournalTypeOK, OfflineTypeOK

LEMMA CloseTypes ==
    ASSUME OfflineTypeOK, NEW c \in Conns, Close(c)
    PROVE  JournalTypeOK'
<1>1. c \in Clients /\ mCurrent_mbox[c] # NoMbox
  BY DEF Close, Clients
<1>2. actions' \in Seq(CMailAction)
  BY <1>1, DeselectTypes DEF Close
<1>3. /\ mCurrent_mbox' = [mCurrent_mbox EXCEPT ![c] = NoMbox]
      /\ mRecordID' = [mRecordID EXCEPT ![c] = 0]
      /\ mPendingSelect' = [mPendingSelect EXCEPT ![mRecordID[c]] = NoMbox]
      /\ mNextID' = mNextID
  BY DEF Close
<1> QED BY <1>2, <1>3, IDs DEF OfflineTypeOK, JournalTypeOK

LEMMA SearchTypes ==
    ASSUME OfflineTypeOK, NEW b \in Mailboxes, Search(b)
    PROVE  JournalTypeOK'
<1>1. PICK n : n = mNextID /\ n \in SessionIDs /\ n # 0
  BY DEF OfflineTypeOK
<1>2. /\ mCurrent_mbox' = [mCurrent_mbox EXCEPT ![Main] = b]
      /\ mRecordID' = [mRecordID EXCEPT ![Main] = n]
      /\ mPendingSelect' = [mPendingSelect EXCEPT ![n] = b]
      /\ mNextID' = n + 1 /\ n < MaxID
      /\ actions' = actions
  BY <1>1 DEF Search
<1>3. n + 1 \in SessionIDs \ {0}
  BY <1>1, <1>2, OfflineAssumption
<1> QED BY <1>1, <1>2, <1>3 DEF OfflineTypeOK, JournalTypeOK

LEMMA OpenTypes ==
    ASSUME OfflineTypeOK, NEW c \in Conns, NEW b \in Mailboxes, Open(c, b)
    PROVE  JournalTypeOK'
<1>1. Main \in Clients
  BY DEF Clients
<1>2. PICK n : n = mNextID /\ n \in SessionIDs /\ n # 0
  BY DEF OfflineTypeOK
<1>3. PICK held \in BOOLEAN : held <=> mCurrent_mbox[Main] = b
  OBVIOUS
<1>4. /\ actions' = IF held THEN Deselected(Main) ELSE actions
      /\ mCurrent_mbox' =
           [mCurrent_mbox EXCEPT ![c] = b, ![Main] = IF held THEN NoMbox ELSE @]
      /\ mRecordID' = [mRecordID EXCEPT ![c] = n, ![Main] = IF held THEN 0 ELSE @]
      /\ mPendingSelect' =
           [mPendingSelect EXCEPT ![n] = b, ![mRecordID[Main]] = IF held THEN NoMbox ELSE @]
      /\ mNextID' = n + 1 /\ n < MaxID
  BY <1>2, <1>3 DEF Open
<1>5. mCurrent_mbox' \in [Clients -> Mailboxes \cup {NoMbox}]
  BY <1>4 DEF OfflineTypeOK
<1>6. mRecordID' \in [Clients -> SessionIDs]
  BY <1>2, <1>4, IDs DEF OfflineTypeOK
<1>7. mPendingSelect' \in [SessionIDs -> Mailboxes \cup {NoMbox}]
  BY <1>4 DEF OfflineTypeOK
<1>8. mNextID' \in SessionIDs \ {0}
  BY <1>2, <1>4, OfflineAssumption
<1>9. actions' \in Seq(CMailAction)
  <2>1. held => mCurrent_mbox[Main] # NoMbox
    BY <1>3, IDs
  <2>2. CASE held
    BY <1>1, <1>4, <2>1, <2>2, DeselectTypes
  <2>3. CASE ~ held
    BY <1>4, <2>3 DEF OfflineTypeOK
  <2> QED BY <2>2, <2>3
<1> QED BY <1>5, <1>6, <1>7, <1>8, <1>9 DEF JournalTypeOK

(* ... and to what is true of it while it is recorded.                     *)
LEMMA CloseKeeps ==
    ASSUME OfflineTypeOK, Recording, NEW c \in Conns, Close(c)
    PROVE  Recording'
<1>1. c \in Clients /\ mCurrent_mbox[c] # NoMbox
  BY DEF Close, Clients
<1>2. PICK id : id = mRecordID[c] /\ id \in SessionIDs
  BY <1>1, IDs
<1>3. /\ mCurrent_mbox' = [mCurrent_mbox EXCEPT ![c] = NoMbox]
      /\ mRecordID' = [mRecordID EXCEPT ![c] = 0]
      /\ mPendingSelect' = [mPendingSelect EXCEPT ![id] = NoMbox]
      /\ mNextID' = mNextID
      /\ actions' = Deselected(c)
  BY <1>2 DEF Close
<1>4. /\ Recorded(actions')
      /\ \A k \in DOMAIN actions' :
           actions'[k].id < mNextID /\ (actions'[k].act \in SessionActs => actions'[k].id # 0)
      /\ \A act, i : i # id => (Has(actions', act, i) <=> Has(actions, act, i))
      /\ \A i : i # id /\ NoEntry(actions, i) => NoEntry(actions', i)
  BY <1>1, <1>2, <1>3, DeselectKeeps
<1>5. ASSUME NEW d \in Clients
      PROVE  OwnSession(d)'
  <2>1. CASE d = c
    <3>1. mRecordID'[d] = 0 /\ mCurrent_mbox'[d] = NoMbox
      BY <1>1, <1>3, <2>1 DEF OfflineTypeOK
    <3>2. 0 < mNextID
      BY IDs DEF OfflineTypeOK
    <3> QED BY <1>3, <3>1, <3>2 DEF OwnSession
  <2>2. CASE d # c
    <3>1. PICK j : j = mRecordID[d] /\ j \in SessionIDs
      BY IDs
    <3>2. /\ j < mNextID
          /\ mCurrent_mbox[d] # NoMbox =>
               /\ j # 0
               /\ \A h \in Clients \ {d} : mRecordID[h] # j
               /\ ~ Has(actions, "Deselect", j)
               /\ mPendingSelect[j] # NoMbox \/ Has(actions, "Select", j)
      BY <3>1 DEF Recording, OwnSession
    <3>3. mCurrent_mbox[d] # NoMbox => j # id
      BY <1>1, <1>2, <2>2, <3>2
    <3>4. mRecordID'[d] = j /\ mCurrent_mbox'[d] = mCurrent_mbox[d]
      BY <1>3, <2>2, <3>1 DEF OfflineTypeOK
    <3>5. mCurrent_mbox[d] # NoMbox => \A h \in Clients \ {d} : mRecordID'[h] # j
      BY <1>1, <1>3, <3>2 DEF OfflineTypeOK
    <3>6. mCurrent_mbox[d] # NoMbox => mPendingSelect'[j] = mPendingSelect[j]
      BY <1>2, <1>3, <3>1, <3>3 DEF OfflineTypeOK
    <3>7. mCurrent_mbox[d] # NoMbox =>
            /\ ~ Has(actions', "Deselect", j)
            /\ mPendingSelect'[j] # NoMbox \/ Has(actions', "Select", j)
      BY <1>4, <3>2, <3>3, <3>6
    <3> QED BY <1>3, <3>2, <3>4, <3>5, <3>7 DEF OwnSession
  <2> QED BY <2>1, <2>2
<1>6. ASSUME NEW i \in SessionIDs
      PROVE  StillPending(i)'
  <2>1. CASE i = id
    <3>1. mPendingSelect'[i] = NoMbox
      BY <1>2, <1>3, <2>1 DEF OfflineTypeOK
    <3> QED BY <3>1 DEF StillPending
  <2>2. CASE i # id
    <3>1. mPendingSelect'[i] = mPendingSelect[i]
      BY <1>2, <1>3, <2>2 DEF OfflineTypeOK
    <3>2. mPendingSelect[i] # NoMbox => i # 0 /\ i < mNextID /\ NoEntry(actions, i)
      BY DEF Recording, StillPending, NoEntry
    <3>3. NoEntry(actions, i) => NoEntry(actions', i)
      BY <1>4, <2>2
    <3> QED BY <1>3, <3>1, <3>2, <3>3 DEF StillPending, NoEntry
  <2> QED BY <2>1, <2>2
<1>7. ASSUME NEW k \in DOMAIN actions'
      PROVE  KnownSession(k)'
  BY <1>3, <1>4 DEF KnownSession
<1> QED BY <1>4, <1>5, <1>6, <1>7 DEF Recording

(* The account's own connection leaves what it had for a closed mailbox.   *)
LEMMA SearchKeeps ==
    ASSUME OfflineTypeOK, Recording, NEW b \in Mailboxes, Search(b)
    PROVE  Recording'
<1>1. Main \in Clients
  BY DEF Clients
<1>2. PICK n : n = mNextID /\ n \in SessionIDs /\ n # 0
  BY DEF OfflineTypeOK
<1>3. /\ mCurrent_mbox' = [mCurrent_mbox EXCEPT ![Main] = b]
      /\ mRecordID' = [mRecordID EXCEPT ![Main] = n]
      /\ mPendingSelect' = [mPendingSelect EXCEPT ![n] = b]
      /\ mNextID' = n + 1 /\ n < MaxID
      /\ actions' = actions
  BY <1>2 DEF Search
<1>4. n \in Nat /\ n + 1 \in SessionIDs \ {0}
  BY <1>2, <1>3, OfflineAssumption
<1>5. NoEntry(actions, n) /\ ~ Has(actions, "Deselect", n)
  <2>1. \A k \in DOMAIN actions : actions[k].id < n
    BY <1>2 DEF Recording, KnownSession
  <2> QED BY <1>4, <2>1 DEF NoEntry, Has
<1>6. ASSUME NEW d \in Clients
      PROVE  OwnSession(d)'
  <2>1. \A h \in Clients : mRecordID[h] # n /\ mRecordID[h] \in Nat
    BY <1>2, IDs DEF Recording, OwnSession
  <2>2. CASE d = Main
    <3>1. mRecordID'[d] = n /\ mPendingSelect'[n] = b /\ b # NoMbox
      BY <1>1, <1>2, <1>3, <2>2, IDs DEF OfflineTypeOK
    <3>2. \A h \in Clients \ {d} : mRecordID'[h] # n
      BY <1>3, <2>1, <2>2 DEF OfflineTypeOK
    <3> QED BY <1>2, <1>3, <1>4, <1>5, <3>1, <3>2 DEF OwnSession
  <2>3. CASE d # Main
    <3>1. PICK j : j = mRecordID[d] /\ j \in SessionIDs
      BY IDs
    <3>2. /\ j < n /\ j \in Nat
          /\ mCurrent_mbox[d] # NoMbox =>
               /\ j # 0
               /\ \A h \in Clients \ {d} : mRecordID[h] # j
               /\ ~ Has(actions, "Deselect", j)
               /\ mPendingSelect[j] # NoMbox \/ Has(actions, "Select", j)
      BY <1>2, <3>1, IDs DEF Recording, OwnSession
    <3>3. mRecordID'[d] = j /\ mCurrent_mbox'[d] = mCurrent_mbox[d]
      BY <1>3, <2>3, <3>1 DEF OfflineTypeOK
    <3>4. mCurrent_mbox[d] # NoMbox => \A h \in Clients \ {d} : mRecordID'[h] # j
      BY <1>1, <1>3, <1>4, <3>2 DEF OfflineTypeOK
    <3>5. mPendingSelect'[j] = mPendingSelect[j] /\ j < n + 1
      BY <1>3, <1>4, <3>1, <3>2 DEF OfflineTypeOK
    <3> QED BY <1>3, <3>2, <3>3, <3>4, <3>5 DEF OwnSession
  <2> QED BY <2>2, <2>3
<1>7. ASSUME NEW i \in SessionIDs
      PROVE  StillPending(i)'
  <2>1. i \in Nat
    BY IDs
  <2>2. CASE i = n
    BY <1>2, <1>3, <1>4, <1>5, <2>2 DEF StillPending, NoEntry
  <2>3. CASE i # n
    <3>1. mPendingSelect'[i] = mPendingSelect[i]
      BY <1>2, <1>3, <2>3 DEF OfflineTypeOK
    <3> QED BY <1>2, <1>3, <1>4, <2>1, <3>1 DEF StillPending, Recording
  <2> QED BY <2>2, <2>3
<1>8. ASSUME NEW k \in DOMAIN actions'
      PROVE  KnownSession(k)'
  <2>1. actions[k].id < n /\ (actions[k].act \in SessionActs => actions[k].id # 0)
    BY <1>2, <1>3 DEF Recording, KnownSession
  <2>2. actions[k].id \in SessionIDs
    BY <1>3, Places DEF OfflineTypeOK, CMailAction, Fields
  <2>3. actions[k].id \in Nat
    BY <2>2, IDs
  <2> QED BY <1>3, <1>4, <2>1, <2>3 DEF KnownSession
<1>9. Recorded(actions')
  BY <1>3 DEF Recording
<1> QED BY <1>6, <1>7, <1>8, <1>9 DEF Recording

(* A connection opens a mailbox; the account's own lets go of it.          *)
LEMMA OpenKeeps ==
    ASSUME OfflineTypeOK, Recording, NEW c \in Conns, NEW b \in Mailboxes, Open(c, b)
    PROVE  Recording'
<1>1. Main \in Clients /\ c \in Clients /\ c # Main
  BY OfflineAssumption DEF Clients
<1>2. PICK n : n = mNextID /\ n \in SessionIDs /\ n # 0
  BY DEF OfflineTypeOK
<1>3. PICK m : m = mRecordID[Main] /\ m \in SessionIDs
  BY <1>1, IDs
<1>4. PICK held \in BOOLEAN : held <=> mCurrent_mbox[Main] = b
  OBVIOUS
<1>5. /\ actions' = IF held THEN Deselected(Main) ELSE actions
      /\ mCurrent_mbox' =
           [mCurrent_mbox EXCEPT ![c] = b, ![Main] = IF held THEN NoMbox ELSE @]
      /\ mRecordID' = [mRecordID EXCEPT ![c] = n, ![Main] = IF held THEN 0 ELSE @]
      /\ mPendingSelect' =
           [mPendingSelect EXCEPT ![n] = b, ![m] = IF held THEN NoMbox ELSE @]
      /\ mNextID' = n + 1 /\ n < MaxID
  BY <1>2, <1>3, <1>4 DEF Open
<1>6. n \in Nat /\ n + 1 \in SessionIDs \ {0} /\ m \in Nat
  BY <1>2, <1>3, <1>5, OfflineAssumption
<1>7. \A h \in Clients : mRecordID[h] < n /\ mRecordID[h] # n /\ mRecordID[h] \in Nat
  <2> SUFFICES ASSUME NEW h \in Clients
               PROVE  mRecordID[h] < n /\ mRecordID[h] # n /\ mRecordID[h] \in Nat
    OBVIOUS
  <2>1. mRecordID[h] \in Nat
    BY IDs
  <2>2. mRecordID[h] < n
    BY <1>2 DEF Recording, OwnSession
  <2> QED BY <1>6, <2>1, <2>2
<1>8. b # NoMbox /\ m # n
  BY <1>1, <1>3, <1>7, IDs
<1>9. /\ actions' \in Seq(CMailAction) /\ Recorded(actions')
      /\ \A k \in DOMAIN actions' :
           actions'[k].id < n /\ (actions'[k].act \in SessionActs => actions'[k].id # 0)
      /\ \A act, i : i # m => (Has(actions', act, i) <=> Has(actions, act, i))
      /\ \A i : i # m /\ NoEntry(actions, i) => NoEntry(actions', i)
      /\ ~ held => actions' = actions
  <2>1. CASE held
    <3>1. mCurrent_mbox[Main] # NoMbox
      BY <1>4, <1>8, <2>1
    <3>2. actions' = Deselected(Main)
      BY <1>5, <2>1
    <3>3. /\ Deselected(Main) \in Seq(CMailAction) /\ Recorded(Deselected(Main))
          /\ \A k \in DOMAIN Deselected(Main) :
               /\ Deselected(Main)[k].id < n
               /\ Deselected(Main)[k].act \in SessionActs => Deselected(Main)[k].id # 0
          /\ \A act, i : i # m => (Has(Deselected(Main), act, i) <=> Has(actions, act, i))
          /\ \A i : i # m /\ NoEntry(actions, i) => NoEntry(Deselected(Main), i)
      BY <1>1, <1>2, <1>3, <3>1, DeselectKeeps
    <3> QED BY <2>1, <3>2, <3>3
  <2>2. CASE ~ held
    <3>1. actions' = actions
      BY <1>5, <2>2
    <3>2. actions \in Seq(CMailAction) /\ Recorded(actions)
      BY DEF Recording, OfflineTypeOK
    <3>3. \A k \in DOMAIN actions :
            actions[k].id < n /\ (actions[k].act \in SessionActs => actions[k].id # 0)
      BY <1>2 DEF Recording, KnownSession
    <3> QED BY <3>1, <3>2, <3>3
  <2> QED BY <2>1, <2>2
<1>10. \A k \in DOMAIN actions' : actions'[k].id \in Nat
  <2>1. \A k \in DOMAIN actions' : actions'[k].id \in SessionIDs
    BY <1>9, Places DEF CMailAction, Fields
  <2> QED BY <2>1, IDs
<1>11. NoEntry(actions', n) /\ ~ Has(actions', "Deselect", n)
  BY <1>6, <1>9, <1>10 DEF NoEntry, Has
<1>12. /\ \A d \in Clients : d # c /\ (d = Main => ~ held) =>
            mRecordID'[d] = mRecordID[d] /\ mCurrent_mbox'[d] = mCurrent_mbox[d]
       /\ mRecordID'[c] = n /\ mCurrent_mbox'[c] = b
       /\ held => mRecordID'[Main] = 0 /\ mCurrent_mbox'[Main] = NoMbox
  BY <1>1, <1>5 DEF OfflineTypeOK
<1>13. /\ \A i \in SessionIDs : i # n /\ (i = m => ~ held) =>
             mPendingSelect'[i] = mPendingSelect[i]
       /\ mPendingSelect'[n] = b
       /\ held => mPendingSelect'[m] = NoMbox
  BY <1>2, <1>3, <1>5, <1>8 DEF OfflineTypeOK
<1>14. ASSUME NEW d \in Clients
       PROVE  OwnSession(d)'
  <2>1. CASE d = c
    <3>1. \A h \in Clients \ {d} : mRecordID'[h] # n
      BY <1>2, <1>7, <1>12, <2>1
    <3>2. mRecordID'[d] = n /\ n < mNextID' /\ mPendingSelect'[n] # NoMbox
      BY <1>5, <1>6, <1>8, <1>12, <1>13, <2>1
    <3>3. n # 0 /\ ~ Has(actions', "Deselect", n)
      BY <1>2, <1>11
    <3> QED BY <3>1, <3>2, <3>3 DEF OwnSession
  <2>2. CASE d # c /\ d = Main /\ held
    <3>1. mRecordID'[d] = 0 /\ mCurrent_mbox'[d] = NoMbox
      BY <1>12, <2>2
    <3>2. 0 < mNextID'
      BY <1>5, <1>6
    <3> QED BY <3>1, <3>2 DEF OwnSession
  <2>3. CASE d # c /\ (d = Main => ~ held)
    <3>1. PICK j : j = mRecordID[d] /\ j \in SessionIDs /\ j \in Nat /\ j < n
      BY <1>7, IDs
    <3>2. mCurrent_mbox[d] # NoMbox =>
            /\ j # 0
            /\ \A h \in Clients \ {d} : mRecordID[h] # j
            /\ ~ Has(actions, "Deselect", j)
            /\ mPendingSelect[j] # NoMbox \/ Has(actions, "Select", j)
      BY <3>1 DEF Recording, OwnSession
    <3>3. mCurrent_mbox[d] # NoMbox => \A h \in Clients \ {d} : mRecordID'[h] # j
      BY <1>12, <3>1, <3>2
    <3>4. mCurrent_mbox[d] # NoMbox =>
            /\ ~ Has(actions', "Deselect", j)
            /\ mPendingSelect'[j] # NoMbox \/ Has(actions', "Select", j)
      <4>1. mCurrent_mbox[d] # NoMbox /\ held => j # m
        BY <1>1, <1>3, <2>3, <3>2
      <4>2. mCurrent_mbox[d] # NoMbox => mPendingSelect'[j] = mPendingSelect[j]
        BY <1>13, <3>1, <4>1
      <4>3. CASE held
        BY <1>9, <3>2, <4>1, <4>2, <4>3
      <4>4. CASE ~ held
        BY <1>9, <3>2, <4>2, <4>4
      <4> QED BY <4>3, <4>4
    <3>5. j < n + 1 /\ mRecordID'[d] = j /\ mCurrent_mbox'[d] = mCurrent_mbox[d]
      BY <1>6, <1>12, <2>3, <3>1
    <3> QED BY <1>5, <3>2, <3>3, <3>4, <3>5 DEF OwnSession
  <2> QED BY <2>1, <2>2, <2>3
<1>15. ASSUME NEW i \in SessionIDs
       PROVE  StillPending(i)'
  <2>1. i \in Nat
    BY IDs
  <2>2. CASE i = n
    BY <1>2, <1>5, <1>6, <1>11, <2>2 DEF StillPending, NoEntry
  <2>3. CASE i = m /\ held
    BY <1>13, <2>3 DEF StillPending
  <2>4. CASE i # n /\ (i = m => ~ held)
    <3>1. mPendingSelect'[i] = mPendingSelect[i]
      BY <1>13, <2>4
    <3>2. mPendingSelect[i] # NoMbox => i # 0 /\ i < n /\ NoEntry(actions, i)
      BY <1>2 DEF StillPending, Recording, NoEntry
    <3>3. NoEntry(actions, i) => NoEntry(actions', i)
      BY <1>9, <2>4
    <3> QED BY <1>5, <1>6, <2>1, <3>1, <3>2, <3>3 DEF StillPending, NoEntry
  <2> QED BY <2>2, <2>3, <2>4
<1>16. ASSUME NEW k \in DOMAIN actions'
       PROVE  KnownSession(k)'
  BY <1>5, <1>6, <1>9, <1>10 DEF KnownSession
<1> QED BY <1>9, <1>14, <1>15, <1>16 DEF Recording

-----------------------------------------------------------------------------
(* The local messages and the world.                                       *)
MailTypeOK ==
    /\ phase \in {"offline", "playing", "online"}
    /\ lflags \in [Msgs -> SUBSET Flags]
    /\ nextMsg \in Nat \ {0}
    /\ origin \in [Msgs -> Msgs]
    /\ odd \subseteq {"mixed", "unseen", "elsewhere"}
    /\ world \in World

LEMMA TypeParts == OfflineTypeOK <=> JournalTypeOK /\ MailTypeOK
BY DEF OfflineTypeOK, JournalTypeOK, MailTypeOK

LEMMA WorldLat ==
    ASSUME NEW w \in World, NEW f \in [Msgs -> Mailboxes \cup {NoMbox}]
    PROVE  [w EXCEPT !.lat = f] \in World /\ [w EXCEPT !.lat = f].local = w.local
BY SMT DEF World

LEMMA WorldLocal ==
    ASSUME NEW w \in World, NEW f \in [Mailboxes -> Nat \cup {NoLocal}]
    PROVE  [w EXCEPT !.local = f] \in World /\ [w EXCEPT !.local = f].lat = w.lat
BY SMT DEF World

LEMMA ArrivedType ==
    ASSUME OfflineTypeOK, NEW n \in Msgs, NEW b \in Mailboxes, NEW m \in Msgs,
           NEW fl \in SUBSET Flags, Arrived(n, b, m, fl)
    PROVE  /\ lflags' \in [Msgs -> SUBSET Flags]
           /\ nextMsg' \in Nat \ {0}
           /\ origin' \in [Msgs -> Msgs]
           /\ world' \in World
<1>1. /\ nextMsg' = nextMsg + 1
      /\ lflags' = [lflags EXCEPT ![n] = fl]
      /\ origin' = [origin EXCEPT ![n] = origin[m]]
      /\ world' = [world EXCEPT !.lat[n] = b]
  BY DEF Arrived
<1>2. lflags' \in [Msgs -> SUBSET Flags]
  BY <1>1 DEF OfflineTypeOK
<1>3. origin' \in [Msgs -> Msgs]
  BY <1>1 DEF OfflineTypeOK
<1>4. nextMsg' \in Nat \ {0}
  BY <1>1 DEF OfflineTypeOK
<1>5. PICK f : f = [world.lat EXCEPT ![n] = b]
  OBVIOUS
<1>6. world \in World
  BY DEF OfflineTypeOK
<1>7. f \in [Msgs -> Mailboxes \cup {NoMbox}]
  BY <1>5, <1>6, SMT DEF World
<1>8. world' = [world EXCEPT !.lat = f]
  BY <1>1, <1>5
<1> QED BY <1>2, <1>3, <1>4, <1>6, <1>7, <1>8, WorldLat

LEMMA MailUnchanged ==
    ASSUME OfflineTypeOK, UNCHANGED <<phase, mailVars>>
    PROVE  MailTypeOK'
BY DEF OfflineTypeOK, MailTypeOK, mailVars

LEMMA SetFlagMail ==
    ASSUME OfflineTypeOK, NEW c \in Conns, NEW S \in Selection(c), NEW f \in Flags,
           NEW v \in BOOLEAN, SetFlag(c, S, f, v)
    PROVE  MailTypeOK'
<1>1. /\ lflags' = [m \in Msgs |-> IF m \notin S THEN lflags[m]
                                   ELSE IF v THEN lflags[m] \cup {f}
                                             ELSE lflags[m] \ {f}]
      /\ odd' = odd \cup Mixed(S)
      /\ phase' = phase /\ nextMsg' = nextMsg /\ origin' = origin /\ world' = world
  BY DEF SetFlag
<1>2. lflags' \in [Msgs -> SUBSET Flags]
  BY <1>1 DEF OfflineTypeOK
<1>3. odd' \subseteq {"mixed", "unseen", "elsewhere"}
  BY <1>1 DEF OfflineTypeOK, Mixed
<1> QED BY <1>1, <1>2, <1>3 DEF OfflineTypeOK, MailTypeOK

LEMMA CopyMail ==
    ASSUME OfflineTypeOK, NEW c \in Conns, NEW m \in Msgs, NEW n \in Msgs,
           NEW b \in Mailboxes, CopyMessage(c, m, b, n)
    PROVE  MailTypeOK'
<1>1. Arrived(n, b, m, lflags[m]) /\ phase' = phase /\ odd' = odd
  BY DEF CopyMessage
<1>2. lflags[m] \in SUBSET Flags
  BY DEF OfflineTypeOK
<1>3. /\ lflags' \in [Msgs -> SUBSET Flags] /\ nextMsg' \in Nat \ {0}
      /\ origin' \in [Msgs -> Msgs] /\ world' \in World
  BY <1>1, <1>2, ArrivedType
<1> QED BY <1>1, <1>3 DEF OfflineTypeOK, MailTypeOK

LEMMA AppendMail ==
    ASSUME OfflineTypeOK, NEW n \in Msgs, NEW b \in Mailboxes, AppendMessage(b, n)
    PROVE  MailTypeOK'
<1>1. Arrived(n, b, n, {}) /\ phase' = phase
  BY DEF AppendMessage
<1>2. PICK c \in Clients :
        odd' = odd \cup (IF mCurrent_mbox[c] \in {NoMbox, b} THEN {} ELSE {"elsewhere"})
  BY DEF AppendMessage
<1>3. odd' \subseteq {"mixed", "unseen", "elsewhere"}
  BY <1>2 DEF OfflineTypeOK
<1>4. /\ lflags' \in [Msgs -> SUBSET Flags] /\ nextMsg' \in Nat \ {0}
      /\ origin' \in [Msgs -> Msgs] /\ world' \in World
  BY <1>1, ArrivedType
<1> QED BY <1>1, <1>3, <1>4 DEF OfflineTypeOK, MailTypeOK

LEMMA ExpungeMail ==
    ASSUME OfflineTypeOK, NEW c \in Conns, ExpungeMbox(c)
    PROVE  MailTypeOK'
<1>1. PICK gone \in SUBSET Msgs :
        /\ world' = [world EXCEPT !.lat =
                       [m \in Msgs |-> IF m \in gone THEN NoMbox ELSE @[m]]]
        /\ odd' = odd \cup Mixed(gone)
                      \cup (IF gone \subseteq world.mapped \ Local(actions)
                            THEN {} ELSE {"unseen"})
  BY DEF ExpungeMbox, InMbox
<1>2. phase' = phase /\ nextMsg' = nextMsg /\ lflags' = lflags /\ origin' = origin
  BY DEF ExpungeMbox
<1>3. PICK f : f = [m \in Msgs |-> IF m \in gone THEN NoMbox ELSE world.lat[m]]
  OBVIOUS
<1>4. world \in World
  BY DEF OfflineTypeOK
<1>5. f \in [Msgs -> Mailboxes \cup {NoMbox}]
  BY <1>3, <1>4 DEF World
<1>6. world' = [world EXCEPT !.lat = f]
  BY <1>1, <1>3, <1>4 DEF World
<1>7. world' \in World
  BY <1>4, <1>5, <1>6, WorldLat
<1>8. odd' \subseteq {"mixed", "unseen", "elsewhere"}
  BY <1>1 DEF OfflineTypeOK, Mixed
<1> QED BY <1>2, <1>7, <1>8 DEF OfflineTypeOK, MailTypeOK

LEMMA CreateMail ==
    ASSUME OfflineTypeOK, NEW b \in Mailboxes, CreateMbox(b)
    PROVE  MailTypeOK'
<1>1. /\ world' = [world EXCEPT !.local[b] = 0]
      /\ phase' = phase /\ nextMsg' = nextMsg /\ lflags' = lflags /\ origin' = origin
      /\ odd' = odd
  BY DEF CreateMbox
<1>2. PICK f : f = [world.local EXCEPT ![b] = 0]
  OBVIOUS
<1>3. world \in World
  BY DEF OfflineTypeOK
<1>4. f \in [Mailboxes -> Nat \cup {NoLocal}]
  BY <1>2, <1>3, SMT DEF World
<1>5. world' = [world EXCEPT !.local = f]
  BY <1>1, <1>2
<1>6. world' \in World
  BY <1>3, <1>4, <1>5, WorldLocal
<1> QED BY <1>1, <1>6 DEF OfflineTypeOK, MailTypeOK

LEMMA DeleteMail ==
    ASSUME OfflineTypeOK, NEW b \in Mailboxes, DeleteMbox(b)
    PROVE  MailTypeOK'
<1>1. /\ world' = [world EXCEPT !.local[b] = NoLocal,
                     !.lat = [m \in Msgs |-> IF @[m] = b THEN NoMbox ELSE @[m]]]
      /\ phase' = phase /\ nextMsg' = nextMsg /\ lflags' = lflags /\ origin' = origin
      /\ odd' = odd
  BY DEF DeleteMbox
<1>2. PICK f : f = [world.local EXCEPT ![b] = NoLocal]
  OBVIOUS
<1>3. PICK g : g = [m \in Msgs |-> IF world.lat[m] = b THEN NoMbox ELSE world.lat[m]]
  OBVIOUS
<1>4. world \in World
  BY DEF OfflineTypeOK
<1>5. f \in [Mailboxes -> Nat \cup {NoLocal}] /\ g \in [Msgs -> Mailboxes \cup {NoMbox}]
  BY <1>2, <1>3, <1>4, SMT DEF World
<1>6. PICK w : w = [world EXCEPT !.local = f]
  OBVIOUS
<1>7. w \in World
  BY <1>4, <1>5, <1>6, WorldLocal
<1>8. world' = [w EXCEPT !.lat = g]
  BY <1>1, <1>2, <1>3, <1>4, <1>6, SMT DEF World
<1>9. world' \in World
  BY <1>5, <1>7, <1>8, WorldLat
<1> QED BY <1>1, <1>9 DEF OfflineTypeOK, MailTypeOK

LEMMA RenameMail ==
    ASSUME OfflineTypeOK, NEW b \in Mailboxes, NEW d \in Mailboxes, RenameMbox(b, d)
    PROVE  MailTypeOK'
<1>1. /\ world' = [world EXCEPT !.local[b] = NoLocal, !.local[d] = world.local[b],
                     !.lat = [m \in Msgs |-> IF @[m] = b THEN d ELSE @[m]]]
      /\ phase' = phase /\ nextMsg' = nextMsg /\ lflags' = lflags /\ origin' = origin
      /\ odd' = odd
  BY DEF RenameMbox
<1>2. PICK f : f = [world.local EXCEPT ![b] = NoLocal]
  OBVIOUS
<1>3. PICK g : g = [m \in Msgs |-> IF world.lat[m] = b THEN d ELSE world.lat[m]]
  OBVIOUS
<1>4. world \in World
  BY DEF OfflineTypeOK
<1>5. f \in [Mailboxes -> Nat \cup {NoLocal}] /\ g \in [Msgs -> Mailboxes \cup {NoMbox}]
  BY <1>2, <1>3, <1>4, SMT DEF World
<1>6. PICK w : w = [world EXCEPT !.local[b] = NoLocal]
  OBVIOUS
<1>7. w = [world EXCEPT !.local = f]
  BY <1>2, <1>6
<1>8. w \in World /\ w.local = f /\ w.lat = world.lat
  BY <1>4, <1>5, <1>7, WorldLocal
<1>9. PICK h : h = [w.local EXCEPT ![d] = world.local[b]]
  OBVIOUS
<1>10. h \in [Mailboxes -> Nat \cup {NoLocal}]
  <2>1. world.local[b] \in Nat \cup {NoLocal}
    BY <1>4 DEF World
  <2> QED BY <1>5, <1>8, <1>9, <2>1
<1>11. PICK u : u = [w EXCEPT !.local[d] = world.local[b]]
  OBVIOUS
<1>12. u = [w EXCEPT !.local = h]
  BY <1>9, <1>11
<1>13. u \in World /\ u.lat = world.lat
  BY <1>8, <1>10, <1>12, WorldLocal
<1>14. world' = [u EXCEPT !.lat = [m \in Msgs |-> IF @[m] = b THEN d ELSE @[m]]]
  BY <1>1, <1>6, <1>11
<1>15. world' = [u EXCEPT !.lat = g]
  BY <1>3, <1>13, <1>14, SMT DEF World
<1>16. world' \in World
  BY <1>5, <1>13, <1>15, WorldLat
<1> QED BY <1>1, <1>16 DEF OfflineTypeOK, MailTypeOK

-----------------------------------------------------------------------------
(* How an account goes offline.                                            *)
LEMMA StartWorldType == StartWorld \in World
<1> DEFINE here(m) == m \in StartMsgs
           local == [b \in Mailboxes |->
                       IF StartNames[b] = 0 THEN NoLocal ELSE StartNames[b]]
           at  == [m \in Msgs |-> IF here(m) THEN StartNames[StartMbox] ELSE 0]
           lat == [m \in Msgs |-> IF here(m) THEN StartMbox ELSE NoMbox]
           conns == [i \in SessionIDs |-> NoConn]
           flags == [m \in Msgs |-> {}]
           fresh == 1 + Max(Range(StartNames))
<1>1. local \in [Mailboxes -> Nat \cup {NoLocal}]
  BY OfflineAssumption
<1>2. at \in [Msgs -> Nat] /\ lat \in [Msgs -> Mailboxes \cup {NoMbox}]
  BY OfflineAssumption
<1>3. conns \in [SessionIDs -> {NoConn} \cup [box : Nat, mbox : Mailboxes]]
      /\ flags \in [Msgs -> SUBSET Flags]
  OBVIOUS
<1>4. fresh \in Nat
  <2> DEFINE s == {StartNames[b] : b \in Mailboxes}
  <2>1. s = Range(StartNames)
    BY OfflineAssumption DEF Range
  <2>2. s \in SUBSET Nat /\ s # {}
    BY OfflineAssumption
  <2>3. StartNames \in Surjection(Mailboxes, s)
    BY OfflineAssumption DEF Surjection
  <2>4. IsFiniteSet(s)
    <3> HIDE DEF s
    <3> QED BY <2>3, FS_Surjection, OfflineAssumption
  <2> HIDE DEF s
  <2>5. Max(s) \in s
    BY <2>2, <2>4, MaxOfFinite
  <2> QED BY <2>1, <2>2, <2>5
<1>5. StartWorld = [names |-> StartNames, local |-> local, fresh |-> fresh,
                    conns |-> conns, at |-> at, flags |-> flags,
                    mapped |-> StartMsgs, lat |-> lat]
  BY DEF StartWorld
<1> HIDE DEF local, at, lat, conns, flags, fresh
<1> QED BY <1>1, <1>2, <1>3, <1>4, <1>5, OfflineAssumption DEF World

LEMMA OfflineInitHolds ==
    ASSUME OfflineInit
    PROVE  OfflineTypeOK /\ Recording
<1>1. 0 \in SessionIDs /\ 1 \in SessionIDs
  BY OfflineAssumption
<1>2. nextMsg \in Nat \ {0}
  <2>1. PICK s : s = {0} \cup StartMsgs
    OBVIOUS
  <2>2. s \in SUBSET Nat /\ s # {} /\ IsFiniteSet(s)
    <3>1. IsFiniteSet({0}) /\ IsFiniteSet(StartMsgs)
      BY FS_Singleton, OfflineAssumption
    <3>2. IsFiniteSet(s)
      BY <2>1, <3>1, FS_Union
    <3> QED BY <2>1, <3>2, OfflineAssumption
  <2>3. Max(s) \in s
    BY <2>2, MaxOfFinite
  <2>4. Max(s) \in Nat
    BY <2>2, <2>3
  <2> QED BY <2>1, <2>4 DEF OfflineInit
<1>3. actions = << >> /\ actions \in Seq(CMailAction) /\ DOMAIN actions = {}
  BY EmptySeq DEF OfflineInit
<1>4. JournalTypeOK
  BY <1>1, <1>3 DEF OfflineInit, JournalTypeOK
<1>5. MailTypeOK
  BY <1>2, StartWorldType DEF OfflineInit, MailTypeOK
<1>6. Recorded(actions)
  BY <1>3 DEF Recorded, InOrder
<1>7. \A c \in Clients : OwnSession(c)
  BY DEF OwnSession, OfflineInit
<1>8. \A id \in SessionIDs : StillPending(id)
  BY DEF StillPending, OfflineInit
<1> QED BY <1>3, <1>4, <1>5, <1>6, <1>7, <1>8, TypeParts DEF Recording

(* What each step does to the types and to what is true of the journal.    *)
LEMMA ClientStepKeeps ==
    ASSUME OfflineTypeOK, NEW c \in Conns, ClientStep(c)
    PROVE  OfflineTypeOK' /\ (Recording => Recording')
<1>1. c \in Clients
  BY DEF Clients
<1>2. CASE \E b \in Mailboxes : Open(c, b)
  <2>1. PICK b \in Mailboxes : Open(c, b)
    BY <1>2
  <2>2. JournalTypeOK' /\ (Recording => Recording')
    BY <2>1, OpenTypes, OpenKeeps
  <2>3. MailTypeOK'
    BY <2>1, MailUnchanged DEF Open
  <2> QED BY <2>2, <2>3 DEF OfflineTypeOK, JournalTypeOK, MailTypeOK
<1>3. CASE Close(c)
  <2>1. JournalTypeOK' /\ (Recording => Recording')
    BY <1>3, CloseTypes, CloseKeeps
  <2>2. MailTypeOK'
    BY <1>3, MailUnchanged DEF Close
  <2> QED BY <2>1, <2>2 DEF OfflineTypeOK, JournalTypeOK, MailTypeOK
<1>4. CASE \E S \in Selection(c), f \in Flags, v \in BOOLEAN : SetFlag(c, S, f, v)
  <2>1. PICK S \in Selection(c), f \in Flags, v \in BOOLEAN : SetFlag(c, S, f, v)
    BY <1>4
  <2>2. S \in SUBSET Msgs
    BY DEF Selection, InMbox
  <2>3. PICK e \in Work : Record(c, e)
    BY <2>1, <2>2, FlagWork DEF SetFlag
  <2>4. mCurrent_mbox[c] # NoMbox /\ UNCHANGED <<clientVars, mNextID>>
    BY <2>1 DEF SetFlag
  <2>5. JournalTypeOK' /\ (Recording => Recording')
    BY <1>1, <2>3, <2>4, WorkTypes, RecordKeeps
  <2>6. MailTypeOK'
    BY <2>1, SetFlagMail
  <2> QED BY <2>5, <2>6 DEF OfflineTypeOK, JournalTypeOK, MailTypeOK
<1>5. CASE \E m, n \in Msgs, b \in Mailboxes : CopyMessage(c, m, b, n)
  <2>1. PICK m \in Msgs, n \in Msgs, b \in Mailboxes : CopyMessage(c, m, b, n)
    BY <1>5
  <2>2. PICK e \in Work : Record(c, e)
    BY <2>1, CopyWork DEF CopyMessage
  <2>3. mCurrent_mbox[c] # NoMbox /\ UNCHANGED <<clientVars, mNextID>>
    BY <2>1 DEF CopyMessage
  <2>4. JournalTypeOK' /\ (Recording => Recording')
    BY <1>1, <2>2, <2>3, WorkTypes, RecordKeeps
  <2>5. MailTypeOK'
    BY <2>1, CopyMail
  <2> QED BY <2>4, <2>5 DEF OfflineTypeOK, JournalTypeOK, MailTypeOK
<1>6. CASE ExpungeMbox(c)
  <2>1. PICK S \in SUBSET Msgs : Record(c, PurgeUIDs([Blank EXCEPT !.act = "Expunge"], S))
    BY <1>6 DEF ExpungeMbox, InMbox
  <2>2. PICK e \in Work : Record(c, e)
    BY <2>1, ExpungeWork
  <2>3. mCurrent_mbox[c] # NoMbox /\ UNCHANGED <<clientVars, mNextID>>
    BY <1>6 DEF ExpungeMbox
  <2>4. JournalTypeOK' /\ (Recording => Recording')
    BY <1>1, <2>2, <2>3, WorkTypes, RecordKeeps
  <2>5. MailTypeOK'
    BY <1>6, ExpungeMail
  <2> QED BY <2>4, <2>5 DEF OfflineTypeOK, JournalTypeOK, MailTypeOK
<1> QED BY <1>2, <1>3, <1>4, <1>5, <1>6 DEF ClientStep

LEMMA AccountStepKeeps ==
    ASSUME OfflineTypeOK, AccountStep
    PROVE  OfflineTypeOK' /\ (Recording => Recording')
<1>1. Main \in Clients
  BY DEF Clients
<1>2. ASSUME NEW b \in Mailboxes, Search(b)
      PROVE  OfflineTypeOK' /\ (Recording => Recording')
  <2>1. JournalTypeOK' /\ (Recording => Recording')
    BY <1>2, SearchTypes, SearchKeeps
  <2>2. MailTypeOK'
    BY <1>2, MailUnchanged DEF Search
  <2> QED BY <2>1, <2>2 DEF OfflineTypeOK, JournalTypeOK, MailTypeOK
<1>3. ASSUME NEW b \in Mailboxes, CreateMbox(b)
      PROVE  OfflineTypeOK' /\ (Recording => Recording')
  <2>1. PICK e \in Work : e.act = "Create" /\ Record(Main, e)
    BY <1>3, MailboxWork DEF CreateMbox
  <2>2. e.act \notin NeedsSelect /\ UNCHANGED <<clientVars, mNextID>>
    BY <1>3, <2>1 DEF NeedsSelect, CreateMbox
  <2>3. JournalTypeOK' /\ (Recording => Recording')
    BY <1>1, <2>1, <2>2, WorkTypes, RecordKeeps
  <2>4. MailTypeOK'
    BY <1>3, CreateMail
  <2> QED BY <2>3, <2>4 DEF OfflineTypeOK, JournalTypeOK, MailTypeOK
<1>4. ASSUME NEW b \in Mailboxes, DeleteMbox(b)
      PROVE  OfflineTypeOK' /\ (Recording => Recording')
  <2>1. PICK e \in Work : e.act = "Delete" /\ Record(Main, e)
    BY <1>4, MailboxWork DEF DeleteMbox
  <2>2. e.act \notin NeedsSelect /\ UNCHANGED <<clientVars, mNextID>>
    BY <1>4, <2>1 DEF NeedsSelect, DeleteMbox
  <2>3. JournalTypeOK' /\ (Recording => Recording')
    BY <1>1, <2>1, <2>2, WorkTypes, RecordKeeps
  <2>4. MailTypeOK'
    BY <1>4, DeleteMail
  <2> QED BY <2>3, <2>4 DEF OfflineTypeOK, JournalTypeOK, MailTypeOK
<1>5. ASSUME NEW b \in Mailboxes, NEW n \in Msgs, AppendMessage(b, n)
      PROVE  OfflineTypeOK' /\ (Recording => Recording')
  <2>1. PICK c \in Clients : Record(c, [Blank EXCEPT !.act = "Append", !.mbox = b, !.as = n])
    BY <1>5 DEF AppendMessage
  <2>2. PICK e \in Work : e.act = "Append" /\ Record(c, e)
    BY <2>1, AppendWork
  <2>3. e.act \notin NeedsSelect /\ UNCHANGED <<clientVars, mNextID>>
    BY <1>5, <2>2 DEF NeedsSelect, AppendMessage
  <2>4. JournalTypeOK' /\ (Recording => Recording')
    BY <2>2, <2>3, WorkTypes, RecordKeeps
  <2>5. MailTypeOK'
    BY <1>5, AppendMail
  <2> QED BY <2>4, <2>5 DEF OfflineTypeOK, JournalTypeOK, MailTypeOK
<1>6. ASSUME NEW b \in Mailboxes, NEW d \in Mailboxes, RenameMbox(b, d)
      PROVE  OfflineTypeOK' /\ (Recording => Recording')
  <2>1. PICK e \in Work : e.act = "Rename" /\ Record(Main, e)
    BY <1>6, RenameWork DEF RenameMbox
  <2>2. e.act \notin NeedsSelect /\ UNCHANGED <<clientVars, mNextID>>
    BY <1>6, <2>1 DEF NeedsSelect, RenameMbox
  <2>3. JournalTypeOK' /\ (Recording => Recording')
    BY <1>1, <2>1, <2>2, WorkTypes, RecordKeeps
  <2>4. MailTypeOK'
    BY <1>6, RenameMail
  <2> QED BY <2>3, <2>4 DEF OfflineTypeOK, JournalTypeOK, MailTypeOK
<1> QED BY <1>2, <1>3, <1>4, <1>5, <1>6 DEF AccountStep

LEMMA OfflineStepKeeps ==
    ASSUME OfflineTypeOK, [OfflineNext]_offlineVars
    PROVE  OfflineTypeOK' /\ (Recording => Recording')
<1>1. CASE OfflineNext
  BY <1>1, ClientStepKeeps, AccountStepKeeps DEF OfflineNext
<1>2. CASE UNCHANGED offlineVars
  <2>1. /\ phase' = phase /\ mCurrent_mbox' = mCurrent_mbox /\ mRecordID' = mRecordID
        /\ mPendingSelect' = mPendingSelect /\ mNextID' = mNextID /\ actions' = actions
        /\ lflags' = lflags /\ nextMsg' = nextMsg /\ origin' = origin /\ odd' = odd
        /\ world' = world
    BY <1>2 DEF offlineVars, clientVars, recordVars, mailVars
  <2>2. OfflineTypeOK'
    BY <2>1 DEF OfflineTypeOK
  <2>3. Recording => Recording'
    BY <2>1 DEF Recording, OwnSession, StillPending, KnownSession
  <2> QED BY <2>2, <2>3
<1> QED BY <1>1, <1>2

-----------------------------------------------------------------------------
(* The state of an account that works offline keeps its types: every entry *)
(* the clients record is complete, with the mailbox, the message or the    *)
(* flag its kind needs (CLocalClient, CMailRecord).                        *)
THEOREM OfflineTypes == OfflineSpec => []OfflineTypeOK
<1>1. OfflineInit => OfflineTypeOK
  BY OfflineInitHolds
<1>2. OfflineTypeOK /\ [OfflineNext]_offlineVars => OfflineTypeOK'
  BY OfflineStepKeeps
<1> QED BY <1>1, <1>2, PTL DEF OfflineSpec

(* Whatever the clients do while the account is offline, the journal is    *)
(* recorded in sessions: what happens in a mailbox is behind a Select, and *)
(* nothing that needs its session is behind a Deselect.                    *)
THEOREM JournalIsRecorded == OfflineSpec => []Recording
<1>1. OfflineInit => OfflineTypeOK /\ Recording
  BY OfflineInitHolds
<1>2. (OfflineTypeOK /\ Recording) /\ [OfflineNext]_offlineVars => (OfflineTypeOK /\ Recording)'
  BY OfflineStepKeeps
<1> QED BY <1>1, <1>2, PTL DEF OfflineSpec

(* In the compacted journal every change to messages is made in a session  *)
(* that is selected before it and deselected after it, no session is       *)
(* selected twice and none for nothing (CMailRecord::CompactPlayback).     *)
THEOREM CompactedIsClosed == OfflineSpec => []SessionsClosed
<1>1. Recording => SessionsClosed
  BY RecordingIsClosed
<1> QED BY <1>1, JournalIsRecorded, PTL
=============================================================================
