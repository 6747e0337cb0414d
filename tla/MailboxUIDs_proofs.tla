------------------------- MODULE MailboxUIDs_proofs -------------------------
(***************************************************************************)
(* Theorems about the local UIDs of a local mailbox: for any messages and  *)
(* any number of crashes and failed appends, a local UID is that of the    *)
(* message it was given to, with the flag last set.                        *)
(***************************************************************************)
EXTENDS MailboxFiles_proofs

-----------------------------------------------------------------------------
(* The invariant of the local UIDs, by parts.  Of those given, K, the one a*)
(* record has is that of its message, and no other record's.               *)
Named(K, uid)  == {p \in K : p[1] = uid}
Item(rec, mbx) == <<rec.luid, mbx[rec.start + 1], rec.deleted>>

Calls(recs, mbx, K) ==
    /\ \A i, j \in DOMAIN recs : i # j => recs[i].luid # recs[j].luid
    /\ \A k \in DOMAIN recs : /\ recs[k].start < Len(mbx)
                              /\ Named(K, recs[k].luid) = {Item(recs[k], mbx)}

Below(K, next) == \A p \in K : p[1] \in Nat /\ p[1] < next

(* What a cache shows of the records is right, or not written yet; or the  *)
(* cache is the one a reconstruction has made.                             *)
Shows(recs, mbx, mbc) ==
    /\ \A i, j \in DOMAIN recs : i < j => recs[i].start < recs[j].start
    /\ \A k \in DOMAIN recs : recs[k].cache = k - 1
    /\ \/ mbc = mbx
       \/ \A k \in DOMAIN recs \cap DOMAIN mbc :
            mbc[k] \in {mbx[recs[k].start + 1], Blank}

Resting == {"closed", "created"} \cup Rebuilding
InUse   == Unflushed \cup Flushed \cup {"idle"}

Numbered ==
    /\ trusted => astray
    /\ fs.mbi.valid => Below(known, fs.mbi.next)
    /\ pc = "expunge" => Below(known, fs.new.mbi.next)

(* An index without its mailbox file, or with one just made, names nothing.*)
Bereft == fs.mbx = << >> /\ ("mbx" \notin fs.there \/ ~AsOld)

AtRest ==
    pc \in Resting /\ ~astray /\ fs.mbi.valid /\ ~Bereft =>
        /\ Calls(fs.mbi.recs, fs.mbx, known)
        /\ Whole(fs.mbi) => Shows(fs.mbi.recs, fs.mbx, fs.mbc)

AtWork ==
    pc \in InUse /\ ~astray =>
        /\ Calls(fs.mbi.recs, Indexed, known)
        /\ late # << >> /\ pc # "cache" =>
             \A k \in DOMAIN fs.mbi.recs : fs.mbi.recs[k].luid # late[1].luid

(* The record in the buffer: before and after its append is reported.      *)
Told   == {"write", "text", "entry", "cache", "failed", "rollback"}
Untold == {"next", "header", "appended"}

Pending ==
    /\ late # << >> =>
         /\ IF pc = "next" THEN late[1].luid = fs.mbi.next
                           ELSE late[1].luid < fs.mbi.next
         /\ Named(known, late[1].luid) \subseteq {Item(late[1], Indexed)}
         /\ pc \in Told => Named(known, late[1].luid) # {}
         /\ pc \in Untold => Named(known, late[1].luid) = {}
         /\ pc # "stop" => fs.mbc[Len(fs.mbc)] = Blank
    /\ pc = "rollback" /\ moves = <<Out("mbx"), In("mbx"), Drop>> =>
         fs.new.mbx = Front(fs.mbx)

Rebuilt ==
    pc \in Rebuilding =>
        /\ ~fs.new.recovered => fs.new.mbi = FreshIndex(Len(fs.mbx))
        /\ fs.new.recovered \/ pc \in {"reheader", "rerecord"} =>
             /\ Below(known, fs.new.mbi.next)
             /\ ~(astray /\ fs.new.recovered) =>
                  Calls(fs.new.mbi.recs, fs.mbx, known)

Expunging ==
    pc = "expunge" /\ ~astray =>
        /\ Calls(fs.new.mbi.recs, fs.new.mbx, known)
        /\ moves = Left7 => /\ Calls(fs.mbi.recs, fs.mbx, known)
                            /\ Shows(fs.mbi.recs, fs.mbx, fs.mbc)

UInv == Numbered /\ AtRest /\ AtWork /\ Pending /\ Rebuilt /\ Expunging

-----------------------------------------------------------------------------
(* A sequence that begins like another.                                    *)
Begins(t, s) == Len(s) <= Len(t) /\ \A i \in 1..Len(s) : t[i] = s[i]

LEMMA RecordAt ==
    ASSUME NEW recs \in Seq(Record), NEW k \in DOMAIN recs
    PROVE  /\ recs[k] \in Record /\ recs[k].start \in Nat /\ recs[k].cache \in Nat
           /\ recs[k].luid \in Nat /\ recs[k].deleted \in BOOLEAN
           /\ DOMAIN recs = 1..Len(recs) /\ Len(recs) \in Nat
<1>1. recs[k] \in Record
  BY LenProperties, ElementOfSeq
<1>2. DOMAIN recs = 1..Len(recs) /\ Len(recs) \in Nat
  BY LenProperties
<1> QED BY <1>1, <1>2 DEF Record

(* What records name stays where it is when something follows it.          *)
LEMMA CallsLonger ==
    ASSUME NEW recs \in Seq(Record), NEW s \in Seq(Text), NEW t \in Seq(Text), NEW K,
           Begins(t, s), Calls(recs, s, K)
    PROVE  Calls(recs, t, K)
<1>1. Len(s) \in Nat /\ Len(t) \in Nat
  BY LenProperties
<1>2. ASSUME NEW k \in DOMAIN recs
      PROVE  recs[k].start < Len(t) /\ Named(K, recs[k].luid) = {Item(recs[k], t)}
  <2>1. recs[k].start \in Nat
    BY RecordAt
  <2>2. recs[k].start < Len(s) /\ Named(K, recs[k].luid) = {Item(recs[k], s)}
    BY DEF Calls
  <2>3. \A a, b, c \in Nat : a < b /\ b <= c => a < c /\ a + 1 \in 1..b
    OBVIOUS
  <2>4. recs[k].start < Len(t) /\ recs[k].start + 1 \in 1..Len(s)
    BY <1>1, <2>1, <2>2, <2>3 DEF Begins
  <2>5. t[recs[k].start + 1] = s[recs[k].start + 1]
    BY <2>4 DEF Begins
  <2> QED BY <2>2, <2>4, <2>5 DEF Item
<1> QED BY <1>2 DEF Calls

(* Records that give their messages the names the others do.               *)
LEMMA CallsSame ==
    ASSUME NEW recs, NEW mbx, NEW K, NEW L, Calls(recs, mbx, K),
           \A k \in DOMAIN recs : Named(L, recs[k].luid) = Named(K, recs[k].luid)
    PROVE  Calls(recs, mbx, L)
BY DEF Calls

LEMMA CallsMore ==
    ASSUME NEW recs \in Seq(Record), NEW mbx, NEW K, NEW r \in Record,
           Calls(recs, mbx, K), r.start < Len(mbx),
           Named(K, r.luid) = {Item(r, mbx)},
           \A k \in DOMAIN recs : recs[k].luid # r.luid
    PROVE  Calls(Append(recs, r), mbx, K)
<1> DEFINE R == Append(recs, r)
           n == Len(recs)
<1>1. /\ R \in Seq(Record) /\ Len(R) = n + 1 /\ n \in Nat /\ DOMAIN recs = 1..n
      /\ \A i \in 1..n : R[i] = recs[i]
      /\ R[n + 1] = r
  BY AtEnd
<1>2. DOMAIN R = 1..(n + 1)
  BY <1>1, LenProperties
<1> HIDE DEF R, n
<1>3. \A i \in DOMAIN R : \/ i \in DOMAIN recs /\ R[i] = recs[i]
                          \/ i = n + 1 /\ R[i] = r
  BY <1>1, <1>2
<1>4. \A k \in DOMAIN R : R[k].start < Len(mbx) /\ Named(K, R[k].luid) = {Item(R[k], mbx)}
  BY <1>3 DEF Calls
<1>5. \A i, j \in DOMAIN R : i # j => R[i].luid # R[j].luid
  BY <1>3 DEF Calls
<1>6. Calls(R, mbx, K)
  BY <1>4, <1>5 DEF Calls
<1> QED BY <1>6 DEF R

(* What no local UID is yet.                                               *)
LEMMA NoneNamed ==
    ASSUME NEW K, NEW n \in Nat, NEW u \in Nat, Below(K, n), n <= u
    PROVE  Named(K, u) = {}
<1> SUFFICES ASSUME NEW p \in K, p[1] = u PROVE FALSE
  BY DEF Named
<1>1. p[1] \in Nat /\ p[1] < n
  BY DEF Below
<1> QED BY <1>1

LEMMA CalledBelow ==
    ASSUME NEW recs \in Seq(Record), NEW mbx, NEW K, NEW n \in Nat,
           Below(K, n), Calls(recs, mbx, K), NEW k \in DOMAIN recs
    PROVE  recs[k].luid < n
<1>1. recs[k].luid \in Nat
  BY RecordAt
<1>2. Item(recs[k], mbx) \in Named(K, recs[k].luid)
  BY DEF Calls
<1>3. Item(recs[k], mbx) \in K
  BY <1>2 DEF Named
<1>4. Item(recs[k], mbx)[1] = recs[k].luid
  BY DEF Item
<1>5. Item(recs[k], mbx)[1] < n
  BY <1>3 DEF Below
<1> QED BY <1>4, <1>5

(* What a cache shows of records that are, with others, described.         *)
LEMMA DescribesShows ==
    ASSUME NEW recs \in Seq(Record), NEW more \in Seq(Record), Begins(more, recs),
           NEW s \in Seq(Text), NEW t \in Seq(Text), Begins(t, s),
           NEW mbc, NEW cached \in Seq(Entry), NEW M, Describes(more, s, cached, M),
           \A k \in DOMAIN mbc : mbc[k] \in {cached[k], Blank}
    PROVE  Shows(recs, t, mbc)
<1>1. /\ Len(recs) \in Nat /\ Len(more) \in Nat /\ Len(s) \in Nat
      /\ DOMAIN recs = 1..Len(recs) /\ DOMAIN more = 1..Len(more)
  BY LenProperties
<1>2. \A k \in DOMAIN recs : k \in DOMAIN more /\ recs[k] = more[k]
  BY <1>1 DEF Begins
<1>3. \A i, j \in DOMAIN recs : i < j => recs[i].start < recs[j].start
  BY <1>2 DEF Describes
<1>4. \A k \in DOMAIN recs : recs[k].cache = k - 1
  BY <1>2 DEF Describes
<1>5. ASSUME NEW k \in DOMAIN recs
      PROVE  cached[k] = t[recs[k].start + 1]
  <2>1. recs[k].start \in Nat
    BY RecordAt
  <2>2. recs[k].start < Len(s) /\ cached[k] = s[recs[k].start + 1]
    BY <1>2 DEF Describes
  <2>3. \A a, b \in Nat : a < b => a + 1 \in 1..b
    OBVIOUS
  <2>4. recs[k].start + 1 \in 1..Len(s)
    BY <1>1, <2>1, <2>2, <2>3
  <2>5. t[recs[k].start + 1] = s[recs[k].start + 1]
    BY <2>4 DEF Begins
  <2> QED BY <2>2, <2>5
<1>6. \A k \in DOMAIN recs \cap DOMAIN mbc : mbc[k] \in {t[recs[k].start + 1], Blank}
  BY <1>5
<1> QED BY <1>3, <1>4, <1>6 DEF Shows

LEMMA BeginsItself ==
    ASSUME NEW S, NEW s \in Seq(S)
    PROVE  Begins(s, s)
BY LenProperties DEF Begins

-----------------------------------------------------------------------------
(* Recovering the records: each time a text occurs it is another message.  *)
LEMMA OccursLater ==
    ASSUME NEW s, NEW i \in Nat, NEW j \in Nat, 0 < i, i < j, s[i] = s[j]
    PROVE  Occurrence(s, i) # Occurrence(s, j)
<1> DEFINE A == {q \in 1..i : s[q] = s[i]}
           B == {q \in 1..j : s[q] = s[j]}
<1>1. A \subseteq B
  <2>1. 1..i \subseteq 1..j
    OBVIOUS
  <2> QED BY <2>1
<1>2. j \in B /\ j \notin A
  OBVIOUS
<1>3. IsFiniteSet(1..j)
  BY FS_Interval
<1>4. IsFiniteSet(B)
  BY <1>3, FS_Subset
<1>5. Occurrence(s, i) = Cardinality(A) /\ Occurrence(s, j) = Cardinality(B)
  BY DEF Occurrence
<1> HIDE DEF A, B
<1>6. A # B
  BY <1>2
<1>7. Cardinality(A) # Cardinality(B)
  BY <1>1, <1>4, <1>6, FS_Subset
<1> QED BY <1>5, <1>7

LEMMA OccursOnce ==
    ASSUME NEW s, NEW n \in Nat, NEW i \in 1..n, NEW j \in 1..n, s[i] = s[j],
           Occurrence(s, i) = Occurrence(s, j)
    PROVE  i = j
<1>1. i \in Nat /\ j \in Nat /\ 0 < i /\ 0 < j
  OBVIOUS
<1>2. ~(i < j)
  BY <1>1, OccursLater
<1>3. ~(j < i)
  BY <1>1, OccursLater
<1> QED BY <1>1, <1>2, <1>3

(* As many records as messages, in their order, are one behind the other.  *)
LEMMA DenseStarts ==
    ASSUME NEW recs \in Seq(Record),
           \A i, j \in DOMAIN recs : i < j => recs[i].start < recs[j].start,
           \A k \in DOMAIN recs : recs[k].start < Len(recs)
    PROVE  \A k \in DOMAIN recs : recs[k].start = k - 1
<1> DEFINE n == Len(recs)
           o(k) == recs[k].start
           low == {k \in 1..n : o(k) < k - 1}
           high == {k \in 1..n : o(k) > k - 1}
           far  == {n - k : k \in high}
<1>1. n \in Nat /\ DOMAIN recs = 1..n /\ \A k \in 1..n : o(k) \in Nat
  <2>1. n \in Nat /\ DOMAIN recs = 1..n
    BY LenProperties
  <2> QED BY <2>1, RecordAt
<1>2. /\ \A i, j \in 1..n : i < j => o(i) < o(j)
      /\ \A k \in 1..n : o(k) < n
  BY <1>1
<1> HIDE DEF n, o
<1>3. low = {}
  <2> SUFFICES ASSUME low # {} PROVE FALSE
    OBVIOUS
  <2>1. low \subseteq Nat
    OBVIOUS
  <2>2. PICK k \in low : \A y \in low : k <= y
    BY <2>1, Least
  <2>3. k \in 1..n /\ o(k) < k - 1 /\ o(k) \in Nat
    BY <1>1, <2>2
  <2>4. k - 1 \in 1..n /\ k - 1 < k
    BY <1>1, <2>3
  <2>5. k - 1 \notin low
    BY <2>2, <2>3, <2>4
  <2>6. o(k - 1) < o(k) /\ o(k - 1) \in Nat
    BY <1>1, <1>2, <2>3, <2>4
  <2>7. ~(o(k - 1) < k - 1 - 1)
    BY <2>4, <2>5
  <2> QED BY <2>3, <2>6, <2>7
<1>4. high = {}
  <2> SUFFICES ASSUME high # {} PROVE FALSE
    OBVIOUS
  <2>1. far \subseteq Nat /\ far # {}
    BY <1>1
  <2>2. PICK x \in far : \A y \in far : x <= y
    BY <2>1, Least
  <2>3. PICK k \in high : x = n - k
    BY <2>2
  <2>4. k \in 1..n /\ o(k) \in Nat /\ o(k) < n /\ o(k) > k - 1
    BY <1>1, <1>2, <2>3
  <2>5. k + 1 \in 1..n /\ k < k + 1
    BY <1>1, <2>4
  <2>6. o(k) < o(k + 1) /\ o(k + 1) \in Nat
    BY <1>1, <1>2, <2>4, <2>5
  <2>7. o(k + 1) > (k + 1) - 1
    BY <2>4, <2>5, <2>6
  <2>8. k + 1 \in high
    BY <2>5, <2>7
  <2>9. n - (k + 1) \in far
    BY <2>8
  <2>10. n - k <= n - (k + 1)
    BY <2>2, <2>3, <2>9
  <2> QED BY <1>1, <2>4, <2>10
<1>5. ASSUME NEW k \in 1..n PROVE o(k) = k - 1
  <2>1. ~(o(k) < k - 1)
    BY <1>3
  <2>2. ~(o(k) > k - 1)
    BY <1>4
  <2> QED BY <1>1, <2>1, <2>2
<1> QED BY <1>1, <1>5 DEF o

LEMMA BlankIsNoText == Blank \notin Text
BY LocalMailboxAssumption DEF Text, Blank, Torn

(* What is shown of a record when there are as many as messages.           *)
LEMMA ShownRight ==
    ASSUME FInv, Len(fs.mbx) = Len(fs.mbi.recs),
           Calls(fs.mbi.recs, fs.mbx, known), Shows(fs.mbi.recs, fs.mbx, fs.mbc),
           NEW k \in DOMAIN fs.mbi.recs
    PROVE  Shown(fs.mbi.recs[k]) \in {fs.mbx[fs.mbi.recs[k].start + 1], Blank}
<1> DEFINE recs == fs.mbi.recs
           n == Len(recs)
<1>1. recs \in Seq(Record) /\ fs.mbc \in Seq(Entry) /\ fs.mbx \in Seq(Text)
  BY Quoted
<1>2. /\ n \in Nat /\ DOMAIN recs = 1..n /\ k \in 1..n
      /\ DOMAIN fs.mbc = 1..Len(fs.mbc) /\ Len(fs.mbc) \in Nat
  BY <1>1, LenProperties
<1>3. recs[k].cache = k - 1
  BY DEF Shows
<1>4. recs[k].cache + 1 = k /\ (recs[k].cache < Len(fs.mbc) <=> k \in DOMAIN fs.mbc)
  BY <1>2, <1>3
<1>5. Shown(recs[k]) = IF k \in DOMAIN fs.mbc THEN fs.mbc[k] ELSE Blank
  BY <1>4 DEF Shown
<1>6. CASE fs.mbc = fs.mbx
  <2>1. \A i \in DOMAIN recs : recs[i].start < n
    BY DEF Calls
  <2>2. \A i, j \in DOMAIN recs : i < j => recs[i].start < recs[j].start
    BY DEF Shows
  <2>3. recs[k].start = k - 1
    BY <1>1, <2>1, <2>2, DenseStarts
  <2>4. recs[k].start + 1 = k
    BY <1>2, <2>3
  <2> QED BY <1>5, <1>6, <2>4
<1>7. CASE fs.mbc # fs.mbx
  BY <1>5, <1>7 DEF Shows
<1> QED BY <1>6, <1>7

LEMMA RecoveredCalls ==
    ASSUME IInv, FInv, ReconstructRecover,
           Calls(fs.mbi.recs, fs.mbx, known), Shows(fs.mbi.recs, fs.mbx, fs.mbc)
    PROVE  Calls(Reconstructed.recs, fs.mbx, known)
<1> DEFINE n == Len(fs.mbx)
           recs == fs.mbi.recs
           at(j) == CHOOSE k \in Match(recs, j) : TRUE
           R == InOrder(n, [j \in 1..n |-> recs[at(j)].deleted],
                           [j \in 1..n |-> recs[at(j)].luid])
           seen == [k \in DOMAIN recs |-> Shown(recs[k])]
<1>1. /\ IsIndex(fs.mbi) /\ recs \in Seq(Record) /\ Len(recs) \in Nat
      /\ n \in Nat /\ fs.mbi.size \in Nat /\ fs.mbx \in Seq(Text) /\ DOMAIN fs.mbx = 1..n
  BY Quoted, IndexTypes, LenProperties DEF IInv, Disk
<1>2. fs.mbi.size = Len(recs) /\ n = Len(recs)
  BY <1>1 DEF ReconstructRecover, Whole, IsIndex
<1>3. Records(fs.mbi) = recs
  BY <1>1, <1>2, RecordsOf
<1>4. Reconstructed.recs = R
  BY <1>3 DEF ReconstructRecover, Reconstructed, Index
<1>5. ASSUME NEW j \in 1..n
      PROVE  /\ at(j) \in DOMAIN recs /\ Shown(recs[at(j)]) = fs.mbx[j]
             /\ Occurrence(seen, at(j)) = Occurrence(fs.mbx, j)
  <2>1. Match(recs, j) # {}
    BY <1>1, <1>3 DEF ReconstructRecover
  <2>2. at(j) \in Match(recs, j)
    BY <2>1
  <2>3. Match(recs, j) = {k \in DOMAIN recs : /\ seen[k] = fs.mbx[j]
                                              /\ Occurrence(seen, k) = Occurrence(fs.mbx, j)}
    BY DEF Match
  <2> HIDE DEF at
  <2>4. /\ at(j) \in DOMAIN recs /\ seen[at(j)] = fs.mbx[j]
        /\ Occurrence(seen, at(j)) = Occurrence(fs.mbx, j)
    BY <2>2, <2>3
  <2> QED BY <2>4
<1>6. \A j \in 1..n : R[j] = [start |-> j - 1, cache |-> j - 1,
                              deleted |-> recs[at(j)].deleted, luid |-> recs[at(j)].luid]
  BY DEF InOrder
<1>7. DOMAIN R = 1..n
  BY DEF InOrder
<1> HIDE DEF R, at, recs, n
<1>8. ASSUME NEW j \in 1..n
      PROVE  /\ R[j].start < n /\ R[j].luid = recs[at(j)].luid
             /\ Named(known, R[j].luid) = {Item(R[j], fs.mbx)}
  <2>1. /\ R[j].start = j - 1 /\ R[j].luid = recs[at(j)].luid
        /\ R[j].deleted = recs[at(j)].deleted
    <3>1. PICK d, u : d = recs[at(j)].deleted /\ u = recs[at(j)].luid
      OBVIOUS
    <3>2. R[j] = [start |-> j - 1, cache |-> j - 1, deleted |-> d, luid |-> u]
      BY <1>6, <3>1
    <3> QED BY <3>1, <3>2
  <2>2. j - 1 < n /\ R[j].start + 1 = j
    BY <1>1, <2>1
  <2>3. Shown(recs[at(j)]) \in {fs.mbx[recs[at(j)].start + 1], Blank}
    BY <1>2, <1>5, ShownRight DEF recs, n
  <2>4. Shown(recs[at(j)]) = fs.mbx[j] /\ fs.mbx[j] \in Text
    BY <1>1, <1>5, ElementOfSeq DEF n
  <2>5. fs.mbx[recs[at(j)].start + 1] = fs.mbx[j]
    BY <2>3, <2>4, BlankIsNoText
  <2>6. Named(known, recs[at(j)].luid) = {Item(recs[at(j)], fs.mbx)}
    BY <1>5 DEF Calls, recs
  <2> QED BY <2>1, <2>2, <2>5, <2>6 DEF Item
<1>9. ASSUME NEW i \in 1..n, NEW j \in 1..n, R[i].luid = R[j].luid
      PROVE  i = j
  <2>1. recs[at(i)].luid = recs[at(j)].luid /\ at(i) \in DOMAIN recs /\ at(j) \in DOMAIN recs
    BY <1>5, <1>8, <1>9
  <2>2. at(i) = at(j)
    BY <2>1 DEF Calls, recs
  <2>3. fs.mbx[i] = fs.mbx[j] /\ Occurrence(fs.mbx, i) = Occurrence(fs.mbx, j)
    BY <1>5, <2>2
  <2> QED BY <1>1, <2>3, OccursOnce
<1>10. Calls(R, fs.mbx, known)
  BY <1>7, <1>8, <1>9 DEF Calls, n
<1> QED BY <1>4, <1>10 DEF recs

-----------------------------------------------------------------------------
(* Appending.  Nothing is said of files at rest, nor of those that are to  *)
(* replace others, while the mailbox is in use.                            *)
LEMMA UsedOnly ==
    ASSUME pc' \in InUse
    PROVE  AtRest' /\ Rebuilt' /\ Expunging'
<1>1. pc' \notin Resting /\ pc' \notin Rebuilding /\ pc' # "expunge"
  BY DEF InUse, Resting, Rebuilding, Unflushed, Flushed
<1> QED BY <1>1 DEF AtRest, Rebuilt, Expunging

LEMMA IndexedTypes ==
    ASSUME FInv, pc \in InUse
    PROVE  /\ Indexed \in Seq(Text)
           /\ pc \notin {"text", "entry", "cache", "rollback"} => Indexed = fs.mbx
           /\ pc \in Unflushed \cup Flushed => Holds(Indexed)
           /\ pc = "idle" => "mbx" \in fs.there
<1>1. fs.mbx \in Seq(Text) /\ (pc = "rollback" => fs.new.mbx \in Seq(Text))
  BY Quoted DEF FInv, FileTypes, Made1
<1>2. pc \in {"text", "entry", "cache"} => Front(fs.mbx) \in Seq(Text)
  BY <1>1, BeforeEnd DEF FInv, Stored
<1>3. Indexed \in Seq(Text)
  BY <1>1, <1>2 DEF Indexed
<1> QED BY <1>3 DEF FInv, Stored, Indexed

(* Texts at the end of the mailbox file change nothing that is named.      *)
LEMMA PendingLonger ==
    ASSUME FInv, late # << >>, pc \in Unflushed \cup Flushed,
           NEW t, Begins(t, Indexed)
    PROVE  Item(late[1], t) = Item(late[1], Indexed)
<1>1. Holds(Indexed) /\ Len(Indexed) \in Nat
  BY IndexedTypes, LenProperties DEF InUse
<1>2. late[1].start \in Nat /\ late[1].start < Len(Indexed)
  BY <1>1, Quoted DEF Holds
<1>3. \A a, b \in Nat : a < b => a + 1 \in 1..b
  OBVIOUS
<1>4. late[1].start + 1 \in 1..Len(Indexed)
  BY <1>1, <1>2, <1>3
<1> QED BY <1>4 DEF Begins, Item

(* A step that goes on with an append, as far as the names are concerned.  *)
LEMMA GoesOn ==
    ASSUME FInv, UInv, pc \in Unflushed \cup Flushed, pc' \in Unflushed \cup Flushed,
           pc \notin {"cache", "next", "stop"}, pc' \notin {"cache", "next"},
           pc' \in Told => pc \in Told, pc' \in Untold => pc \in Untold,
           fs'.mbi.recs = fs.mbi.recs, fs'.mbi.next = fs.mbi.next,
           fs'.mbi.valid = fs.mbi.valid,
           pc' # "stop" => fs'.mbc = fs.mbc,
           Indexed' \in Seq(Text), Begins(Indexed', Indexed),
           late' = late, known' = known, trusted' = trusted, astray' = astray,
           pc' = "rollback" /\ moves' = <<Out("mbx"), In("mbx"), Drop>> =>
             fs'.new.mbx = Front(fs'.mbx)
    PROVE  UInv'
<1>1. AtRest' /\ Rebuilt' /\ Expunging' /\ pc' # "expunge"
  <2>1. pc' \in InUse /\ pc' # "expunge"
    BY DEF InUse, Unflushed, Flushed
  <2> QED BY <2>1, UsedOnly
<1>2. Numbered'
  BY <1>1 DEF UInv, Numbered
<1>3. AtWork'
  <2> SUFFICES ASSUME ~astray
               PROVE  /\ Calls(fs.mbi.recs, Indexed', known)
                      /\ late # << >> =>
                           \A k \in DOMAIN fs.mbi.recs : fs.mbi.recs[k].luid # late[1].luid
    BY DEF AtWork
  <2>1. /\ Calls(fs.mbi.recs, Indexed, known)
        /\ late # << >> =>
             \A k \in DOMAIN fs.mbi.recs : fs.mbi.recs[k].luid # late[1].luid
    BY DEF UInv, AtWork, InUse
  <2>2. Indexed \in Seq(Text) /\ fs.mbi.recs \in Seq(Record)
    BY IndexedTypes, Quoted DEF InUse
  <2>3. Calls(fs.mbi.recs, Indexed', known)
    BY <2>1, <2>2, CallsLonger
  <2> QED BY <2>1, <2>3
<1>4. Pending'
  <2>1. ASSUME late # << >>
        PROVE  /\ late[1].luid < fs.mbi.next
               /\ Named(known, late[1].luid) \subseteq {Item(late[1], Indexed')}
               /\ pc' \in Told => Named(known, late[1].luid) # {}
               /\ pc' \in Untold => Named(known, late[1].luid) = {}
               /\ pc' # "stop" => fs'.mbc[Len(fs'.mbc)] = Blank
    <3>1. Item(late[1], Indexed') = Item(late[1], Indexed)
      BY <2>1, PendingLonger
    <3> QED BY <2>1, <3>1 DEF UInv, Pending
  <2> QED BY <2>1 DEF Pending
<1> QED BY <1>1, <1>2, <1>3, <1>4 DEF UInv

LEMMA WriteTextUIDs == ASSUME IInv, FInv, UInv, WriteText PROVE UInv'
<1>1. /\ pc = "write" /\ pc' = "text" /\ Write("mbx", Append(fs.mbx, Torn))
      /\ late' = late /\ known' = known /\ trusted' = trusted /\ astray' = astray
  BY DEF WriteText, auxVars
<1>2. /\ fs'.mbx = Append(fs.mbx, Torn) /\ fs'.mbc = fs.mbc /\ fs'.mbi = fs.mbi
  BY <1>1, WrittenTo DEF Files, IInv, FInv
<1>3. fs.mbx \in Seq(Text) /\ Torn \in Text
  BY Quoted DEF Text
<1>4. Indexed = fs.mbx /\ Indexed' = fs.mbx
  <2>1. Front(Append(fs.mbx, Torn)) = fs.mbx
    BY <1>3, AtEnd
  <2> QED BY <1>1, <1>2, <2>1 DEF Indexed
<1>5. Begins(fs.mbx, fs.mbx)
  BY <1>3, BeginsItself
<1> QED BY <1>1, <1>2, <1>3, <1>4, <1>5, GoesOn DEF Unflushed, Told, Untold

LEMMA WriteRestUIDs == ASSUME IInv, FInv, UInv, WriteRest PROVE UInv'
<1> DEFINE m == CHOOSE x \in Unused : TRUE
           s == ReplaceAt(fs.mbx, Len(fs.mbx), m)
<1>1. /\ pc = "text" /\ pc' = "entry" /\ Write("mbx", s)
      /\ late' = late /\ known' = known /\ trusted' = trusted /\ astray' = astray
  BY DEF WriteRest, auxVars
<1>2. m \in Text
  <2>1. Unused # {}
    BY <1>1 DEF FInv, Stored
  <2> QED BY <2>1 DEF Unused, Text
<1> HIDE DEF m
<1>3. fs'.mbx = s /\ fs'.mbc = fs.mbc /\ fs'.mbi = fs.mbi
  BY <1>1, WrittenTo DEF Files, IInv, FInv
<1>4. fs.mbx \in Seq(Text) /\ Len(fs.mbx) > 0
  BY <1>1, Quoted DEF FInv, Stored
<1>5. Front(fs.mbx) \in Seq(Text) /\ s = Append(Front(fs.mbx), m)
  BY <1>2, <1>4, BeforeEnd, ReplacedAtEnd
<1> HIDE DEF s
<1>6. Front(s) = Front(fs.mbx)
  BY <1>2, <1>5, AtEnd
<1>7. Indexed = Front(fs.mbx) /\ Indexed' = Front(fs.mbx)
  BY <1>1, <1>3, <1>6 DEF Indexed
<1>8. Begins(Front(fs.mbx), Front(fs.mbx))
  BY <1>5, BeginsItself
<1> QED BY <1>1, <1>3, <1>5, <1>7, <1>8, GoesOn DEF Unflushed, Told, Untold

LEMMA WriteIndexSizeUIDs == ASSUME IInv, FInv, UInv, WriteIndexSize PROVE UInv'
<1> DEFINE size == 1 + IF open THEN Len(mIndexList) ELSE fs.mbi.size
<1>1. /\ pc = "header" /\ pc' = "appended" /\ Write("mbi", [fs.mbi EXCEPT !.size = size])
      /\ late' = late /\ known' = known /\ trusted' = trusted /\ astray' = astray
  BY DEF WriteIndexSize, auxVars
<1>2. fs.mbi \in MbxIndex /\ size \in Nat
  <2>1. fs.mbi.size \in Nat /\ Len(mIndexList) \in Nat /\ open \in BOOLEAN
    BY Quoted, IndexTypes DEF IInv, Control
  <2> QED BY <2>1, Quoted
<1> HIDE DEF size
<1>3. fs'.mbx = fs.mbx /\ fs'.mbc = fs.mbc /\ fs'.mbi = [fs.mbi EXCEPT !.size = size]
  BY <1>1, WrittenTo DEF Files, IInv, FInv
<1>4. /\ fs'.mbi.recs = fs.mbi.recs /\ fs'.mbi.next = fs.mbi.next
      /\ fs'.mbi.valid = fs.mbi.valid
  <2>1. \A n \in Nat : /\ [fs.mbi EXCEPT !.size = n].recs = fs.mbi.recs
                       /\ [fs.mbi EXCEPT !.size = n].next = fs.mbi.next
                       /\ [fs.mbi EXCEPT !.size = n].valid = fs.mbi.valid
    BY <1>2, IndexTypes
  <2> QED BY <1>2, <1>3, <2>1
<1>5. Indexed = fs.mbx /\ Indexed' = fs.mbx /\ fs.mbx \in Seq(Text)
  BY <1>1, <1>3, Quoted DEF Indexed
<1>6. Begins(fs.mbx, fs.mbx)
  BY <1>5, BeginsItself
<1> QED BY <1>1, <1>3, <1>4, <1>5, <1>6, GoesOn DEF Unflushed, Flushed, Told, Untold

LEMMA StopAppendUIDs == ASSUME IInv, FInv, UInv, StopAppend PROVE UInv'
<1>1. /\ pc \in {"write", "appended", "failed"} /\ pc' = "stop"
      /\ late' = late /\ known' = known /\ trusted' = trusted /\ astray' = astray
  BY DEF StopAppend, auxVars
<1>2. fs'.mbx = fs.mbx /\ fs'.mbi = fs.mbi
  <2>1. CASE late = << >>
    BY <2>1 DEF StopAppend
  <2>2. CASE late # << >>
    <3>1. Write("mbc", FlushedCache)
      BY <2>2 DEF StopAppend
    <3> QED BY <3>1, WrittenTo DEF Files, IInv, FInv
  <2> QED BY <2>1, <2>2
<1>3. Indexed = fs.mbx /\ Indexed' = fs.mbx /\ fs.mbx \in Seq(Text)
  BY <1>1, <1>2, Quoted DEF Indexed
<1>4. Begins(fs.mbx, fs.mbx)
  BY <1>3, BeginsItself
<1> QED BY <1>1, <1>2, <1>3, <1>4, GoesOn DEF Unflushed, Told, Untold

LEMMA RollbackAppendUIDs == ASSUME IInv, FInv, UInv, RollbackAppend PROVE UInv'
<1> DEFINE F == Front(fs.mbx)
<1>1. /\ pc = "text" /\ pc' \in {"rollback", "failed"}
      /\ late' = late /\ known' = known /\ trusted' = trusted /\ astray' = astray
  BY DEF RollbackAppend, auxVars
<1>2. /\ fs'.mbx = fs.mbx /\ fs'.mbc = fs.mbc /\ fs'.mbi = fs.mbi
      /\ pc' = "rollback" => fs'.new.mbx = F
  <2>1. CASE pc' = "rollback"
    <3>1. fs' = [fs EXCEPT !.new = [mbx |-> F]]
      BY <2>1 DEF RollbackAppend
    <3> QED BY <3>1 DEF IInv, Disk
  <2>2. CASE pc' = "failed"
    BY <2>2 DEF RollbackAppend
  <2> QED BY <1>1, <2>1, <2>2
<1>3. fs.mbx \in Seq(Text) /\ Len(fs.mbx) > 0
  BY <1>1, Quoted DEF FInv, Stored
<1>4. /\ F \in Seq(Text) /\ Len(F) = Len(fs.mbx) - 1 /\ Len(fs.mbx) \in Nat
      /\ \A i \in 1..(Len(fs.mbx) - 1) : F[i] = fs.mbx[i]
  BY <1>3, BeforeEnd
<1>5. Indexed = F /\ Indexed' = IF pc' = "rollback" THEN F ELSE fs.mbx
  BY <1>1, <1>2 DEF Indexed
<1> HIDE DEF F
<1>6. Begins(F, F) /\ Begins(fs.mbx, F)
  BY <1>4, BeginsItself DEF Begins
<1>7. pc' = "rollback" => fs'.new.mbx = Front(fs'.mbx)
  BY <1>2 DEF F
<1> QED BY <1>1, <1>2, <1>3, <1>4, <1>5, <1>6, <1>7, GoesOn DEF Unflushed, Told, Untold

LEMMA RollbackMovesUIDs ==
    ASSUME IInv, FInv, UInv, RenameFile, pc = "rollback"
    PROVE  UInv'
<1>1. /\ pc' = pc /\ moves' = Tail(moves) /\ moves # << >>
      /\ late' = late /\ known' = known /\ trusted' = trusted /\ astray' = astray
  BY DEF RenameFile, auxVars
<1>2. fs.new.mbx \in Seq(Text) /\ "mbx" \in Files
  BY DEF FInv, FileTypes, Made1, Files
<1>3. /\ fs'.new = fs.new /\ fs'.mbc = fs.mbc /\ fs'.mbi = fs.mbi
      /\ moves' # <<Out("mbx"), In("mbx"), Drop>>
  <2>1. CASE moves = <<Out("mbx"), In("mbx"), Drop>>
    <3>1. Head(moves) = Out("mbx") /\ Tail(moves) = <<In("mbx"), Drop>>
      BY <2>1
    <3> QED BY <1>1, <1>2, <3>1, AwayIs
  <2>2. CASE moves = <<In("mbx"), Drop>>
    <3>1. Head(moves) = In("mbx") /\ Tail(moves) = <<Drop>>
      BY <2>2
    <3>2. fs'.new = fs.new /\ fs'.mbc = fs.mbc /\ fs'.mbi = fs.mbi
      BY <1>1, <1>2, <3>1, ArrivesIs
    <3>3. moves' # <<Out("mbx"), In("mbx"), Drop>>
      BY <1>1, <3>1
    <3> QED BY <3>2, <3>3
  <2>3. CASE moves = <<Drop>>
    <3>1. Head(moves) = Drop /\ Tail(moves) = << >>
      BY <2>3
    <3> QED BY <1>1, <3>1, DropIs
  <2> QED BY <1>1, <2>1, <2>2, <2>3 DEF FInv, Moved
<1>4. Indexed = fs.new.mbx /\ Indexed' = fs.new.mbx
  BY <1>1, <1>3 DEF Indexed
<1>5. Begins(fs.new.mbx, fs.new.mbx)
  BY <1>2, BeginsItself
<1> QED BY <1>1, <1>2, <1>3, <1>4, <1>5, GoesOn DEF Unflushed, Told, Untold

LEMMA RolledBackUIDs == ASSUME IInv, FInv, UInv, RolledBack PROVE UInv'
<1>1. /\ pc = "rollback" /\ moves = << >> /\ pc' = "failed"
      /\ late' = late /\ known' = known /\ trusted' = trusted /\ astray' = astray
  BY DEF RolledBack, auxVars
<1>2. fs'.mbx = fs.mbx /\ fs'.mbc = fs.mbc /\ fs'.mbi = fs.mbi
  BY DEF RolledBack, IInv, Disk
<1>3. fs.mbx = fs.new.mbx /\ fs.mbx \in Seq(Text)
  <2>1. << >> # <<Out("mbx"), In("mbx"), Drop>> /\ << >> # <<In("mbx"), Drop>>
    OBVIOUS
  <2> QED BY <1>1, <2>1, Quoted DEF FInv, Moved
<1>4. Indexed = fs.mbx /\ Indexed' = fs.mbx
  BY <1>1, <1>2, <1>3 DEF Indexed
<1>5. Begins(fs.mbx, fs.mbx)
  BY <1>3, BeginsItself
<1> QED BY <1>1, <1>2, <1>3, <1>4, <1>5, GoesOn DEF Unflushed, Told, Untold

LEMMA ReadIndexHeaderUIDs == ASSUME IInv, FInv, UInv, ReadIndexHeader PROVE UInv'
<1>1. /\ pc = "entry" /\ pc' = "cache"
      /\ late' = late /\ known' = known /\ trusted' = trusted /\ astray' = astray
  BY DEF ReadIndexHeader, auxVars
<1>2. fs.mbi \in MbxIndex /\ fs.mbi.recs \in Seq(Record) /\ late \in Seq(Record)
  BY Quoted
<1>3. /\ fs'.mbx = fs.mbx /\ fs'.mbc = fs.mbc
      /\ fs'.mbi.next = fs.mbi.next /\ fs'.mbi.valid = fs.mbi.valid
      /\ late = << >> => fs'.mbi.recs = fs.mbi.recs
      /\ late # << >> => fs'.mbi.recs = Append(fs.mbi.recs, late[1])
  <2>1. CASE late = << >>
    <3>1. fs' = fs
      BY <2>1 DEF ReadIndexHeader
    <3> QED BY <2>1, <3>1
  <2>2. CASE late # << >>
    <3> DEFINE recs == fs.mbi.recs \o late
    <3>1. fs' = [fs EXCEPT !.mbi = [fs.mbi EXCEPT !.recs = recs]]
      BY <2>2 DEF ReadIndexHeader, Overtake, FlushedIndex
    <3>2. recs \in Seq(Record)
      BY <1>2, ConcatProperties
    <3>3. recs = Append(fs.mbi.recs, late[1])
      BY <2>2, Quoted
    <3> HIDE DEF recs
    <3>4. /\ fs'.mbx = fs.mbx /\ fs'.mbc = fs.mbc
          /\ fs'.mbi = [fs.mbi EXCEPT !.recs = recs]
      BY <3>1 DEF IInv, Disk
    <3>5. \A r \in Seq(Record) : /\ [fs.mbi EXCEPT !.recs = r].recs = r
                                 /\ [fs.mbi EXCEPT !.recs = r].next = fs.mbi.next
                                 /\ [fs.mbi EXCEPT !.recs = r].valid = fs.mbi.valid
      BY <1>2, IndexTypes
    <3> QED BY <2>2, <3>2, <3>3, <3>4, <3>5
  <2> QED BY <2>1, <2>2
<1>4. Indexed' = Indexed /\ pc' \in InUse /\ pc' # "expunge"
  BY <1>1, <1>3 DEF Indexed, InUse, Flushed
<1>5. Numbered'
  BY <1>1, <1>3 DEF UInv, Numbered
<1>6. AtWork'
  <2> SUFFICES ASSUME ~astray
               PROVE  Calls(fs'.mbi.recs, Indexed, known)
    BY <1>1, <1>4 DEF AtWork
  <2>1. /\ Calls(fs.mbi.recs, Indexed, known)
        /\ late # << >> =>
             \A k \in DOMAIN fs.mbi.recs : fs.mbi.recs[k].luid # late[1].luid
    BY <1>1 DEF UInv, AtWork, InUse, Unflushed
  <2>2. CASE late = << >>
    BY <1>3, <2>1, <2>2
  <2>3. CASE late # << >>
    <3>1. late[1] \in Record
      BY <2>3, Quoted
    <3>2. late[1].start < Len(Indexed)
      BY <1>1, <2>3 DEF FInv, Stored, Unflushed, Holds
    <3>3. Named(known, late[1].luid) = {Item(late[1], Indexed)}
      <4>1. /\ Named(known, late[1].luid) \subseteq {Item(late[1], Indexed)}
            /\ Named(known, late[1].luid) # {}
        BY <1>1, <2>3 DEF UInv, Pending, Told
      <4> QED BY <4>1
    <3> QED BY <1>2, <1>3, <2>1, <2>3, <3>1, <3>2, <3>3, CallsMore
  <2> QED BY <2>2, <2>3
<1>7. Pending'
  BY <1>1, <1>3, <1>4 DEF UInv, Pending, Told, Untold
<1> QED BY <1>4, <1>5, <1>6, <1>7, UsedOnly DEF UInv

LEMMA WriteEntryUIDs == ASSUME IInv, FInv, UInv, WriteEntry PROVE UInv'
<1> DEFINE r == [start |-> Len(fs.mbx) - 1, cache |-> Len(fs.mbc),
                 deleted |-> FALSE, luid |-> fs.mbi.next]
<1>1. /\ pc = "cache" /\ pc' = "next" /\ Write("mbc", Append(FlushedCache, Blank))
      /\ late' = <<r>> /\ known' = known /\ trusted' = trusted /\ astray' = astray
  BY DEF WriteEntry, auxVars
<1>2. /\ fs'.mbx = fs.mbx /\ fs'.mbc = Append(FlushedCache, Blank) /\ fs'.mbi = fs.mbi
  BY <1>1, WrittenTo DEF Files, IInv, FInv
<1>3. /\ fs.mbx \in Seq(Text) /\ Len(fs.mbx) > 0 /\ fs.mbi.recs \in Seq(Record)
      /\ fs.mbi.next \in Nat /\ fs.mbi.valid
  BY <1>1, Quoted, IndexTypes DEF FInv, Stored, Older, Flushed, Readable
<1>4. late'[1].luid = fs.mbi.next /\ late' # << >>
  BY <1>1
<1>5. fs'.mbc[Len(fs'.mbc)] = Blank
  <2>1. FlushedCache \in Seq(Entry)
    <3>1. CASE late = << >>
      BY <3>1, Quoted DEF FlushedCache
    <3>2. CASE late # << >>
      <4>1. Holds(fs.mbx) /\ Len(fs.mbc) > 0
        BY <1>1, <3>2 DEF FInv, Stored, Texts, Flushed
      <4> QED BY <3>2, <4>1, CachedAtEnd
    <3> QED BY <3>1, <3>2
  <2>2. Blank \in Entry
    BY DEF Entry
  <2> HIDE DEF r
  <2>3. /\ Append(FlushedCache, Blank)[Len(FlushedCache) + 1] = Blank
        /\ Len(Append(FlushedCache, Blank)) = Len(FlushedCache) + 1
    BY <2>1, <2>2, AtEnd
  <2> QED BY <1>2, <2>3
<1> HIDE DEF r
<1>6. Indexed = Front(fs.mbx) /\ Indexed' = fs.mbx /\ pc' \in InUse /\ pc' # "expunge"
  BY <1>1, <1>2 DEF Indexed, InUse, Flushed
<1>7. Front(fs.mbx) \in Seq(Text) /\ Begins(fs.mbx, Front(fs.mbx))
  <2>1. /\ Front(fs.mbx) \in Seq(Text) /\ Len(Front(fs.mbx)) = Len(fs.mbx) - 1
        /\ Len(fs.mbx) \in Nat
        /\ \A i \in 1..(Len(fs.mbx) - 1) : Front(fs.mbx)[i] = fs.mbx[i]
    BY <1>3, BeforeEnd
  <2> QED BY <2>1 DEF Begins
<1>8. Below(known, fs.mbi.next)
  BY <1>3 DEF UInv, Numbered
<1>9. Named(known, fs.mbi.next) = {}
  BY <1>3, <1>8, NoneNamed
<1>10. Numbered'
  BY <1>1, <1>2, <1>6 DEF UInv, Numbered
<1>11. AtWork'
  <2> SUFFICES ASSUME ~astray
               PROVE  /\ Calls(fs.mbi.recs, fs.mbx, known)
                      /\ \A k \in DOMAIN fs.mbi.recs : fs.mbi.recs[k].luid # fs.mbi.next
    BY <1>1, <1>2, <1>4, <1>6 DEF AtWork
  <2>1. Calls(fs.mbi.recs, Front(fs.mbx), known)
    BY <1>1, <1>6 DEF UInv, AtWork, InUse, Flushed
  <2>2. Calls(fs.mbi.recs, fs.mbx, known)
    BY <1>3, <1>7, <2>1, CallsLonger
  <2>3. ASSUME NEW k \in DOMAIN fs.mbi.recs
        PROVE  fs.mbi.recs[k].luid # fs.mbi.next
    <3>1. fs.mbi.recs[k].luid < fs.mbi.next
      BY <1>3, <1>8, <2>2, CalledBelow
    <3>2. fs.mbi.recs[k].luid \in Nat
      BY <1>3, RecordAt
    <3> QED BY <1>3, <3>1, <3>2
  <2> QED BY <2>2, <2>3
<1>12. Pending'
  BY <1>1, <1>2, <1>4, <1>5, <1>9 DEF Pending, Told, Untold
<1> QED BY <1>6, <1>10, <1>11, <1>12, UsedOnly DEF UInv

LEMMA WriteLocalUIDNextUIDs == ASSUME IInv, FInv, UInv, WriteLocalUIDNext PROVE UInv'
<1>1. /\ pc = "next" /\ pc' = "header"
      /\ late' = late /\ known' = known /\ trusted' = trusted /\ astray' = astray
      /\ fs' = [fs EXCEPT !.mbi = [fs.mbi EXCEPT !.next = @ + 1]]
  BY DEF WriteLocalUIDNext, Overtake, auxVars
<1>2. fs.mbi \in MbxIndex /\ fs.mbi.next \in Nat /\ fs.mbi.next + 1 \in Nat
  BY Quoted, IndexTypes
<1>3. /\ fs'.mbx = fs.mbx /\ fs'.mbc = fs.mbc
      /\ fs'.mbi = [fs.mbi EXCEPT !.next = fs.mbi.next + 1]
  BY <1>1 DEF IInv, Disk
<1>4. /\ fs'.mbi.recs = fs.mbi.recs /\ fs'.mbi.next = fs.mbi.next + 1
      /\ fs'.mbi.valid = fs.mbi.valid
  <2>1. \A n \in Nat : /\ [fs.mbi EXCEPT !.next = n].recs = fs.mbi.recs
                       /\ [fs.mbi EXCEPT !.next = n].next = n
                       /\ [fs.mbi EXCEPT !.next = n].valid = fs.mbi.valid
    BY <1>2, IndexTypes
  <2> QED BY <1>2, <1>3, <2>1
<1>5. Indexed = fs.mbx /\ Indexed' = fs.mbx /\ pc' \in InUse /\ pc' # "expunge"
  BY <1>1, <1>3 DEF Indexed, InUse, Flushed
<1>6. Numbered'
  <2>1. ASSUME fs.mbi.valid, NEW p \in known
        PROVE  p[1] \in Nat /\ p[1] < fs.mbi.next + 1
    <3>1. p[1] \in Nat /\ p[1] < fs.mbi.next
      BY <2>1 DEF UInv, Numbered, Below
    <3> QED BY <1>2, <3>1
  <2> QED BY <1>1, <1>4, <1>5, <2>1 DEF UInv, Numbered, Below
<1>7. AtWork'
  BY <1>1, <1>4, <1>5 DEF UInv, AtWork, InUse, Flushed
<1>8. Pending'
  <2>1. late # << >> => late[1].luid = fs.mbi.next
    BY <1>1 DEF UInv, Pending
  <2>2. late # << >> => late[1].luid < fs.mbi.next + 1
    BY <1>2, <2>1
  <2> QED BY <1>1, <1>3, <1>4, <1>5, <2>2 DEF UInv, Pending, Told, Untold
<1> QED BY <1>5, <1>6, <1>7, <1>8, UsedOnly DEF UInv

(* The names once an append is reported.                                   *)
LEMMA AppendedNames ==
    ASSUME FInv, UInv, Appended, late # << >>, pc \in {"appended", "stop"}
    PROVE  /\ Named(known', late[1].luid) = {Item(late[1], fs.mbx)}
           /\ \A u : u # late[1].luid => Named(known', u) = Named(known, u)
           /\ Below(known, fs.mbi.next) => Below(known', fs.mbi.next)
<1> DEFINE it == Item(late[1], fs.mbx)
<1>1. known' = known \cup {it}
  BY AppendedIs DEF Item
<1>2. it[1] = late[1].luid
  BY DEF Item
<1>3. Named(known, late[1].luid) \subseteq {it} /\ late[1].luid < fs.mbi.next
  BY DEF UInv, Pending, Indexed
<1>4. late[1].luid \in Nat
  BY Quoted DEF Record
<1> HIDE DEF it
<1>5. Named(known', late[1].luid) = {it}
  BY <1>1, <1>2, <1>3 DEF Named
<1>6. ASSUME NEW u, u # late[1].luid
      PROVE  Named(known', u) = Named(known, u)
  BY <1>1, <1>2, <1>6 DEF Named
<1>7. Below(known, fs.mbi.next) => Below(known', fs.mbi.next)
  BY <1>1, <1>2, <1>3, <1>4 DEF Below
<1> QED BY <1>5, <1>6, <1>7 DEF it

LEMMA NextAppendUIDs == ASSUME IInv, FInv, UInv, NextAppend PROVE UInv'
<1>1. /\ pc = "appended" /\ pc' = "write" /\ Appended /\ fs' = fs
      /\ late' = late /\ trusted' = trusted /\ astray' = astray
  BY DEF NextAppend
<1>2. late # << >> /\ Indexed = fs.mbx /\ Indexed' = fs.mbx
  BY <1>1 DEF FInv, Stored, Indexed
<1>3. /\ Named(known', late[1].luid) = {Item(late[1], fs.mbx)}
      /\ \A u : u # late[1].luid => Named(known', u) = Named(known, u)
      /\ Below(known, fs.mbi.next) => Below(known', fs.mbi.next)
  BY <1>1, <1>2, AppendedNames
<1>4. Numbered'
  BY <1>1, <1>3 DEF UInv, Numbered
<1>5. AtWork'
  <2> SUFFICES ASSUME ~astray
               PROVE  /\ Calls(fs.mbi.recs, fs.mbx, known')
                      /\ \A k \in DOMAIN fs.mbi.recs : fs.mbi.recs[k].luid # late[1].luid
    BY <1>1, <1>2 DEF AtWork
  <2>1. /\ Calls(fs.mbi.recs, fs.mbx, known)
        /\ \A k \in DOMAIN fs.mbi.recs : fs.mbi.recs[k].luid # late[1].luid
    BY <1>1, <1>2 DEF UInv, AtWork, InUse, Unflushed
  <2> QED BY <1>3, <2>1, CallsSame
<1>6. Pending'
  BY <1>1, <1>2, <1>3 DEF UInv, Pending, Told, Untold
<1>7. pc' \in InUse
  BY <1>1 DEF InUse, Unflushed
<1> QED BY <1>4, <1>5, <1>6, <1>7, UsedOnly DEF UInv

(* Steps after which nothing is written or in a buffer.                    *)
LEMMA Settles ==
    ASSUME pc' \in {"idle", "write", "closed"}, late' = << >>, Numbered',
           ~astray' => Calls(fs'.mbi.recs, fs'.mbx, known'),
           pc' = "closed" /\ ~astray' /\ Whole(fs'.mbi) =>
             Shows(fs'.mbi.recs, fs'.mbx, fs'.mbc)
    PROVE  UInv'
<1>1. Indexed' = fs'.mbx /\ pc' \notin Rebuilding /\ pc' # "expunge"
  BY DEF Indexed, Rebuilding
<1>2. AtRest' /\ AtWork'
  BY <1>1 DEF AtRest, AtWork, Resting, InUse, Unflushed, Flushed
<1>3. Pending' /\ Rebuilt' /\ Expunging'
  BY <1>1 DEF Pending, Rebuilt, Expunging
<1> QED BY <1>2, <1>3 DEF UInv

LEMMA StillRests ==
    ASSUME pc' \in Resting, late' = << >>, Numbered', AtRest', Rebuilt'
    PROVE  UInv'
<1>1. pc' \notin InUse /\ pc' # "expunge" /\ pc' # "rollback"
  BY DEF Resting, Rebuilding, InUse, Unflushed, Flushed
<1>2. AtWork' /\ Pending' /\ Expunging'
  BY <1>1 DEF AtWork, Pending, Expunging
<1> QED BY <1>2 DEF UInv

LEMMA SyncAppendUIDs == ASSUME IInv, FInv, UInv, SyncAppend PROVE UInv'
<1> DEFINE recs == fs.mbi.recs \o late
<1>1. /\ pc = "stop" /\ pc' = IF open THEN "idle" ELSE "closed"
      /\ late' = << >> /\ Appended /\ trusted' = trusted /\ astray' = astray
  BY DEF SyncAppend
<1>2. "mbx" \in fs.there /\ Indexed = fs.mbx /\ Holds(fs.mbx)
  BY <1>1 DEF FInv, Stored, Unflushed, Indexed
<1>3. /\ fs.mbi \in MbxIndex /\ fs.mbi.recs \in Seq(Record) /\ fs.mbx \in Seq(Text)
      /\ fs.mbc \in Seq(Entry) /\ recs \in Seq(Record)
  <2>1. fs.mbi.recs \in Seq(Record) /\ late \in Seq(Record)
    BY Quoted
  <2> QED BY <2>1, Quoted, ConcatProperties
<1>4. /\ fs'.mbx = fs.mbx /\ fs'.mbc = fs.mbc
      /\ fs'.mbi.recs = recs /\ fs'.mbi.size = fs.mbi.size
      /\ fs'.mbi.next = fs.mbi.next /\ fs'.mbi.valid = fs.mbi.valid
  <2>1. CASE late = << >>
    <3>1. fs' = fs
      BY <2>1 DEF SyncAppend
    <3> QED BY <2>1, <3>1, Quoted
  <2>2. CASE late # << >>
    <3>1. Write("mbi", [fs.mbi EXCEPT !.recs = recs])
      BY <2>2 DEF SyncAppend, FlushedIndex
    <3> HIDE DEF recs
    <3>2. /\ fs'.mbx = fs.mbx /\ fs'.mbc = fs.mbc
          /\ fs'.mbi = [fs.mbi EXCEPT !.recs = recs]
      BY <3>1, WrittenTo DEF Files, IInv, FInv
    <3>3. \A r \in Seq(Record) : /\ [fs.mbi EXCEPT !.recs = r].recs = r
                                 /\ [fs.mbi EXCEPT !.recs = r].size = fs.mbi.size
                                 /\ [fs.mbi EXCEPT !.recs = r].next = fs.mbi.next
                                 /\ [fs.mbi EXCEPT !.recs = r].valid = fs.mbi.valid
      BY <1>3, IndexTypes
    <3> QED BY <1>3, <3>2, <3>3
  <2> QED BY <2>1, <2>2
<1>5. /\ late = << >> => recs = fs.mbi.recs /\ known' = known
      /\ late # << >> =>
           /\ recs = Append(fs.mbi.recs, late[1]) /\ late[1] \in Record
           /\ Named(known', late[1].luid) = {Item(late[1], fs.mbx)}
           /\ \A u : u # late[1].luid => Named(known', u) = Named(known, u)
           /\ Below(known, fs.mbi.next) => Below(known', fs.mbi.next)
  BY <1>1, Quoted, AppendedIs, AppendedNames
<1>6. Numbered'
  <2>1. pc' # "expunge"
    BY <1>1
  <2>2. Below(known, fs.mbi.next) => Below(known', fs.mbi.next)
    BY <1>5
  <2> QED BY <1>1, <1>4, <2>1, <2>2 DEF UInv, Numbered
<1>7. ~astray => Calls(recs, fs.mbx, known')
  <2> SUFFICES ASSUME ~astray PROVE Calls(recs, fs.mbx, known')
    OBVIOUS
  <2>1. /\ Calls(fs.mbi.recs, fs.mbx, known)
        /\ late # << >> =>
             \A k \in DOMAIN fs.mbi.recs : fs.mbi.recs[k].luid # late[1].luid
    BY <1>1, <1>2 DEF UInv, AtWork, InUse, Unflushed
  <2>2. CASE late = << >>
    BY <1>5, <2>1, <2>2
  <2>3. CASE late # << >>
    <3>1. Calls(fs.mbi.recs, fs.mbx, known')
      BY <1>5, <2>1, <2>3, CallsSame
    <3>2. late[1].start < Len(fs.mbx)
      BY <1>2, <2>3 DEF Holds
    <3>3. Calls(Append(fs.mbi.recs, late[1]), fs.mbx, known')
      BY <1>3, <1>5, <2>1, <2>3, <3>1, <3>2, CallsMore
    <3> QED BY <1>5, <2>3, <3>3
  <2> QED BY <2>2, <2>3
<1>8. ~astray /\ Whole(fs'.mbi) => Shows(recs, fs.mbx, fs.mbc)
  <2> SUFFICES ASSUME ~astray, Whole(fs'.mbi) PROVE Shows(recs, fs.mbx, fs.mbc)
    OBVIOUS
  <2>1. WithLate = recs
    BY <1>1 DEF WithLate
  <2>2. Len(recs) = fs.mbi.size
    <3>1. Len(recs) <= fs.mbi.size /\ fs.mbi.size <= Len(recs)
      BY <1>1, <1>4 DEF IInv, Complete, AllRecs, Unflushed, Whole
    <3>2. Len(recs) \in Nat /\ fs.mbi.size \in Nat
      BY <1>3, IndexTypes, LenProperties
    <3> HIDE DEF recs
    <3> QED BY <3>1, <3>2
  <2>3. Counted /\ ~trusted
    <3>1. fs.mbi.size \in Nat
      BY <1>3, IndexTypes
    <3> QED BY <1>1, <2>1, <2>2, <3>1 DEF Counted, UInv, Numbered
  <2>4. Describes(recs, fs.mbx, Cached, kept)
    BY <1>1, <1>2, <2>1, <2>3 DEF FInv, Viewed, Unflushed
  <2>5. fs.mbc = Cached
    <3>1. CASE late = << >>
      BY <3>1 DEF Cached
    <3>2. CASE late # << >>
      <4>1. fs.mbc = FlushedCache
        BY <1>1, <3>2 DEF FInv, Stored
      <4> QED BY <1>2, <3>2, <4>1 DEF Cached, FlushedCache
    <3> QED BY <3>1, <3>2
  <2>6. Begins(recs, recs) /\ Begins(fs.mbx, fs.mbx)
    BY <1>3, BeginsItself
  <2>7. \A k \in DOMAIN fs.mbc : fs.mbc[k] \in {Cached[k], Blank}
    BY <2>5
  <2> HIDE DEF recs
  <2>8. Cached \in Seq(Entry)
    BY <1>3, <2>5
  <2> QED BY <1>3, <2>4, <2>6, <2>7, <2>8, DescribesShows
<1> HIDE DEF recs
<1>9. pc' \in {"idle", "write", "closed"}
  BY <1>1
<1> QED BY <1>1, <1>4, <1>6, <1>7, <1>8, <1>9, Settles

(* What a mailbox in use has in its files and in memory.                   *)
LEMMA Idle ==
    ASSUME IInv, FInv, UInv, pc = "idle", ~astray
    PROVE  /\ fs.mbi.recs = mIndexList
           /\ Calls(fs.mbi.recs, fs.mbx, known)
           /\ Describes(fs.mbi.recs, fs.mbx, fs.mbc, kept)
           /\ Shows(fs.mbi.recs, fs.mbx, fs.mbc)
<1>1. fs.mbi.recs = mIndexList
  BY DEF IInv, Control, Complete, AllRecs, Unflushed
<1>2. Calls(fs.mbi.recs, fs.mbx, known)
  BY DEF UInv, AtWork, InUse, Indexed
<1>3. ~trusted
  BY DEF UInv, Numbered
<1>4. Describes(fs.mbi.recs, fs.mbx, fs.mbc, kept)
  BY <1>1, <1>3 DEF FInv, Viewed
<1>5. fs.mbi.recs \in Seq(Record) /\ fs.mbx \in Seq(Text) /\ fs.mbc \in Seq(Entry)
  BY Quoted
<1>6. Begins(fs.mbi.recs, fs.mbi.recs) /\ Begins(fs.mbx, fs.mbx)
  BY <1>5, BeginsItself
<1>7. \A k \in DOMAIN fs.mbc : fs.mbc[k] \in {fs.mbc[k], Blank}
  OBVIOUS
<1>8. Shows(fs.mbi.recs, fs.mbx, fs.mbc)
  BY <1>4, <1>5, <1>6, <1>7, DescribesShows
<1> QED BY <1>1, <1>2, <1>4, <1>8

LEMMA CloseMboxUIDs == ASSUME IInv, FInv, UInv, CloseMbox PROVE UInv'
<1>1. /\ pc = "idle" /\ pc' = "closed" /\ fs' = fs /\ late' = late
      /\ known' = known /\ trusted' = trusted /\ astray' = astray
  BY DEF CloseMbox, auxVars
<1>2. late' = << >>
  BY <1>1 DEF IInv, Control
<1>3. Numbered'
  BY <1>1 DEF UInv, Numbered
<1>4. ~astray => /\ Calls(fs.mbi.recs, fs.mbx, known)
                 /\ Shows(fs.mbi.recs, fs.mbx, fs.mbc)
  BY <1>1, Idle
<1> QED BY <1>1, <1>2, <1>3, <1>4, Settles

-----------------------------------------------------------------------------
(* Reconstruction.                                                         *)
LEMMA TouchMboxUIDs ==
    ASSUME IInv, FInv, UInv, NEW what \in {"select", "append"}, TouchMbox(what)
    PROVE  UInv'
<1>1. /\ pc = "closed" /\ pc' = "created" /\ "mbx" \notin fs.there
      /\ fs'.mbx = fs.mbx /\ fs'.mbc = fs.mbc /\ fs'.mbi = fs.mbi
      /\ Modified(Files \ fs.there) /\ late' = late
      /\ known' = known /\ trusted' = trusted /\ astray' = astray
  BY DEF TouchMbox, IInv, Disk
<1>2. late' = << >> /\ pc' \in Resting /\ pc' # "expunge" /\ pc' \notin Rebuilding
  BY <1>1 DEF IInv, Control, Resting, Rebuilding
<1>3. fs.mbx = << >>
  BY <1>1 DEF FInv, Moved
<1>4. fs.mbi.valid => ~AsOld'
  <2>1. "mbx" \in Files /\ "mbi" \in Files
    BY DEF Files
  <2>2. Files \ fs.there \subseteq Files /\ "mbx" \in Files \ fs.there
    BY <1>1, <2>1
  <2>3. StateTypes
    BY DEF FInv
  <2>4. Modified(Files \ fs.there)
    BY <1>1
  <2>5. "mbi" \notin Files \ fs.there => ~AsOld'
    BY ONLY <2>2, <2>3, <2>4, Timed
  <2>6. "mbi" \notin fs.there => ~fs.mbi.valid
    BY NoIndexType DEF FInv, Moved
  <2> QED BY <2>5, <2>6
<1>5. Numbered'
  BY <1>1, <1>2 DEF UInv, Numbered
<1>6. AtRest'
  BY <1>1, <1>3, <1>4 DEF AtRest, Bereft
<1>7. Rebuilt'
  BY <1>2 DEF Rebuilt
<1> QED BY <1>2, <1>5, <1>6, <1>7, StillRests

LEMMA ReconstructUIDs ==
    ASSUME IInv, FInv, UInv, NEW what, Reconstruct(what), pc \in {"closed", "created"}
    PROVE  UInv'
<1>1. /\ pc' = "recache"
      /\ fs'.new = [mbi |-> Reconstructed, recovered |-> ReconstructRecover]
      /\ fs'.mbx = fs.mbx /\ fs'.mbc = << >> /\ fs'.mbi = fs.mbi
      /\ Modified({"mbc"}) /\ late' = late
      /\ known' = known /\ trusted' = trusted /\ astray' = astray
  BY DEF Reconstruct, IInv, Disk, auxVars
<1>2. late' = << >> /\ pc' \in Resting /\ pc' # "expunge"
  BY <1>1 DEF IInv, Control, Resting, Rebuilding
<1>3. ~AsOld'
  <2>1. {"mbc"} \subseteq Files /\ {"mbc"} # {} /\ "mbi" \notin {"mbc"}
    BY DEF Files
  <2> QED BY <1>1, <2>1, Timed DEF FInv
<1>4. ~astray /\ fs.mbi.valid /\ fs.mbx # << >> =>
        /\ Calls(fs.mbi.recs, fs.mbx, known)
        /\ Whole(fs.mbi) => Shows(fs.mbi.recs, fs.mbx, fs.mbc)
  BY DEF UInv, AtRest, Resting, Bereft
<1>5. Numbered'
  BY <1>1, <1>2 DEF UInv, Numbered
<1>6. AtRest'
  <2>1. Bereft' <=> fs.mbx = << >>
    BY <1>1, <1>3 DEF Bereft
  <2>2. Shows(fs.mbi.recs, fs.mbx, fs.mbc) => Shows(fs.mbi.recs, fs.mbx, << >>)
    <3>1. \A k \in DOMAIN fs.mbi.recs \cap DOMAIN << >> :
            << >>[k] \in {fs.mbx[fs.mbi.recs[k].start + 1], Blank}
      OBVIOUS
    <3> QED BY ONLY <3>1, Zenon DEF Shows
  <2>3. SUFFICES ASSUME ~astray, fs.mbi.valid, fs.mbx # << >>
                 PROVE  /\ Calls(fs.mbi.recs, fs.mbx, known)
                        /\ Whole(fs.mbi) => Shows(fs.mbi.recs, fs.mbx, << >>)
    BY <1>1, <2>1 DEF AtRest
  <2>4. /\ Calls(fs.mbi.recs, fs.mbx, known)
        /\ Whole(fs.mbi) => Shows(fs.mbi.recs, fs.mbx, fs.mbc)
    BY ONLY <1>4, <2>3, Zenon
  <2> QED BY ONLY <2>2, <2>4, Zenon
<1>7. Rebuilt'
  <2>1. CASE ~ReconstructRecover
    <3>1. Reconstructed = FreshIndex(Len(fs.mbx))
      BY <2>1 DEF Reconstructed
    <3> QED BY <1>1, <2>1, <3>1 DEF Rebuilt
  <2>2. CASE ReconstructRecover
    <3>1. Reconstructed.next = fs.mbi.next /\ fs.mbi.valid /\ Whole(fs.mbi)
      BY <2>2 DEF Reconstructed, Index, ReconstructRecover, Readable
    <3>2. Below(known, fs.mbi.next)
      BY <3>1 DEF UInv, Numbered
    <3>3. ASSUME ~astray PROVE Calls(Reconstructed.recs, fs.mbx, known)
      <4>1. CASE fs.mbx = << >>
        <5>1. DOMAIN Reconstructed.recs = {}
          BY <2>2, <4>1 DEF Reconstructed, Index, InOrder
        <5> QED BY <5>1 DEF Calls
      <4>2. CASE fs.mbx # << >>
        <5>1. Calls(fs.mbi.recs, fs.mbx, known) /\ Shows(fs.mbi.recs, fs.mbx, fs.mbc)
          BY <1>4, <3>1, <3>3, <4>2
        <5> QED BY <2>2, <5>1, RecoveredCalls
      <4> QED BY <4>1, <4>2
    <3>4. fs'.new.recovered /\ fs'.new.mbi = Reconstructed
      BY <1>1, <2>2
    <3> QED BY <1>1, <3>1, <3>2, <3>3, <3>4 DEF Rebuilt
  <2> QED BY <2>1, <2>2
<1> QED BY <1>2, <1>5, <1>6, <1>7, StillRests

LEMMA CreateMboxUIDs == ASSUME IInv, FInv, UInv, CreateMbox PROVE UInv'
BY ReconstructUIDs DEF CreateMbox

LEMMA RewriteCacheUIDs == ASSUME IInv, FInv, UInv, RewriteCache PROVE UInv'
<1>1. /\ pc = "recache" /\ pc' = "reindex" /\ Write("mbc", fs.mbx)
      /\ late' = late /\ known' = known /\ trusted' = trusted /\ astray' = astray
  BY DEF RewriteCache, auxVars
<1>2. /\ fs'.new = fs.new /\ fs'.mbx = fs.mbx /\ fs'.mbc = fs.mbx /\ fs'.mbi = fs.mbi
      /\ ~AsOld'
  BY <1>1, WrittenTo DEF Files, IInv, FInv
<1>3. late' = << >> /\ pc' \in Resting
  BY <1>1 DEF IInv, Control, Resting, Rebuilding
<1>4. Numbered'
  BY <1>1, <1>2 DEF UInv, Numbered
<1>5. AtRest'
  <2>1. ~astray /\ fs.mbi.valid /\ fs.mbx # << >> =>
          /\ Calls(fs.mbi.recs, fs.mbx, known)
          /\ Whole(fs.mbi) => Shows(fs.mbi.recs, fs.mbx, fs.mbc)
    BY <1>1 DEF UInv, AtRest, Resting, Rebuilding, Bereft
  <2>2. Bereft' <=> fs.mbx = << >>
    BY <1>2 DEF Bereft
  <2>3. Shows(fs.mbi.recs, fs.mbx, fs.mbc) => Shows(fs.mbi.recs, fs.mbx, fs.mbx)
    BY DEF Shows
  <2> QED BY <1>1, <1>2, <2>1, <2>2, <2>3 DEF AtRest, Whole
<1>6. Rebuilt'
  BY <1>1, <1>2 DEF UInv, Rebuilt, Rebuilding
<1> QED BY <1>3, <1>4, <1>5, <1>6, StillRests

(* The records of a reconstruction that did not recover the old ones.      *)
LEMMA FreshCalls ==
    ASSUME NEW mbx \in Seq(Text)
    PROVE  LET i == FreshIndex(Len(mbx))
           IN  Calls(i.recs, mbx, Given(i.recs, mbx)) /\ Below(Given(i.recs, mbx), i.next)
<1> DEFINE n == Len(mbx)
           recs == FreshIndex(n).recs
           K == Given(recs, mbx)
<1>1. n \in Nat
  BY LenProperties
<1>2. recs = [k \in 1..n |-> [start |-> k - 1, cache |-> k - 1,
                              deleted |-> FALSE, luid |-> k]]
  BY DEF FreshIndex, Index, InOrder
<1>3. FreshIndex(n).next = n + 1
  BY DEF FreshIndex, Index
<1>4. DOMAIN recs = 1..n
  BY <1>2
<1>5. \A k \in 1..n : recs[k].start = k - 1 /\ recs[k].luid = k
  BY <1>2
<1>6. Range(recs) = {recs[k] : k \in 1..n}
  BY <1>4 DEF Range
<1> HIDE DEF recs, n
<1>7. K = {Item(recs[k], mbx) : k \in 1..n}
  BY <1>6 DEF Given, Item
<1> HIDE DEF K
<1>8. \A k \in 1..n : Item(recs[k], mbx)[1] = k
  BY <1>5 DEF Item
<1>9. ASSUME NEW k \in DOMAIN recs
      PROVE  recs[k].start < n /\ Named(K, recs[k].luid) = {Item(recs[k], mbx)}
  <2>1. k \in 1..n /\ recs[k].luid = k /\ recs[k].start = k - 1
    BY <1>4, <1>5
  <2>2. Named(K, k) = {Item(recs[k], mbx)}
    BY <1>7, <1>8, <2>1 DEF Named
  <2> QED BY <1>1, <2>1, <2>2
<1>10. \A i, j \in DOMAIN recs : i # j => recs[i].luid # recs[j].luid
  BY <1>4, <1>5
<1>11. Calls(recs, mbx, K)
  BY <1>9, <1>10 DEF Calls, n
<1>12. Below(K, n + 1)
  <2> SUFFICES ASSUME NEW k \in 1..n PROVE k \in Nat /\ k < n + 1
    BY <1>7, <1>8 DEF Below
  <2> QED BY <1>1
<1> QED BY <1>3, <1>11, <1>12 DEF K, recs, n

LEMMA TruncateIndexUIDs == ASSUME IInv, FInv, UInv, TruncateIndex PROVE UInv'
<1>1. /\ pc = "reindex" /\ pc' = "reheader" /\ Write("mbi", NoIndex)
      /\ known' = IF fs.new.recovered THEN known ELSE Given(fs.new.mbi.recs, fs.mbx)
      /\ late' = late /\ trusted' = trusted /\ astray' = astray
  BY DEF TruncateIndex
<1>2. fs'.new = fs.new /\ fs'.mbx = fs.mbx /\ fs'.mbi = NoIndex
  BY <1>1, WrittenTo DEF Files, IInv, FInv
<1>3. late' = << >> /\ pc' \in Resting
  BY <1>1 DEF IInv, Control, Resting, Rebuilding
<1>4. ~fs'.mbi.valid
  BY <1>2, NoIndexType
<1>5. Numbered'
  BY <1>1, <1>4 DEF UInv, Numbered
<1>6. AtRest'
  BY <1>4 DEF AtRest
<1>7. Rebuilt'
  <2>1. CASE fs.new.recovered
    BY <1>1, <1>2, <2>1 DEF UInv, Rebuilt, Rebuilding
  <2>2. CASE ~fs.new.recovered
    <3>1. fs.new.mbi = FreshIndex(Len(fs.mbx)) /\ fs.mbx \in Seq(Text)
      BY <1>1, <2>2, Quoted DEF UInv, Rebuilt, Rebuilding
    <3>2. /\ Calls(fs.new.mbi.recs, fs.mbx, Given(fs.new.mbi.recs, fs.mbx))
          /\ Below(Given(fs.new.mbi.recs, fs.mbx), fs.new.mbi.next)
      BY <3>1, FreshCalls
    <3> QED BY <1>1, <1>2, <2>2, <3>1, <3>2 DEF Rebuilt
  <2> QED BY <2>1, <2>2
<1> QED BY <1>3, <1>5, <1>6, <1>7, StillRests

LEMMA RewriteHeaderUIDs == ASSUME IInv, FInv, UInv, RewriteHeader PROVE UInv'
<1> DEFINE i == [fs.new.mbi EXCEPT !.recs = << >>]
<1>1. /\ pc = "reheader" /\ pc' = "rerecord" /\ Write("mbi", i)
      /\ late' = late /\ known' = known /\ trusted' = trusted /\ astray' = astray
  BY DEF RewriteHeader, auxVars
<1>2. fs.new.mbi \in MbxIndex /\ << >> \in Seq(Record)
  BY <1>1, EmptySeq DEF FInv, FileTypes, Rebuilding, Made2
<1>3. i.recs = << >> /\ i.next = fs.new.mbi.next
  <2>1. \A r \in Seq(Record) : /\ [fs.new.mbi EXCEPT !.recs = r].recs = r
                               /\ [fs.new.mbi EXCEPT !.recs = r].next = fs.new.mbi.next
    BY <1>2, IndexTypes
  <2> QED BY <1>2, <2>1
<1> HIDE DEF i
<1>4. fs'.new = fs.new /\ fs'.mbx = fs.mbx /\ fs'.mbi = i
  BY <1>1, WrittenTo DEF Files, IInv, FInv
<1>5. late' = << >> /\ pc' \in Resting
  BY <1>1 DEF IInv, Control, Resting, Rebuilding
<1>6. Numbered'
  <2>1. Below(known, fs.new.mbi.next)
    BY <1>1 DEF UInv, Rebuilt, Rebuilding
  <2> QED BY <1>1, <1>3, <1>4, <2>1 DEF UInv, Numbered
<1>7. AtRest'
  <2>1. DOMAIN fs'.mbi.recs = {}
    BY <1>3, <1>4
  <2> QED BY <2>1 DEF AtRest, Calls, Shows
<1>8. Rebuilt'
  BY <1>1, <1>4 DEF UInv, Rebuilt, Rebuilding
<1> QED BY <1>5, <1>6, <1>7, <1>8, StillRests

LEMMA RewriteRecordsUIDs == ASSUME IInv, FInv, UInv, RewriteRecords PROVE UInv'
<1> DEFINE i == fs.new.mbi
<1>1. /\ pc = "rerecord" /\ Proceed(goal, i)
      /\ trusted' = FALSE /\ astray' = (astray /\ fs.new.recovered)
      /\ late' = late /\ known' = known
      /\ fs'.mbx = fs.mbx /\ fs'.mbc = fs.mbc /\ fs'.mbi = i
  BY DEF RewriteRecords, IInv, Disk
<1>2. late' = << >> /\ pc' \in {"idle", "write", "closed"}
  BY <1>1 DEF IInv, Control, Rebuilding, Proceed
<1>3. i.recs \in Seq(Record) /\ fs.mbx \in Seq(Text) /\ fs.mbc \in Seq(Entry)
  <2>1. i \in MbxIndex
    BY <1>1 DEF FInv, FileTypes, Rebuilding, Made2
  <2> QED BY <2>1, Quoted, IndexTypes
<1>4. Describes(i.recs, fs.mbx, fs.mbx, kept) /\ fs.mbc = fs.mbx
  BY <1>1 DEF FInv, Viewed, Rebuilding
<1>5. /\ Below(known, i.next)
      /\ ~astray' => Calls(i.recs, fs.mbx, known)
  BY <1>1 DEF UInv, Rebuilt, Rebuilding
<1>6. Shows(i.recs, fs.mbx, fs.mbc)
  <2>1. Begins(i.recs, i.recs) /\ Begins(fs.mbx, fs.mbx)
    BY <1>3, BeginsItself
  <2>2. \A k \in DOMAIN fs.mbc : fs.mbc[k] \in {fs.mbc[k], Blank}
    OBVIOUS
  <2>3. Describes(i.recs, fs.mbx, fs.mbc, kept)
    BY <1>4
  <2> HIDE DEF i
  <2> QED BY <1>3, <2>1, <2>2, <2>3, DescribesShows
<1>7. Numbered'
  BY <1>1, <1>2, <1>5 DEF Numbered
<1> QED BY <1>1, <1>2, <1>5, <1>6, <1>7, Settles

LEMMA ValidateCacheUIDs ==
    ASSUME IInv, FInv, UInv, NEW what \in {"select", "append"}, ValidateCache(what)
    PROVE  UInv'
<1>1. pc = "closed" /\ "mbx" \in fs.there
  BY DEF ValidateCache
<1>2. CASE Reconstruct(what)
  BY <1>1, <1>2, ReconstructUIDs
<1>3. ASSUME ~Reconstruct(what)
      PROVE  UInv'
  <2>1. /\ Readable /\ Proceed(what, fs.mbi) /\ fs' = fs
        /\ trusted' = (trusted \/ newer \cup hidden # {})
        /\ astray' = (astray \/ newer \cup hidden # {})
        /\ late' = late /\ known' = known
    BY <1>3 DEF ValidateCache
  <2>2. late' = << >> /\ pc' \in {"idle", "write", "closed"}
    BY <1>1, <2>1 DEF IInv, Control, Proceed
  <2>3. Numbered'
    BY <1>1, <2>1, <2>2 DEF UInv, Numbered
  <2>4. ASSUME ~astray'
        PROVE  /\ Calls(fs.mbi.recs, fs.mbx, known)
               /\ Whole(fs.mbi) => Shows(fs.mbi.recs, fs.mbx, fs.mbc)
    <3>1. ~astray /\ AsOld /\ fs.mbi.valid
      BY <2>1, <2>4 DEF AsOld, Readable
    <3>2. ~Bereft
      BY <1>1, <3>1 DEF Bereft
    <3> QED BY <1>1, <3>1, <3>2 DEF UInv, AtRest, Resting
  <2> QED BY <2>1, <2>2, <2>3, <2>4, Settles
<1> QED BY <1>2, <1>3

LEMMA SelectMboxUIDs == ASSUME IInv, FInv, UInv, SelectMbox PROVE UInv'
BY TouchMboxUIDs, ValidateCacheUIDs DEF SelectMbox

LEMMA StartAppendUIDs == ASSUME IInv, FInv, UInv, StartAppend PROVE UInv'
<1>1. CASE TouchMbox("append")
  BY <1>1, TouchMboxUIDs
<1>2. CASE ValidateCache("append")
  BY <1>2, ValidateCacheUIDs
<1>3. CASE /\ pc = "idle" /\ pc' = "write"
           /\ UNCHANGED <<fs, timeVars, goal, memVars, late, moves, auxVars, faults>>
  <2>1. /\ pc = "idle" /\ pc' = "write" /\ fs' = fs /\ late' = late
        /\ known' = known /\ trusted' = trusted /\ astray' = astray
    BY <1>3 DEF auxVars
  <2>2. late' = << >>
    BY <2>1 DEF IInv, Control
  <2>3. Numbered'
    BY <2>1 DEF UInv, Numbered
  <2>4. ~astray => Calls(fs.mbi.recs, fs.mbx, known)
    BY <2>1, Idle
  <2> QED BY <2>1, <2>2, <2>3, <2>4, Settles
<1> QED BY <1>1, <1>2, <1>3 DEF StartAppend

LEMMA RebuildMboxUIDs == ASSUME IInv, FInv, UInv, RebuildMbox PROVE UInv'
<1>1. pc = "closed"
  BY DEF RebuildMbox
<1>2. CASE "mbx" \in fs.there
  BY <1>1, <1>2, ReconstructUIDs DEF RebuildMbox
<1>3. CASE "mbx" \notin fs.there
  <2>1. /\ fs'.mbi = NoIndex /\ pc' = "closed" /\ late' = late
        /\ trusted' = trusted /\ astray' = astray
    BY <1>1, <1>3 DEF RebuildMbox, IInv, Disk, auxVars
  <2>2. late' = << >> /\ pc' \in Resting /\ ~fs'.mbi.valid
    BY <1>1, <2>1, NoIndexType DEF IInv, Control, Resting
  <2>3. Numbered' /\ AtRest' /\ Rebuilt'
    BY <2>1, <2>2 DEF UInv, Numbered, AtRest, Rebuilt, Rebuilding
  <2> QED BY <2>2, <2>3, StillRests
<1> QED BY <1>2, <1>3

-----------------------------------------------------------------------------
(* Flags, and the expunge.                                                 *)
Flagged(K, u, d) == {IF p[1] = u THEN <<p[1], p[2], d>> ELSE p : p \in K}

LEMMA FlagNames ==
    ASSUME NEW K, NEW L, NEW u, NEW d, L = Flagged(K, u, d)
    PROVE  /\ \A v : v # u => Named(L, v) = Named(K, v)
           /\ \A t, e : Named(K, u) = {<<u, t, e>>} => Named(L, u) = {<<u, t, d>>}
           /\ \A n : Below(K, n) => Below(L, n)
<1> DEFINE set(p) == IF p[1] = u THEN <<p[1], p[2], d>> ELSE p
<1>1. L = {set(p) : p \in K}
  BY DEF Flagged
<1>2. \A p : /\ set(p)[1] = p[1]
             /\ p[1] # u => set(p) = p
             /\ p[1] = u => set(p) = <<u, p[2], d>>
  OBVIOUS
<1> HIDE DEF set
<1>3. ASSUME NEW v, v # u PROVE Named(L, v) = Named(K, v)
  <2>1. Named(L, v) \subseteq Named(K, v)
    BY <1>1, <1>2, <1>3 DEF Named
  <2>2. ASSUME NEW p \in K, p[1] = v PROVE p \in L
    <3>1. set(p) = p
      BY <1>2, <1>3, <2>2
    <3> QED BY <1>1, <3>1
  <2> QED BY <2>1, <2>2 DEF Named
<1>4. ASSUME NEW t, NEW e, Named(K, u) = {<<u, t, e>>}
      PROVE  Named(L, u) = {<<u, t, d>>}
  <2>1. \A p \in K : p[1] = u <=> p = <<u, t, e>>
    BY <1>4 DEF Named
  <2>2. <<u, t, e>> \in K
    BY <1>4 DEF Named
  <2>3. set(<<u, t, e>>) = <<u, t, d>>
    <3>1. <<u, t, e>>[1] = u /\ <<u, t, e>>[2] = t
      OBVIOUS
    <3> QED BY <1>2, <3>1
  <2>4. \A q \in L : q[1] = u => q = <<u, t, d>>
    BY <1>1, <1>2, <2>1, <2>3
  <2>5. <<u, t, d>> \in L /\ <<u, t, d>>[1] = u
    <3>1. set(<<u, t, e>>) \in L
      BY <1>1, <2>2
    <3> QED BY <2>3, <3>1
  <2> QED BY <2>4, <2>5 DEF Named
<1>5. ASSUME NEW n, Below(K, n) PROVE Below(L, n)
  <2> SUFFICES ASSUME NEW p \in K PROVE set(p)[1] \in Nat /\ set(p)[1] < n
    BY <1>1 DEF Below
  <2> QED BY <1>2, <1>5 DEF Below
<1> QED BY <1>3, <1>4, <1>5

LEMMA SetFlagUIDs == ASSUME IInv, FInv, UInv, SetFlag PROVE UInv'
<1>1. PICK k \in DOMAIN mIndexList :
        LET rec == [mIndexList[k] EXCEPT !.deleted = ~@]
        IN  /\ mIndexList' = ReplaceAt(mIndexList, k, rec)
            /\ Write("mbi", [fs.mbi EXCEPT !.recs = ReplaceAt(@, k, rec)])
            /\ known' = {IF p[1] = rec.luid THEN <<p[1], p[2], rec.deleted>>
                         ELSE p : p \in known}
  BY DEF SetFlag
<1> DEFINE rec == [mIndexList[k] EXCEPT !.deleted = ~@]
           R == ReplaceAt(mIndexList, k, rec)
<1>2. /\ pc = "idle" /\ pc' = "idle" /\ late' = late
      /\ trusted' = trusted /\ astray' = astray
  BY DEF SetFlag
<1>3. fs.mbi.recs = mIndexList /\ late' = << >>
  BY <1>2 DEF IInv, Complete, AllRecs, Control, Unflushed
<1>4. mIndexList \in Seq(Record) /\ fs.mbi \in MbxIndex /\ mIndexList[k] \in Record
  <2>1. mIndexList \in Seq(Record) /\ fs.mbi \in MbxIndex
    BY Quoted
  <2> QED BY <2>1, LenProperties, ElementOfSeq
<1>5. rec \in Record /\ rec.start = mIndexList[k].start /\ rec.luid = mIndexList[k].luid
  BY <1>4 DEF Record
<1>6. /\ Write("mbi", [fs.mbi EXCEPT !.recs = R])
      /\ known' = Flagged(known, mIndexList[k].luid, rec.deleted)
  BY <1>1, <1>3, <1>5 DEF Flagged
<1> HIDE DEF rec
<1>7. /\ R \in Seq(Record) /\ DOMAIN R = DOMAIN mIndexList
      /\ \A j \in DOMAIN mIndexList : R[j] = IF j = k THEN rec ELSE mIndexList[j]
  BY <1>4, <1>5, Replaced
<1> HIDE DEF R
<1>8. /\ fs'.mbx = fs.mbx /\ fs'.mbc = fs.mbc
      /\ fs'.mbi = [fs.mbi EXCEPT !.recs = R]
  BY <1>6, WrittenTo DEF Files, IInv, FInv
<1>9. fs'.mbi.recs = R /\ fs'.mbi.next = fs.mbi.next /\ fs'.mbi.valid = fs.mbi.valid
  <2>1. \A r \in Seq(Record) : /\ [fs.mbi EXCEPT !.recs = r].recs = r
                               /\ [fs.mbi EXCEPT !.recs = r].next = fs.mbi.next
                               /\ [fs.mbi EXCEPT !.recs = r].valid = fs.mbi.valid
    BY <1>4, IndexTypes
  <2> QED BY <1>7, <1>8, <2>1
<1>10. /\ \A v : v # mIndexList[k].luid => Named(known', v) = Named(known, v)
       /\ \A t, e : Named(known, mIndexList[k].luid) = {<<mIndexList[k].luid, t, e>>} =>
            Named(known', mIndexList[k].luid) = {<<mIndexList[k].luid, t, rec.deleted>>}
       /\ \A n : Below(known, n) => Below(known', n)
  <2>1. PICK u, d : u = mIndexList[k].luid /\ d = rec.deleted
    OBVIOUS
  <2>2. known' = Flagged(known, u, d)
    BY <1>6, <2>1
  <2>3. \A v : v # u => Named(known', v) = Named(known, v)
    BY ONLY <2>2, FlagNames
  <2>4. \A t, e : Named(known, u) = {<<u, t, e>>} => Named(known', u) = {<<u, t, d>>}
    BY ONLY <2>2, FlagNames
  <2>5. \A n : Below(known, n) => Below(known', n)
    BY ONLY <2>2, FlagNames
  <2> QED BY <2>1, <2>3, <2>4, <2>5
<1>11. Numbered'
  BY <1>2, <1>9, <1>10 DEF UInv, Numbered
<1>12. ASSUME ~astray PROVE Calls(R, fs.mbx, known')
  <2>1. Calls(mIndexList, fs.mbx, known)
    BY <1>2, <1>3, <1>12, Idle
  <2>2. \A j \in DOMAIN R : R[j].luid = mIndexList[j].luid /\ R[j].start = mIndexList[j].start
    BY <1>5, <1>7
  <2>3. \A i, j \in DOMAIN R : i # j => R[i].luid # R[j].luid
    BY <1>7, <2>1, <2>2 DEF Calls
  <2>4. ASSUME NEW j \in DOMAIN R
        PROVE  R[j].start < Len(fs.mbx) /\ Named(known', R[j].luid) = {Item(R[j], fs.mbx)}
    <3>1. /\ mIndexList[j].start < Len(fs.mbx)
          /\ Named(known, mIndexList[j].luid) = {Item(mIndexList[j], fs.mbx)}
      BY <1>7, <2>1 DEF Calls
    <3>2. CASE j = k
      <4>1. Named(known, mIndexList[k].luid) =
              {<<mIndexList[k].luid, fs.mbx[mIndexList[k].start + 1], mIndexList[k].deleted>>}
        BY <3>1, <3>2 DEF Item
      <4>2. Named(known', mIndexList[k].luid) =
              {<<mIndexList[k].luid, fs.mbx[mIndexList[k].start + 1], rec.deleted>>}
        BY <1>10, <4>1
      <4>3. R[j] = rec
        BY <1>7, <3>2
      <4> QED BY <1>5, <3>1, <3>2, <4>2, <4>3 DEF Item
    <3>3. CASE j # k
      <4>1. R[j] = mIndexList[j]
        BY <1>7, <3>3
      <4>2. mIndexList[j].luid # mIndexList[k].luid
        BY <1>7, <2>1, <3>3 DEF Calls
      <4> QED BY <1>10, <3>1, <4>1, <4>2
    <3> QED BY <3>2, <3>3
  <2> QED BY <2>3, <2>4 DEF Calls
<1> QED BY <1>2, <1>3, <1>8, <1>9, <1>11, <1>12, Settles

(* The records that stay have the local UIDs and flags they had, and what  *)
(* they begin at is the same text.                                         *)
LEMMA WithoutCalls ==
    ASSUME FInv, Describes(mIndexList, fs.mbx, fs.mbc, kept),
           NEW D, D \subseteq DOMAIN mIndexList, D # {}, mIndexList[1].start = 0,
           NEW K, Calls(mIndexList, fs.mbx, K)
    PROVE  Calls(Without(D).mbi.recs, Without(D).mbx, K)
<1> DEFINE R == Without(D).mbi.recs
           T == Without(D).mbx
           was(j, k) == /\ j = Rank(k, DOMAIN mIndexList \ D)
                        /\ R[j].luid = mIndexList[k].luid
                        /\ R[j].deleted = mIndexList[k].deleted
                        /\ T[R[j].start + 1] = fs.mbx[mIndexList[k].start + 1]
<1>1. /\ Describes(R, T, Without(D).mbc, Remaining(D))
      /\ \A j \in DOMAIN R : \E k \in DOMAIN mIndexList \ D : was(j, k)
  BY WithoutDescribes DEF FInv
<1> HIDE DEF R, T
<1>2. ASSUME NEW j \in DOMAIN R
      PROVE  R[j].start < Len(T) /\ Named(K, R[j].luid) = {Item(R[j], T)}
  <2>1. PICK k \in DOMAIN mIndexList \ D : was(j, k)
    BY <1>1
  <2>2. Named(K, mIndexList[k].luid) = {Item(mIndexList[k], fs.mbx)}
    BY DEF Calls
  <2>3. R[j].start < Len(T)
    BY <1>1 DEF Describes
  <2> QED BY <2>1, <2>2, <2>3 DEF Item
<1>3. ASSUME NEW i \in DOMAIN R, NEW j \in DOMAIN R, R[i].luid = R[j].luid
      PROVE  i = j
  <2>1. PICK a \in DOMAIN mIndexList \ D : was(i, a)
    BY <1>1
  <2>2. PICK b \in DOMAIN mIndexList \ D : was(j, b)
    BY <1>1
  <2>3. a = b
    BY <1>3, <2>1, <2>2 DEF Calls
  <2> QED BY <2>1, <2>2, <2>3
<1>4. Calls(R, T, K)
  BY <1>2, <1>3 DEF Calls
<1> QED BY <1>4 DEF R, T

LEMMA ExpungeMessageUIDs == ASSUME IInv, FInv, UInv, ExpungeMessage PROVE UInv'
<1>1. PICK D \in (SUBSET DOMAIN mIndexList) \ {{}} :
         /\ fs' = [fs EXCEPT !.new = Without(D)]
         /\ trusted' = (mIndexList[1].start > 0)
         /\ astray' = (astray \/ mIndexList[1].start > 0)
  BY DEF ExpungeMessage
<1>2. /\ pc = "idle" /\ pc' = "expunge" /\ ~trusted /\ late' = late /\ known' = known
  BY DEF ExpungeMessage
<1>3. /\ fs'.new = Without(D) /\ fs'.mbx = fs.mbx /\ fs'.mbc = fs.mbc /\ fs'.mbi = fs.mbi
  BY <1>1 DEF IInv, Disk
<1>4. D \subseteq DOMAIN mIndexList /\ D # {} /\ late' = << >>
  BY <1>1, <1>2 DEF IInv, Control
<1>5. Without(D).mbi.next = fs.mbi.next
  BY WithoutParts DEF FInv
<1>6. fs.mbi.valid
  BY <1>2, SettledReadable DEF Settled, Readable
<1>7. Numbered'
  BY <1>1, <1>2, <1>3, <1>5, <1>6 DEF UInv, Numbered
<1>8. Expunging'
  <2> SUFFICES ASSUME ~astray'
               PROVE  /\ Calls(Without(D).mbi.recs, Without(D).mbx, known)
                      /\ Calls(fs.mbi.recs, fs.mbx, known)
                      /\ Shows(fs.mbi.recs, fs.mbx, fs.mbc)
    BY <1>2, <1>3 DEF Expunging
  <2>1. ~astray /\ ~(mIndexList[1].start > 0)
    BY <1>1, Zenon
  <2>2. mIndexList[1].start = 0
    <3>1. mIndexList \in Seq(Record)
      BY Quoted
    <3>2. DOMAIN mIndexList = 1..Len(mIndexList) /\ Len(mIndexList) \in Nat
      BY <3>1, LenProperties
    <3>3. \A n \in Nat : 1..n # {} => 1 \in 1..n
      OBVIOUS
    <3>4. 1 \in DOMAIN mIndexList
      BY <1>4, <3>2, <3>3
    <3>5. mIndexList[1].start \in Nat
      BY <3>1, <3>4, RecordAt
    <3> QED BY <2>1, <3>5
  <2>3. /\ fs.mbi.recs = mIndexList
        /\ Calls(fs.mbi.recs, fs.mbx, known)
        /\ Describes(fs.mbi.recs, fs.mbx, fs.mbc, kept)
        /\ Shows(fs.mbi.recs, fs.mbx, fs.mbc)
    BY <1>2, <2>1, Idle
  <2>4. Calls(Without(D).mbi.recs, Without(D).mbx, known)
    BY <1>4, <2>2, <2>3, WithoutCalls
  <2> QED BY <2>3, <2>4
<1>9. AtRest' /\ AtWork' /\ Pending' /\ Rebuilt'
  BY <1>2, <1>4 DEF AtRest, AtWork, Pending, Rebuilt, Resting, InUse,
     Rebuilding, Unflushed, Flushed
<1> QED BY <1>7, <1>8, <1>9 DEF UInv

LEMMA ExpungeMovesUIDs ==
    ASSUME IInv, FInv, UInv, RenameFile, pc = "expunge"
    PROVE  UInv'
<1>1. /\ pc' = pc /\ moves' = Tail(moves) /\ moves # << >>
      /\ late' = late /\ known' = known /\ trusted' = trusted /\ astray' = astray
  BY DEF RenameFile, auxVars
<1>2. "mbx" \in Files /\ "mbc" \in Files /\ "mbi" \in Files
  BY DEF Files
<1>3. /\ fs'.new = fs.new /\ moves' # Left7
      /\ fs'.mbi \in {fs.mbi, NoIndex, fs.new.mbi}
  <2>1. CASE moves = Left7
    <3>1. Head(moves) = Out("mbx") /\ Tail(moves) = Left6 /\ Left6 # Left7
      BY <2>1 DEF Left7, Left6, Out, In
    <3> QED BY <1>1, <1>2, <3>1, AwayIs
  <2>2. CASE moves = Left6
    <3>1. Head(moves) = Out("mbc") /\ Tail(moves) = Left5 /\ Left5 # Left7
      BY <2>2 DEF Left7, Left6, Left5, Out, In
    <3> QED BY <1>1, <1>2, <3>1, AwayIs
  <2>3. CASE moves = Left5
    <3>1. Head(moves) = Out("mbi") /\ Tail(moves) = Left4 /\ Left4 # Left7
      BY <2>3 DEF Left7, Left5, Left4, Out, In
    <3> QED BY <1>1, <1>2, <3>1, AwayIs
  <2>4. CASE moves = Left4
    <3>1. Head(moves) = In("mbx") /\ Tail(moves) = Left3 /\ Left3 # Left7
      BY <2>4 DEF Left7, Left4, Left3, Out, In
    <3> QED BY <1>1, <1>2, <3>1, ArrivesIs
  <2>5. CASE moves = Left3
    <3>1. Head(moves) = In("mbc") /\ Tail(moves) = Left2 /\ Left2 # Left7
      BY <2>5 DEF Left7, Left3, Left2, Out, In
    <3> QED BY <1>1, <1>2, <3>1, ArrivesIs
  <2>6. CASE moves = Left2
    <3>1. Head(moves) = In("mbi") /\ Tail(moves) = <<Drop>> /\ <<Drop>> # Left7
      BY <2>6 DEF Left7, Left2
    <3> QED BY <1>1, <1>2, <3>1, ArrivesIs
  <2>7. CASE moves = <<Drop>>
    <3>1. Head(moves) = Drop /\ Tail(moves) = << >> /\ << >> # Left7
      BY <2>7 DEF Left7
    <3> QED BY <1>1, <3>1, DropIs
  <2> QED BY <1>1, <2>1, <2>2, <2>3, <2>4, <2>5, <2>6, <2>7 DEF FInv, Moved
<1>4. Numbered'
  <2>1. fs'.mbi.valid => Below(known, fs'.mbi.next)
    BY <1>3, NoIndexType DEF UInv, Numbered
  <2> QED BY <1>1, <1>3, <2>1 DEF UInv, Numbered
<1>5. Expunging'
  BY <1>1, <1>3 DEF UInv, Expunging
<1>6. late' = << >>
  BY <1>1 DEF IInv, Control
<1>7. AtRest' /\ AtWork' /\ Pending' /\ Rebuilt'
  BY <1>1, <1>6 DEF AtRest, AtWork, Pending, Rebuilt, Resting, InUse,
     Rebuilding, Unflushed, Flushed
<1> QED BY <1>4, <1>5, <1>7 DEF UInv

LEMMA RenameFileUIDs == ASSUME IInv, FInv, UInv, RenameFile PROVE UInv'
BY RollbackMovesUIDs, ExpungeMovesUIDs DEF RenameFile

(* The names once the flags of what was expunged do not matter any more.   *)
Unflagged(K, recs) ==
    {IF \E rec \in Range(recs) : p[1] = rec.luid THEN p
     ELSE <<p[1], p[2], FALSE>> : p \in K}

LEMMA ExpungedNames ==
    ASSUME NEW K, NEW L, NEW recs, L = Unflagged(K, recs)
    PROVE  /\ \A k \in DOMAIN recs : Named(L, recs[k].luid) = Named(K, recs[k].luid)
           /\ \A n : Below(K, n) => Below(L, n)
<1> DEFINE of(p) == \E rec \in Range(recs) : p[1] = rec.luid
           set(p) == IF of(p) THEN p ELSE <<p[1], p[2], FALSE>>
<1>1. L = {set(p) : p \in K}
  BY DEF Unflagged
<1>2. \A p : set(p)[1] = p[1] /\ (of(p) => set(p) = p)
  OBVIOUS
<1>3. \A p : \A k \in DOMAIN recs : p[1] = recs[k].luid => of(p)
  BY DEF Range
<1> HIDE DEF of, set
<1>4. ASSUME NEW k \in DOMAIN recs
      PROVE  Named(L, recs[k].luid) = Named(K, recs[k].luid)
  <2>1. ASSUME NEW p \in K, set(p)[1] = recs[k].luid PROVE set(p) \in K
    BY <1>2, <1>3, <2>1
  <2>2. ASSUME NEW p \in K, p[1] = recs[k].luid PROVE p \in L
    <3>1. set(p) = p
      BY <1>2, <1>3, <2>2
    <3> QED BY <1>1, <3>1
  <2> QED BY <1>1, <2>1, <2>2 DEF Named
<1>5. ASSUME NEW n, Below(K, n) PROVE Below(L, n)
  <2> SUFFICES ASSUME NEW p \in K PROVE set(p)[1] \in Nat /\ set(p)[1] < n
    BY <1>1 DEF Below
  <2> QED BY <1>2, <1>5 DEF Below
<1> QED BY <1>4, <1>5

(* The files when all renames are done.                                    *)
LEMMA MovedInto ==
    ASSUME IInv, FInv, pc = "expunge", moves \in {<<Drop>>, << >>}
    PROVE  fs.mbi = fs.new.mbi /\ fs.mbx = fs.new.mbx
<1>1. /\ moves # Left7 /\ moves # Left6 /\ moves # Left5
      /\ moves # Left4 /\ moves # Left3 /\ moves # Left2
  <2>1. CASE moves = <<Drop>>
    <3>1. Len(moves) = 1
      BY <2>1
    <3> QED BY ONLY <3>1 DEF Left7, Left6, Left5, Left4, Left3, Left2
  <2>2. CASE moves = << >>
    <3>1. Len(moves) = 0
      BY <2>2
    <3> QED BY ONLY <3>1 DEF Left7, Left6, Left5, Left4, Left3, Left2
  <2> QED BY <2>1, <2>2
<1>2. fs.mbx = fs.new.mbx
  BY <1>1 DEF FInv, Moved
<1>3. \/ moves \in {Left7, Left6, Left5, Left4, Left3}
      \/ moves = Left2
      \/ fs.mbi = fs.new.mbi
  BY Zenon DEF IInv, Renames, Left7, Left6, Left5, Left4, Left3, Left2
<1> QED BY <1>1, <1>2, <1>3

LEMMA ExpungedUIDs == ASSUME IInv, FInv, UInv, Expunged PROVE UInv'
<1>1. /\ pc = "expunge" /\ moves = << >> /\ pc' = "idle" /\ late' = late
      /\ trusted' = trusted /\ astray' = astray
      /\ known' = Unflagged(known, fs.mbi.recs)
  BY DEF Expunged, Unflagged
<1>2. fs.mbi = fs.new.mbi /\ fs.mbx = fs.new.mbx
  BY <1>1, MovedInto
<1>3. /\ fs'.mbx = fs.mbx /\ fs'.mbi.recs = fs.mbi.recs
      /\ fs'.mbi.next = fs.mbi.next /\ fs'.mbi.valid = fs.mbi.valid
  <2> DEFINE size == fs.mbi.size - (Len(mIndexList) - Len(fs.mbi.recs))
             i == [fs.mbi EXCEPT !.size = size]
  <2>1. fs' = [there |-> fs.there, old |-> fs.old, new |-> << >>,
               mbx |-> fs.mbx, mbc |-> fs.mbc, mbi |-> i]
    BY DEF Expunged, IInv, Disk
  <2>2. size \in Nat
    <3>1. fs.mbi.size = Len(mIndexList)
      BY <1>1, <1>2 DEF IInv, Renames
    <3>2. Len(mIndexList) \in Nat /\ Len(fs.mbi.recs) \in Nat
      BY Quoted, IndexTypes
    <3> QED BY <3>1, <3>2
  <2> HIDE DEF size
  <2>3. \A n \in Nat : /\ [fs.mbi EXCEPT !.size = n].recs = fs.mbi.recs
                       /\ [fs.mbi EXCEPT !.size = n].next = fs.mbi.next
                       /\ [fs.mbi EXCEPT !.size = n].valid = fs.mbi.valid
    BY Quoted, IndexTypes
  <2>4. i.recs = fs.mbi.recs /\ i.next = fs.mbi.next /\ i.valid = fs.mbi.valid
    BY <2>2, <2>3
  <2>5. fs'.mbx = fs.mbx /\ fs'.mbi = i
    BY <2>1
  <2> HIDE DEF i
  <2> QED BY <2>4, <2>5
<1>4. /\ \A k \in DOMAIN fs.mbi.recs :
           Named(known', fs.mbi.recs[k].luid) = Named(known, fs.mbi.recs[k].luid)
      /\ \A n : Below(known, n) => Below(known', n)
  BY <1>1, ExpungedNames
<1>5. Numbered'
  BY <1>1, <1>3, <1>4 DEF UInv, Numbered
<1>6. ~astray => Calls(fs.mbi.recs, fs.mbx, known')
  <2>1. ~astray => Calls(fs.mbi.recs, fs.mbx, known)
    BY <1>1, <1>2 DEF UInv, Expunging
  <2> QED BY <1>4, <2>1, CallsSame
<1>7. late' = << >>
  BY <1>1 DEF IInv, Control
<1> QED BY <1>1, <1>3, <1>5, <1>6, <1>7, Settles

-----------------------------------------------------------------------------
(* What a crash leaves of an append: the records of the index begin those  *)
(* that are described, and what is not written yet is blank in the cache.  *)
LEMMA CrashedAppend ==
    ASSUME IInv, FInv, UInv, pc \in Unflushed \cup Flushed, ~astray, Whole(fs.mbi),
           Begins(fs.mbx, Indexed)
    PROVE  Shows(fs.mbi.recs, fs.mbx, fs.mbc)
<1> DEFINE recs == fs.mbi.recs
           n == Len(recs)
           size == fs.mbi.size
<1>1. /\ recs \in Seq(Record) /\ n \in Nat /\ fs.mbc \in Seq(Entry) /\ size \in Nat
      /\ fs.mbx \in Seq(Text) /\ Indexed \in Seq(Text) /\ late \in Seq(Record)
  BY Quoted, IndexTypes, LenProperties, IndexedTypes DEF InUse
<1>2. size <= n /\ Len(AllRecs) <= size
  BY DEF Whole, IInv, Complete
<1>3. /\ late = << >> => recs \o late = recs
      /\ late # << >> => /\ late[1] \in Record /\ recs \o late = Append(recs, late[1])
                         /\ Len(recs \o late) = n + 1
  BY Quoted
<1> HIDE DEF recs, n, size
<1>4. pc \in Unflushed => late = << >>
  <2>1. pc \in Unflushed => AllRecs = recs \o late
    BY DEF AllRecs, recs
  <2> QED BY <1>1, <1>2, <1>3, <2>1
<1>5. size = n
  <2>1. CASE pc \in Unflushed
    <3>1. AllRecs = recs
      BY <1>3, <1>4, <2>1 DEF AllRecs, recs
    <3> QED BY <1>1, <1>2, <3>1 DEF n
  <2>2. CASE pc \notin Unflushed
    <3>1. AllRecs = recs
      BY <2>2 DEF AllRecs, recs
    <3> QED BY <1>1, <1>2, <3>1 DEF n
  <2> QED BY <2>1, <2>2
<1>6. /\ WithLate \in Seq(Record) /\ Begins(WithLate, recs)
      /\ Len(WithLate) = size + (IF pc \in {"next", "header"} THEN 1 ELSE 0)
  <2>1. CASE pc = "cache" \/ late = << >>
    <3>1. WithLate = recs
      BY <1>3, <2>1 DEF WithLate, recs
    <3>2. pc \notin {"next", "header"}
      BY <2>1 DEF FInv, Stored
    <3>3. Begins(recs, recs)
      BY <1>1, BeginsItself
    <3> QED BY <1>1, <1>5, <3>1, <3>2, <3>3 DEF n
  <2>2. CASE pc # "cache" /\ late # << >>
    <3>1. WithLate = Append(recs, late[1]) /\ late[1] \in Record
      BY <1>3, <2>2 DEF WithLate, recs
    <3>2. pc \in {"next", "header"}
      BY <1>4, <2>2 DEF Flushed
    <3>3. /\ Append(recs, late[1]) \in Seq(Record)
          /\ Len(Append(recs, late[1])) = n + 1
          /\ \A i \in 1..n : Append(recs, late[1])[i] = recs[i]
      BY <1>1, <3>1, AtEnd DEF n
    <3> QED BY <1>1, <1>5, <3>1, <3>2, <3>3 DEF Begins, n
  <2> QED BY <2>1, <2>2
<1>7. Describes(WithLate, Indexed, Cached, kept)
  <2>1. Counted
    BY <1>6 DEF Counted, size
  <2>2. ~trusted
    BY DEF UInv, Numbered
  <2> QED BY <2>1, <2>2 DEF FInv, Viewed
<1>8. Cached \in Seq(Entry) /\ \A k \in DOMAIN fs.mbc : fs.mbc[k] \in {Cached[k], Blank}
  <2>1. CASE late = << >>
    BY <1>1, <2>1 DEF Cached
  <2>2. CASE late # << >>
    <3> DEFINE e == Indexed[late[1].start + 1]
    <3>1. Len(fs.mbc) > 0 /\ fs.mbc[Len(fs.mbc)] = Blank
      <4>1. pc # "stop"
        BY <1>4, <2>2 DEF Unflushed
      <4> QED BY <2>2, <4>1 DEF FInv, Stored, UInv, Pending
    <3>2. e \in Entry
      BY <2>2 DEF FInv, Stored, Holds, Entry, Text
    <3>3. Cached = ReplaceAt(fs.mbc, Len(fs.mbc), e)
      BY <2>2 DEF Cached
    <3> HIDE DEF e
    <3>4. Len(fs.mbc) \in DOMAIN fs.mbc
      BY <1>1, <3>1, BeforeEnd
    <3>5. \A s \in Seq(Entry) : \A i \in DOMAIN s : \A x \in Entry :
            /\ ReplaceAt(s, i, x) \in Seq(Entry)
            /\ \A k \in DOMAIN s : ReplaceAt(s, i, x)[k] = IF k = i THEN x ELSE s[k]
      BY ONLY Replaced
    <3>6. fs.mbc \in Seq(Entry)
      BY <1>1
    <3>7. /\ Cached \in Seq(Entry)
          /\ \A k \in DOMAIN fs.mbc : Cached[k] = IF k = Len(fs.mbc) THEN e ELSE fs.mbc[k]
      <4> DEFINE d == fs.mbc
      <4>1. d \in Seq(Entry) /\ Len(d) \in DOMAIN d /\ Cached = ReplaceAt(d, Len(d), e)
        BY <3>3, <3>4, <3>6
      <4> HIDE DEF d
      <4>2. /\ Cached \in Seq(Entry)
            /\ \A k \in DOMAIN d : Cached[k] = IF k = Len(d) THEN e ELSE d[k]
        <5>1. \A i \in DOMAIN d : \A x \in Entry :
                /\ ReplaceAt(d, i, x) \in Seq(Entry)
                /\ \A k \in DOMAIN d : ReplaceAt(d, i, x)[k] = IF k = i THEN x ELSE d[k]
          BY ONLY <3>5, <4>1, Zenon
        <5> DEFINE m == Len(d)
        <5>2. m \in DOMAIN d /\ Cached = ReplaceAt(d, m, e)
          BY <4>1
        <5>3. \A x \in Entry :
                /\ ReplaceAt(d, m, x) \in Seq(Entry)
                /\ \A k \in DOMAIN d : ReplaceAt(d, m, x)[k] = IF k = m THEN x ELSE d[k]
          BY ONLY <5>1, <5>2, Zenon
        <5>4. /\ ReplaceAt(d, m, e) \in Seq(Entry)
              /\ \A k \in DOMAIN d : ReplaceAt(d, m, e)[k] = IF k = m THEN e ELSE d[k]
          BY ONLY <3>2, <5>3, Zenon
        <5> QED BY ONLY <5>2, <5>4, Zenon
      <4> QED BY <4>2 DEF d
    <3> QED BY ONLY <3>1, <3>7
  <2> QED BY <2>1, <2>2
<1>9. Shows(recs, fs.mbx, fs.mbc)
  BY <1>1, <1>6, <1>7, <1>8, DescribesShows
<1> QED BY <1>9 DEF recs

LEMMA CrashUIDs == ASSUME IInv, FInv, UInv, Crash PROVE UInv'
<1>1. /\ pc' = "closed" /\ late' = << >> /\ newer' = newer /\ hidden' = hidden
      /\ known' = known /\ trusted' = trusted /\ astray' = astray
  BY DEF Crash, timeVars
<1>2. /\ fs'.there = fs.there /\ fs'.mbx = fs.mbx /\ fs'.mbc = fs.mbc /\ fs'.mbi = fs.mbi
  BY DEF Crash, IInv, Disk
<1>3. pc' \in Resting
  BY <1>1 DEF Resting
<1>4. Numbered'
  BY <1>1, <1>2 DEF UInv, Numbered
<1>5. Rebuilt'
  BY <1>1 DEF Rebuilt, Rebuilding
<1>6. ASSUME ~astray, fs.mbi.valid, ~Bereft
      PROVE  /\ Calls(fs.mbi.recs, fs.mbx, known)
             /\ Whole(fs.mbi) => Shows(fs.mbi.recs, fs.mbx, fs.mbc)
  <2>1. CASE pc \in Resting
    BY <1>6, <2>1 DEF UInv, AtRest
  <2>2. CASE pc = "idle"
    BY <1>6, <2>2, Idle
  <2>3. CASE pc \in Unflushed \cup Flushed
    <3>1. Begins(fs.mbx, Indexed)
      <4>1. fs.mbx \in Seq(Text)
        BY Quoted
      <4>2. ASSUME Len(fs.mbx) > 0 PROVE Begins(fs.mbx, Front(fs.mbx))
        <5>1. /\ Len(Front(fs.mbx)) = Len(fs.mbx) - 1 /\ Len(fs.mbx) \in Nat
              /\ \A i \in 1..(Len(fs.mbx) - 1) : Front(fs.mbx)[i] = fs.mbx[i]
          BY <4>1, <4>2, BeforeEnd
        <5> QED BY <5>1 DEF Begins
      <4>3. Begins(fs.mbx, fs.mbx)
        BY <4>1, BeginsItself
      <4>4. CASE pc \in {"text", "entry", "cache"}
        BY <4>2, <4>4 DEF FInv, Stored, Indexed
      <4>5. CASE pc = "rollback"
        <5>1. Indexed = fs.new.mbx
          BY <4>5 DEF Indexed
        <5>2. CASE moves = <<Out("mbx"), In("mbx"), Drop>>
          <6>1. fs.new.mbx = Front(fs.mbx)
            BY <4>5, <5>2 DEF UInv, Pending
          <6>2. Len(fs.mbx) > 0
            <7>1. fs.mbx # << >>
              <8>1. ~AsOld
                BY <4>5 DEF FInv, Older
              <8> QED BY <1>6, <8>1 DEF Bereft
            <7> QED BY <4>1, <7>1, EmptySeq, LenProperties
          <6> QED BY <4>2, <5>1, <6>1, <6>2
        <5>3. CASE moves = <<In("mbx"), Drop>> /\ "mbx" \notin fs.there
          BY <1>6, <5>3 DEF Bereft, FInv, Moved
        <5>4. CASE fs.mbx = fs.new.mbx
          BY <4>3, <5>1, <5>4
        <5> QED BY <4>5, <5>2, <5>3, <5>4 DEF FInv, Moved
      <4>6. CASE pc \notin {"text", "entry", "cache", "rollback"}
        BY <4>3, <4>6 DEF Indexed
      <4> QED BY <4>4, <4>5, <4>6
    <3>2. Calls(fs.mbi.recs, Indexed, known)
      BY <1>6, <2>3 DEF UInv, AtWork, InUse
    <3>3. Calls(fs.mbi.recs, fs.mbx, known)
      <4>1. /\ Indexed \in Seq(Text) /\ fs.mbx \in Seq(Text)
            /\ fs.mbi.recs \in Seq(Record)
        BY <2>3, Quoted, IndexedTypes DEF InUse
      <4> QED BY <3>1, <3>2, <4>1, CallsLonger
    <3>4. Whole(fs.mbi) => Shows(fs.mbi.recs, fs.mbx, fs.mbc)
      BY <1>6, <2>3, <3>1, CrashedAppend
    <3> QED BY <3>3, <3>4
  <2>4. CASE pc = "expunge"
    <3>1. "mbx" \in fs.there
      BY <1>6 DEF Bereft, FInv, Moved
    <3>2. "mbi" \in fs.there
      BY <1>6, NoIndexType DEF FInv, Moved
    <3>3. moves = Left7 \/ moves \in {<<Drop>>, << >>}
      BY <2>4, <3>1, <3>2 DEF FInv, Moved, Files
    <3>4. CASE moves = Left7
      BY <1>6, <2>4, <3>4 DEF UInv, Expunging
    <3>5. CASE moves \in {<<Drop>>, << >>}
      <4>1. fs.mbi = fs.new.mbi /\ fs.mbx = fs.new.mbx
        BY <2>4, <3>5, MovedInto
      <4>2. Calls(fs.mbi.recs, fs.mbx, known)
        BY <1>6, <2>4, <4>1 DEF UInv, Expunging
      <4>3. ~Whole(fs.mbi)
        <5>1. fs.mbi.size = Len(mIndexList) /\ Len(fs.mbi.recs) < Len(mIndexList)
          BY <2>4, <4>1 DEF IInv, Renames, FInv, Moved
        <5>2. Len(fs.mbi.recs) \in Nat /\ Len(mIndexList) \in Nat
          BY Quoted, IndexTypes
        <5> QED BY <5>1, <5>2 DEF Whole
      <4> QED BY <4>2, <4>3
    <3> QED BY <3>3, <3>4, <3>5
  <2>5. \/ pc \in Resting \/ pc = "idle" \/ pc \in Unflushed \cup Flushed
        \/ pc = "expunge"
    BY DEF IInv, Control, Resting
  <2> QED BY <2>1, <2>2, <2>3, <2>4, <2>5
<1>7. AtRest'
  <2>1. Bereft' <=> Bereft
    BY <1>1, <1>2 DEF Bereft, AsOld
  <2> QED BY <1>1, <1>2, <1>6, <2>1 DEF AtRest, Whole
<1> QED BY <1>1, <1>3, <1>4, <1>5, <1>7, StillRests

-----------------------------------------------------------------------------
LEMMA InitUInv == Init => UInv
<1> SUFFICES ASSUME Init PROVE UInv
  OBVIOUS
<1> DEFINE i == FreshIndex(Len(StartMsgs))
<1>1. /\ pc = "closed" /\ late = << >> /\ trusted = FALSE /\ astray = FALSE
      /\ fs.mbx = StartMsgs /\ fs.mbc = StartMsgs /\ fs.mbi = i
      /\ known = Given(i.recs, StartMsgs)
  BY DEF Init
<1>2. FInv
  BY InitFInv
<1>3. /\ fs.mbx \in Seq(Text) /\ fs.mbc \in Seq(Entry) /\ fs.mbi.recs \in Seq(Record)
  BY <1>2, Quoted
<1>4. Calls(fs.mbi.recs, fs.mbx, known) /\ Below(known, fs.mbi.next)
  <2>1. Calls(i.recs, StartMsgs, Given(i.recs, StartMsgs))
        /\ Below(Given(i.recs, StartMsgs), i.next)
    BY <1>1, <1>3, FreshCalls
  <2> HIDE DEF i
  <2> QED BY <1>1, <2>1
<1>5. Shows(fs.mbi.recs, fs.mbx, fs.mbc)
  <2>1. \A k \in 1..Len(StartMsgs) : i.recs[k].start = k - 1 /\ i.recs[k].cache = k - 1
    BY DEF FreshIndex, Index, InOrder
  <2>2. DOMAIN i.recs = 1..Len(StartMsgs)
    BY DEF FreshIndex, Index, InOrder
  <2> HIDE DEF i
  <2> QED BY <1>1, <2>1, <2>2 DEF Shows
<1>6. Numbered
  BY <1>1, <1>4 DEF Numbered
<1>7. AtRest
  BY <1>4, <1>5 DEF AtRest
<1>8. AtWork /\ Pending /\ Rebuilt /\ Expunging
  BY <1>1 DEF AtWork, Pending, Rebuilt, Expunging, InUse, Unflushed, Flushed, Rebuilding
<1> QED BY <1>6, <1>7, <1>8 DEF UInv

LEMMA StutterUIDs == ASSUME UInv, UNCHANGED vars PROVE UInv'
<1>1. /\ fs' = fs /\ newer' = newer /\ hidden' = hidden /\ pc' = pc
      /\ late' = late /\ moves' = moves
      /\ known' = known /\ trusted' = trusted /\ astray' = astray
  BY DEF vars, timeVars, memVars, auxVars
<1>2. Indexed' = Indexed /\ (Bereft' <=> Bereft) /\ (Whole(fs.mbi)' <=> Whole(fs.mbi))
  BY <1>1 DEF Indexed, Bereft, AsOld, Whole
<1>3. Numbered' /\ AtRest' /\ AtWork'
  BY <1>1, <1>2 DEF UInv, Numbered, AtRest, AtWork
<1>4. Pending' /\ Rebuilt' /\ Expunging'
  BY <1>1, <1>2 DEF UInv, Pending, Rebuilt, Expunging
<1> QED BY <1>3, <1>4 DEF UInv

(* The names the index on disk gives are those that were given, at rest, in*)
(* every step of an append, an expunge or a reconstruction, and after any  *)
(* crash (LocalUIDNext in AppendMessage and Reconstruct).                  *)
THEOREM UIDsInductive == Spec => [](IInv /\ FInv /\ UInv)
<1>1. Init => UInv
  BY InitUInv
<1>2. ASSUME IInv, FInv, UInv, [Next]_vars PROVE UInv'
  <2>1. CASE Next
    BY <1>2, <2>1, SelectMboxUIDs, CreateMboxUIDs, RebuildMboxUIDs, CloseMboxUIDs,
       RewriteCacheUIDs, TruncateIndexUIDs, RewriteHeaderUIDs, RewriteRecordsUIDs,
       StartAppendUIDs, WriteTextUIDs, WriteRestUIDs, ReadIndexHeaderUIDs,
       WriteEntryUIDs, WriteLocalUIDNextUIDs, WriteIndexSizeUIDs, NextAppendUIDs,
       StopAppendUIDs, SyncAppendUIDs, RollbackAppendUIDs, RolledBackUIDs,
       SetFlagUIDs, ExpungeMessageUIDs, RenameFileUIDs, ExpungedUIDs, CrashUIDs
    DEF Next
  <2>2. CASE UNCHANGED vars
    BY <1>2, <2>2, StutterUIDs
  <2> QED BY <1>2, <2>1, <2>2
<1> QED BY <1>1, <1>2, FilesInductive, PTL DEF Spec

(* In an open mailbox the local UID of a record is that of the message it  *)
(* was given to, and the flag is the one last set, whatever crash, recovery*)
(* or expunge there was: a local UID is only given when none below Local-  *)
(* UIDNext can be its like, and an index is recovered only when what the   *)
(* cache shows of its records tells which message is whose (AppendMessage, *)
(* SetFlag, ExpungeMessage, ReconstructRecover).                           *)
THEOREM RecordsAreKept == Spec => []RecordsKept
<1>1. ASSUME IInv, FInv, UInv PROVE RecordsKept
  <2> SUFFICES ASSUME pc = "idle", ~astray, NEW k \in DOMAIN mIndexList
               PROVE  Named(known, mIndexList[k].luid) =
                        {<<mIndexList[k].luid, Shown(mIndexList[k]), mIndexList[k].deleted>>}
    BY DEF RecordsKept, Named
  <2>1. /\ fs.mbi.recs = mIndexList
        /\ Calls(fs.mbi.recs, fs.mbx, known)
        /\ Describes(fs.mbi.recs, fs.mbx, fs.mbc, kept)
    BY <1>1, Idle
  <2>2. Named(known, mIndexList[k].luid) = {Item(mIndexList[k], fs.mbx)}
    BY <2>1 DEF Calls
  <2>3. Shown(mIndexList[k]) = fs.mbx[mIndexList[k].start + 1]
    BY <1>1, <2>1, DescribedOffsets DEF FInv
  <2> QED BY <2>2, <2>3 DEF Item
<1> QED BY <1>1, UIDsInductive, PTL
=============================================================================
