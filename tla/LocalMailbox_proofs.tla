------------------------- MODULE LocalMailbox_proofs -------------------------
(***************************************************************************)
(* Theorems about the index of a local mailbox: for any messages and any   *)
(* number of crashes and failed appends, what an open mailbox has in memory*)
(* is on disk, and what was closed in order opens again as it is.          *)
(***************************************************************************)
EXTENDS LocalMailbox, SequenceTheorems, FiniteSetTheorems, TLAPS

-----------------------------------------------------------------------------
(* Sequences of whatever elements.                                         *)
Listed(s) == s \in Seq(Range(s))

LEMMA SeqIsListed == ASSUME NEW S, NEW s \in Seq(S)
                     PROVE  Listed(s) /\ Len(s) \in Nat
BY SeqOfRange, LenProperties DEF Listed

LEMMA EmptyIsListed == Listed(<< >>) /\ Len(<< >>) = 0
<1>1. << >> \in Seq({})
  BY EmptySeq
<1> QED BY <1>1, SeqIsListed, EmptySeq

LEMMA ListedLen == ASSUME NEW s, Listed(s)
                   PROVE  /\ Len(s) \in Nat
                          /\ DOMAIN s = 1..Len(s)
                          /\ Len(s) = 0 => s = << >>
BY LenProperties, EmptySeq DEF Listed

LEMMA ListedConcat ==
    ASSUME NEW s, NEW t, Listed(s), Listed(t)
    PROVE  /\ Listed(s \o t)
           /\ Len(s \o t) = Len(s) + Len(t)
           /\ t = << >> => s \o t = s
<1> DEFINE S == Range(s) \cup Range(t)
<1>1. s \in Seq(S) /\ t \in Seq(S)
  BY SeqMonotonic DEF Listed
<1>2. s \o t \in Seq(S) /\ Len(s \o t) = Len(s) + Len(t)
  BY <1>1, ConcatProperties
<1> QED BY <1>1, <1>2, SeqIsListed, ConcatEmptySeq

LEMMA ListedAppend ==
    ASSUME NEW s, NEW e, Listed(s)
    PROVE  Listed(Append(s, e)) /\ Len(Append(s, e)) = Len(s) + 1
<1> DEFINE S == Range(s) \cup {e}
<1>1. s \in Seq(S) /\ e \in S
  BY SeqMonotonic DEF Listed
<1>2. Append(s, e) \in Seq(S) /\ Len(Append(s, e)) = Len(s) + 1
  BY <1>1, AppendProperties
<1> QED BY <1>2, SeqIsListed

LEMMA ListedReplace ==
    ASSUME NEW s, NEW i, NEW e, Listed(s)
    PROVE  Listed(ReplaceAt(s, i, e)) /\ Len(ReplaceAt(s, i, e)) = Len(s)
<1> DEFINE S == Range(s) \cup {e}
           t == ReplaceAt(s, i, e)
<1>1. s \in Seq(S) /\ DOMAIN s = 1..Len(s) /\ Len(s) \in Nat
  BY SeqMonotonic, ListedLen DEF Listed
<1>0. s \in [1..Len(s) -> S]
  BY <1>1, ElementOfSeq
<1>2. [s EXCEPT ![i] = e] \in [1..Len(s) -> S]
  BY <1>0
<1>3. t \in Seq(S)
  BY <1>1, <1>2, SeqDef DEF ReplaceAt
<1>4. Len(t) = Len(s)
  BY <1>1, <1>2, <1>3, LenProperties DEF ReplaceAt
<1> QED BY <1>3, <1>4, SeqIsListed

LEMMA ListedFront ==
    ASSUME NEW s, NEW n \in Nat, Listed(s), n <= Len(s)
    PROVE  Listed(SubSeq(s, 1, n)) /\ Len(SubSeq(s, 1, n)) = n
<1>1. s \in Seq(Range(s)) /\ Len(s) \in Nat
  BY ListedLen DEF Listed
<1>2. SubSeq(s, 1, n) \in Seq(Range(s)) /\ Len(SubSeq(s, 1, n)) = n
  BY <1>1, SubSeqProperties
<1> QED BY <1>2, SeqIsListed

LEMMA ListedFunction ==
    ASSUME NEW n \in Nat, NEW f, f = [i \in 1..n |-> f[i]]
    PROVE  Listed(f) /\ Len(f) = n
<1> DEFINE S == {f[i] : i \in 1..n}
<1>1. f \in [1..n -> S]
  OBVIOUS
<1>2. f \in Seq(S)
  BY <1>1, SeqDef
<1>3. Len(f) = n
  BY <1>1, <1>2, LenProperties
<1> QED BY <1>2, <1>3, SeqIsListed

(* What is picked from a sequence is one, and not longer.                  *)
LEMMA PickIsListed ==
    ASSUME NEW s, NEW S, Listed(s), S \subseteq DOMAIN s
    PROVE  Listed(Pick(s, S)) /\ Len(Pick(s, S)) <= Len(s)
<1>1. Len(s) \in Nat /\ DOMAIN s = 1..Len(s)
  BY ListedLen
<1>2. IsFiniteSet(1..Len(s)) /\ Cardinality(1..Len(s)) = Len(s)
  BY <1>1, FS_Interval
<1>3. IsFiniteSet(S) /\ Cardinality(S) <= Len(s)
  BY <1>1, <1>2, FS_Subset
<1>4. Cardinality(S) \in Nat
  BY <1>3, FS_CardinalityType
<1>5. Pick(s, S) = [i \in 1..Cardinality(S) |-> Pick(s, S)[i]]
  BY DEF Pick
<1>6. Listed(Pick(s, S)) /\ Len(Pick(s, S)) = Cardinality(S)
  BY <1>4, <1>5, ListedFunction
<1> QED BY <1>3, <1>6

-----------------------------------------------------------------------------
(* The invariant, by parts.                                                *)
Rebuilding == {"recache", "reindex", "reheader", "rerecord"}
Unflushed  == {"write", "text", "entry", "appended", "failed", "rollback", "stop"}
Flushed    == {"cache", "next", "header"}

IsIndex(i) ==
    /\ i = [valid |-> i.valid, size |-> i.size, next |-> i.next, recs |-> i.recs]
    /\ i.valid \in BOOLEAN /\ i.size \in Nat
    /\ Listed(i.recs) /\ Len(i.recs) <= i.size

Disk ==
    /\ fs = [there |-> fs.there, old |-> fs.old, new |-> fs.new,
             mbx |-> fs.mbx, mbc |-> fs.mbc, mbi |-> fs.mbi]
    /\ Listed(fs.mbx) /\ IsIndex(fs.mbi)
    /\ pc = "text" => Len(fs.mbx) > 0

Control ==
    /\ pc \in {"closed", "created", "idle", "expunge"}
                \cup Rebuilding \cup Unflushed \cup Flushed
    /\ open \in BOOLEAN /\ clean \in BOOLEAN /\ (open => clean)
    /\ Listed(mIndexList) /\ Listed(late)
    /\ pc \in {"next", "header"} => Len(late) = 1
    /\ pc \in {"closed", "created"} \cup Rebuilding => late = << >> /\ ~open
    /\ pc \in {"idle", "expunge"} => late = << >> /\ open

(* The files a reconstruction is about to write.                           *)
Anew ==
    /\ pc \in Rebuilding =>
         /\ IsIndex(fs.new.mbi) /\ fs.new.mbi.valid
         /\ fs.new.mbi.size = Len(fs.new.mbi.recs)
         /\ "mbc" \in fs.there
    /\ pc \in {"reheader", "rerecord"} => "mbi" \in fs.there

(* The renames that are left, and what those already made have done.       *)
Out(f) == <<"out", f>>
In(f)  == <<"in", f>>
Drop   == <<"drop">>

Renames ==
    /\ pc = "rollback" =>
         /\ Listed(fs.new.mbx)
         /\ moves \in {<<Out("mbx"), In("mbx"), Drop>>, <<In("mbx"), Drop>>,
                       <<Drop>>, << >>}
    /\ pc = "expunge" =>
         /\ Listed(fs.new.mbx)
         /\ IsIndex(fs.new.mbi) /\ fs.new.mbi.valid
         /\ fs.new.mbi.size = Len(mIndexList)
         /\ \/ moves \in {<<Out("mbx"), Out("mbc"), Out("mbi"),
                            In("mbx"), In("mbc"), In("mbi"), Drop>>,
                          <<Out("mbc"), Out("mbi"),
                            In("mbx"), In("mbc"), In("mbi"), Drop>>,
                          <<Out("mbi"), In("mbx"), In("mbc"), In("mbi"), Drop>>,
                          <<In("mbx"), In("mbc"), In("mbi"), Drop>>,
                          <<In("mbc"), In("mbi"), Drop>>}
            \/ moves = <<In("mbi"), Drop>> /\ "mbc" \in fs.there
            \/ moves \in {<<Drop>>, << >>} /\ Readable /\ fs.mbi = fs.new.mbi

(* The records of the index with those that wait in its stream.            *)
AllRecs == IF pc \in Unflushed THEN fs.mbi.recs \o late ELSE fs.mbi.recs

Settled == pc = "idle" \/ (pc = "closed" /\ clean /\ "mbx" \in fs.there)

Complete ==
    /\ Len(AllRecs) <= fs.mbi.size
    /\ Settled \/ (clean /\ pc \in Unflushed \cup Flushed) =>
         Readable /\ fs.mbi.size = Len(AllRecs)
    /\ open /\ pc # "expunge" => AllRecs = mIndexList
    /\ Settled => ~OutOfDate

IInv == Disk /\ Control /\ Anew /\ Renames /\ Complete

-----------------------------------------------------------------------------
(* What the operations on files do to them.                                *)
LEMMA Written ==
    ASSUME NEW f \in Files, NEW content, Disk, Write(f, content)
    PROVE  /\ fs' = [there |-> fs'.there, old |-> fs'.old, new |-> fs'.new,
                     mbx |-> fs'.mbx, mbc |-> fs'.mbc, mbi |-> fs'.mbi]
           /\ fs'.there = fs.there \cup {f} /\ fs'.new = fs.new
           /\ fs'.mbx = IF f = "mbx" THEN content ELSE fs.mbx
           /\ fs'.mbi = IF f = "mbi" THEN content ELSE fs.mbi
           /\ f = "mbi" => newer' = {}
<1>1. f \in {"mbx", "mbc", "mbi"}
  BY DEF Files
<1>2. f = "mbi" => newer' = {}
  BY DEF Write, Modified
<1>3. CASE f = "mbx"
  BY <1>2, <1>3 DEF Write, Disk
<1>4. CASE f = "mbc"
  BY <1>2, <1>4 DEF Write, Disk
<1>5. CASE f = "mbi"
  BY <1>2, <1>5 DEF Write, Disk
<1> QED BY <1>1, <1>3, <1>4, <1>5

(* An index at rest is complete and the newest file.                       *)
LEMMA SettledReadable ==
    ASSUME IInv, Settled
    PROVE  Readable /\ fs.mbi.size = Len(fs.mbi.recs) /\ newer = {}
BY DEF IInv, Complete, Settled, AllRecs, Unflushed, OutOfDate

LEMMA NoIndexIsIndex == IsIndex(NoIndex)
BY EmptyIsListed DEF IsIndex, NoIndex

LEMMA IndexOf ==
    ASSUME NEW size \in Nat, NEW next, NEW recs, Listed(recs), Len(recs) <= size
    PROVE  IsIndex(Index(size, next, recs)) /\ Index(size, next, recs).valid
BY DEF IsIndex, Index

LEMMA FreshIsIndex ==
    ASSUME NEW n \in Nat
    PROVE  /\ IsIndex(FreshIndex(n)) /\ FreshIndex(n).valid
           /\ FreshIndex(n).size = Len(FreshIndex(n).recs)
<1> DEFINE fresh == InOrder(n, [k \in 1..n |-> FALSE], [k \in 1..n |-> k])
<1>1. fresh = [k \in 1..n |-> fresh[k]]
  BY DEF InOrder
<1>2. Listed(fresh) /\ Len(fresh) = n
  BY <1>1, ListedFunction
<1>3. FreshIndex(n) = Index(n, n + 1, fresh)
  BY DEF FreshIndex
<1> HIDE DEF fresh
<1>4. IsIndex(Index(n, n + 1, fresh)) /\ Index(n, n + 1, fresh).valid
  BY <1>2, IndexOf
<1>5. Index(n, n + 1, fresh).size = Len(Index(n, n + 1, fresh).recs)
  BY <1>2 DEF Index
<1> QED BY <1>3, <1>4, <1>5

(* What a reconstruction makes has a record for each message.              *)
LEMMA ReconstructedIsIndex ==
    ASSUME IInv
    PROVE  /\ IsIndex(Reconstructed) /\ Reconstructed.valid
           /\ Reconstructed.size = Len(Reconstructed.recs)
<1> DEFINE n == Len(fs.mbx)
           recs == Records(fs.mbi)
           was(j) == recs[CHOOSE k \in Match(recs, j) : TRUE]
           found == InOrder(n, [j \in 1..n |-> was(j).deleted],
                               [j \in 1..n |-> was(j).luid])
<1>1. n \in Nat
  BY ListedLen DEF IInv, Disk
<1>2. found = [k \in 1..n |-> found[k]]
  BY DEF InOrder
<1>3. Listed(found) /\ Len(found) = n
  BY <1>1, <1>2, ListedFunction
<1>4. Reconstructed = IF ReconstructRecover THEN Index(n, fs.mbi.next, found)
                      ELSE FreshIndex(n)
  BY DEF Reconstructed
<1> HIDE DEF found
<1>5. IsIndex(Index(n, fs.mbi.next, found)) /\ Index(n, fs.mbi.next, found).valid
  BY <1>1, <1>3, IndexOf
<1>6. Index(n, fs.mbi.next, found).size = Len(Index(n, fs.mbi.next, found).recs)
  BY <1>3 DEF Index
<1> QED BY <1>1, <1>4, <1>5, <1>6, FreshIsIndex

(* The renames as they stand at first.                                     *)
LEMMA ReplacingOne == Replacing(<<"mbx">>) = <<Out("mbx"), In("mbx"), Drop>>
<1> DEFINE S == {Out("mbx"), In("mbx"), Drop}
<1>1. Each("out", <<"mbx">>) = <<Out("mbx")>> /\ Each("in", <<"mbx">>) = <<In("mbx")>>
  BY DEF Each, Out, In
<1>2. Replacing(<<"mbx">>) = (<<Out("mbx")>> \o <<In("mbx")>>) \o <<Drop>>
  BY <1>1 DEF Replacing, Drop
<1>3. /\ <<Out("mbx")>> \in Seq(S) /\ <<In("mbx")>> \in Seq(S) /\ <<Drop>> \in Seq(S)
      /\ <<Out("mbx"), In("mbx")>> \in Seq(S) /\ <<Out("mbx"), In("mbx"), Drop>> \in Seq(S)
  OBVIOUS
<1> DEFINE s == <<Out("mbx")>> \o <<In("mbx")>>
<1>4. /\ s \in Seq(S) /\ Len(s) = 2
      /\ \A i \in 1..2 : s[i] = <<Out("mbx"), In("mbx")>>[i]
  BY <1>3, ConcatProperties
<1> HIDE DEF s
<1>5. s = <<Out("mbx"), In("mbx")>>
  BY <1>3, <1>4, SeqEqual
<1> DEFINE t == <<Out("mbx"), In("mbx")>> \o <<Drop>>
<1>6. /\ t \in Seq(S) /\ Len(t) = 3
      /\ \A i \in 1..3 : t[i] = <<Out("mbx"), In("mbx"), Drop>>[i]
  BY <1>3, ConcatProperties
<1>7. t = <<Out("mbx"), In("mbx"), Drop>>
  BY <1>3, <1>6, SeqEqual
<1> QED BY <1>2, <1>5, <1>7 DEF s

LEMMA ReplacingThree ==
    Replacing(<<"mbx", "mbc", "mbi">>) =
        <<Out("mbx"), Out("mbc"), Out("mbi"), In("mbx"), In("mbc"), In("mbi"), Drop>>
<1> DEFINE out == <<Out("mbx"), Out("mbc"), Out("mbi")>>
           in == <<In("mbx"), In("mbc"), In("mbi")>>
           all == <<Out("mbx"), Out("mbc"), Out("mbi"),
                    In("mbx"), In("mbc"), In("mbi"), Drop>>
           both == <<Out("mbx"), Out("mbc"), Out("mbi"),
                     In("mbx"), In("mbc"), In("mbi")>>
           S == {Out("mbx"), Out("mbc"), Out("mbi"), In("mbx"), In("mbc"), In("mbi"), Drop}
<1>1. /\ Each("out", <<"mbx", "mbc", "mbi">>) = out
      /\ Each("in", <<"mbx", "mbc", "mbi">>) = in
  BY DEF Each, Out, In
<1>2. Replacing(<<"mbx", "mbc", "mbi">>) = (out \o in) \o <<Drop>>
  BY <1>1 DEF Replacing, Drop
<1>3. out \in Seq(S) /\ in \in Seq(S) /\ <<Drop>> \in Seq(S)
  OBVIOUS
<1>4. all \in Seq(S) /\ both \in Seq(S)
  OBVIOUS
<1> DEFINE s == out \o in
<1>5. s \in Seq(S) /\ Len(s) = 6 /\ \A i \in 1..6 : s[i] = both[i]
  BY <1>3, ConcatProperties
<1> HIDE DEF s
<1>6. s = both
  BY <1>4, <1>5, SeqEqual
<1>7. /\ both \o <<Drop>> \in Seq(S) /\ Len(both \o <<Drop>>) = 7
      /\ \A i \in 1..7 : (both \o <<Drop>>)[i] = all[i]
  BY <1>3, <1>4, ConcatProperties
<1>8. both \o <<Drop>> = all
  BY <1>4, <1>7, SeqEqual
<1> QED BY <1>2, <1>6, <1>8 DEF s

-----------------------------------------------------------------------------
LEMMA InitIInv == Init => IInv
<1> SUFFICES ASSUME Init PROVE IInv
  OBVIOUS
<1>1. StartMsgs \in Seq(Msgs)
  BY LocalMailboxAssumption
<1>2. Listed(StartMsgs) /\ Len(StartMsgs) \in Nat
  BY <1>1, SeqIsListed
<1> DEFINE i == FreshIndex(Len(StartMsgs))
<1>3. IsIndex(i) /\ i.valid /\ i.size = Len(i.recs)
  BY <1>2, FreshIsIndex
<1>4. fs = [there |-> Files, old |-> << >>, new |-> << >>,
            mbx |-> StartMsgs, mbc |-> StartMsgs, mbi |-> i]
  BY DEF Init
<1> HIDE DEF i
<1>5. /\ pc = "closed" /\ open = FALSE /\ clean = TRUE
      /\ mIndexList = << >> /\ late = << >> /\ newer = {}
  BY DEF Init
<1>6. Disk
  BY <1>2, <1>3, <1>4, <1>5 DEF Disk
<1>7. Control
  BY <1>5, EmptyIsListed DEF Control, Rebuilding, Unflushed, Flushed
<1>8. Anew /\ Renames
  BY <1>5 DEF Anew, Renames, Rebuilding
<1>9. Len(i.recs) \in Nat /\ i.size \in Nat
  BY <1>3, ListedLen DEF IsIndex
<1>10. Complete
  BY <1>3, <1>4, <1>5, <1>9 DEF Complete, Settled, AllRecs, Unflushed, Flushed, Readable,
                           OutOfDate, Files
<1> QED BY <1>6, <1>7, <1>8, <1>10 DEF IInv

-----------------------------------------------------------------------------
(* Opening, closing and reconstructing.                                    *)
LEMMA TouchMboxKeeps ==
    ASSUME IInv, NEW what, TouchMbox(what)
    PROVE  IInv'
<1>1. /\ fs' = [there |-> Files, old |-> << >>, new |-> fs.new,
                mbx |-> fs.mbx, mbc |-> fs.mbc, mbi |-> fs.mbi]
      /\ pc = "closed" /\ pc' = "created"
      /\ open' = open /\ clean' = clean /\ mIndexList' = mIndexList /\ late' = late
  BY DEF TouchMbox, IInv, Disk, memVars
<1>2. Disk'
  BY <1>1 DEF IInv, Disk
<1>3. Control'
  BY <1>1 DEF IInv, Control, Rebuilding, Unflushed, Flushed
<1>4. Anew' /\ Renames'
  BY <1>1 DEF Anew, Renames, Rebuilding
<1>5. Complete'
  BY <1>1, <1>3 DEF IInv, Complete, AllRecs, Settled, Unflushed, Flushed, Control
<1> QED BY <1>2, <1>3, <1>4, <1>5 DEF IInv

LEMMA ReconstructKeeps ==
    ASSUME IInv, NEW what, pc \in {"closed", "created"}, Reconstruct(what)
    PROVE  IInv'
<1>1. /\ fs' = [there |-> fs.there \cup {"mbc"}, old |-> fs.old,
                new |-> [mbi |-> Reconstructed, recovered |-> ReconstructRecover],
                mbx |-> fs.mbx, mbc |-> << >>, mbi |-> fs.mbi]
      /\ pc' = "recache"
      /\ open' = open /\ clean' = clean /\ mIndexList' = mIndexList /\ late' = late
  BY DEF Reconstruct, IInv, Disk, memVars, auxVars
<1>2. Disk'
  BY <1>1 DEF IInv, Disk
<1>3. Control'
  BY <1>1 DEF IInv, Control, Rebuilding, Unflushed, Flushed
<1>4. Anew'
  BY <1>1, ReconstructedIsIndex DEF Anew, Rebuilding
<1>5. Renames'
  BY <1>1 DEF Renames
<1>6. Complete'
  BY <1>1, <1>3 DEF IInv, Complete, AllRecs, Settled, Unflushed, Flushed, Control, Rebuilding
<1> QED BY <1>2, <1>3, <1>4, <1>5, <1>6 DEF IInv

LEMMA RewriteCacheKeeps == IInv /\ RewriteCache => IInv'
<1> SUFFICES ASSUME IInv, RewriteCache PROVE IInv'
  OBVIOUS
<1>1. /\ pc = "recache" /\ pc' = "reindex"
      /\ open' = open /\ clean' = clean /\ mIndexList' = mIndexList /\ late' = late
  BY DEF RewriteCache, memVars, auxVars
<1>2. /\ fs' = [there |-> fs'.there, old |-> fs'.old, new |-> fs'.new,
                mbx |-> fs'.mbx, mbc |-> fs'.mbc, mbi |-> fs'.mbi]
      /\ fs'.there = fs.there \cup {"mbc"} /\ fs'.new = fs.new
      /\ fs'.mbx = fs.mbx /\ fs'.mbi = fs.mbi
  BY Written DEF RewriteCache, IInv, Files
<1>3. Disk'
  BY <1>1, <1>2 DEF IInv, Disk
<1>4. Control'
  BY <1>1 DEF IInv, Control, Rebuilding, Unflushed, Flushed
<1>5. Anew' /\ Renames'
  BY <1>1, <1>2 DEF IInv, Anew, Renames, Rebuilding
<1>6. Complete'
  BY <1>1, <1>2, <1>4 DEF IInv, Complete, AllRecs, Settled, Unflushed, Flushed, Control, Rebuilding
<1> QED BY <1>3, <1>4, <1>5, <1>6 DEF IInv

LEMMA TruncateIndexKeeps == IInv /\ TruncateIndex => IInv'
<1> SUFFICES ASSUME IInv, TruncateIndex PROVE IInv'
  OBVIOUS
<1>1. /\ pc = "reindex" /\ pc' = "reheader"
      /\ open' = open /\ clean' = clean /\ mIndexList' = mIndexList /\ late' = late
  BY DEF TruncateIndex, memVars
<1>2. /\ fs' = [there |-> fs'.there, old |-> fs'.old, new |-> fs'.new,
                mbx |-> fs'.mbx, mbc |-> fs'.mbc, mbi |-> fs'.mbi]
      /\ fs'.there = fs.there \cup {"mbi"} /\ fs'.new = fs.new
      /\ fs'.mbx = fs.mbx /\ fs'.mbi = NoIndex
  BY Written DEF TruncateIndex, IInv, Files
<1>3. Disk'
  BY <1>1, <1>2, NoIndexIsIndex DEF IInv, Disk
<1>4. Control'
  BY <1>1 DEF IInv, Control, Rebuilding, Unflushed, Flushed
<1>5. Anew' /\ Renames'
  BY <1>1, <1>2 DEF IInv, Anew, Renames, Rebuilding
<1>6. Complete'
  BY <1>1, <1>2, <1>4, EmptyIsListed
  DEF IInv, Complete, AllRecs, Settled, Unflushed, Flushed, Control, Rebuilding, NoIndex
<1> QED BY <1>3, <1>4, <1>5, <1>6 DEF IInv

LEMMA RewriteHeaderKeeps == IInv /\ RewriteHeader => IInv'
<1> SUFFICES ASSUME IInv, RewriteHeader PROVE IInv'
  OBVIOUS
<1>1. /\ pc = "reheader" /\ pc' = "rerecord"
      /\ open' = open /\ clean' = clean /\ mIndexList' = mIndexList /\ late' = late
  BY DEF RewriteHeader, memVars, auxVars
<1> DEFINE i == [fs.new.mbi EXCEPT !.recs = << >>]
<1>2. /\ fs' = [there |-> fs'.there, old |-> fs'.old, new |-> fs'.new,
                mbx |-> fs'.mbx, mbc |-> fs'.mbc, mbi |-> fs'.mbi]
      /\ fs'.there = fs.there \cup {"mbi"} /\ fs'.new = fs.new
      /\ fs'.mbx = fs.mbx /\ fs'.mbi = i
  BY Written DEF RewriteHeader, IInv, Files
<1>3. IsIndex(fs.new.mbi)
  BY <1>1 DEF IInv, Anew, Rebuilding
<1>4. IsIndex(i) /\ i.recs = << >> /\ i.size \in Nat
  BY <1>3, EmptyIsListed DEF IsIndex
<1> HIDE DEF i
<1>5. Disk'
  BY <1>1, <1>2, <1>4 DEF IInv, Disk
<1>6. Control'
  BY <1>1 DEF IInv, Control, Rebuilding, Unflushed, Flushed
<1>7. Anew' /\ Renames'
  BY <1>1, <1>2 DEF IInv, Anew, Renames, Rebuilding
<1>8. Complete'
  BY <1>1, <1>2, <1>4, <1>6, EmptyIsListed
  DEF IInv, Complete, AllRecs, Settled, Unflushed, Flushed, Control, Rebuilding
<1> QED BY <1>5, <1>6, <1>7, <1>8 DEF IInv

(* All records of an index that has no more than it counts.                *)
LEMMA RecordsOf ==
    ASSUME NEW i, IsIndex(i), i.size = Len(i.recs)
    PROVE  Records(i) = i.recs /\ Whole(i)
<1>1. i.recs \in Seq(Range(i.recs)) /\ Len(i.recs) \in Nat
  BY ListedLen DEF IsIndex, Listed
<1>2. SubSeq(i.recs, 1, Len(i.recs)) = i.recs
  BY <1>1, SubSeqFull
<1> QED BY <1>1, <1>2 DEF Records, Whole

LEMMA RewriteRecordsKeeps == IInv /\ RewriteRecords => IInv'
<1> SUFFICES ASSUME IInv, RewriteRecords PROVE IInv'
  OBVIOUS
<1> DEFINE i == fs.new.mbi
<1>1. pc = "rerecord" /\ late' = late /\ Proceed(goal, i) /\ newer' = {}
  BY DEF RewriteRecords, Modified
<1>2. fs' = [there |-> fs.there, old |-> fs.old, new |-> << >>,
             mbx |-> fs.mbx, mbc |-> fs.mbc, mbi |-> i]
  BY DEF RewriteRecords, IInv, Disk
<1>3. /\ IsIndex(i) /\ i.valid /\ i.size = Len(i.recs)
      /\ {"mbc", "mbi"} \subseteq fs.there
  BY <1>1 DEF IInv, Anew, Rebuilding
<1>4. Records(i) = i.recs /\ Whole(i)
  BY <1>3, RecordsOf
<1>5. late = << >> /\ open = FALSE /\ clean \in BOOLEAN /\ Listed(mIndexList) /\ Listed(late)
  BY <1>1 DEF IInv, Control, Rebuilding
<1>6. Listed(i.recs) /\ Len(i.recs) \in Nat /\ i.recs \o << >> = i.recs
  BY <1>3, ListedLen, ListedConcat, EmptyIsListed DEF IsIndex
<1> HIDE DEF i
<1>7. pc' # "text"
  BY <1>1 DEF Proceed
<1>8. Disk'
  BY <1>2, <1>3, <1>7 DEF IInv, Disk
<1>9. Control'
  BY <1>1, <1>4, <1>5, <1>6
  DEF Control, Proceed, memVars, Rebuilding, Unflushed, Flushed
<1>10. Anew' /\ Renames'
  BY <1>1 DEF Anew, Renames, Rebuilding, Proceed
<1>11. Complete'
  <2>1. AllRecs' = i.recs
    BY <1>1, <1>2, <1>5, <1>6 DEF AllRecs
  <2>2. Readable'
    BY <1>2, <1>3 DEF Readable
  <2>3. open' => mIndexList' = i.recs
    BY <1>1, <1>4, <1>5 DEF Proceed, memVars
  <2> QED BY <1>1, <1>2, <1>3, <1>6, <2>1, <2>2, <2>3 DEF Complete, OutOfDate
<1> QED BY <1>8, <1>9, <1>10, <1>11 DEF IInv

LEMMA ValidateCacheKeeps ==
    ASSUME IInv, NEW what \in {"select", "append"}, ValidateCache(what)
    PROVE  IInv'
<1>1. pc = "closed" /\ "mbx" \in fs.there
  BY DEF ValidateCache
<1>2. CASE Reconstruct(what)
  BY <1>1, <1>2, ReconstructKeeps
<1>3. ASSUME ~Reconstruct(what)
      PROVE  IInv'
  <2>1. /\ Readable /\ Proceed(what, fs.mbi)
        /\ fs' = fs /\ late' = late
        /\ IF newer # {} /\ what = "select" THEN newer' = {} ELSE newer' = newer
    BY <1>3 DEF ValidateCache, Modified, OutOfDate, timeVars
  <2>2. late = << >> /\ open = FALSE /\ clean \in BOOLEAN /\ Listed(mIndexList) /\ Listed(late)
    BY <1>1 DEF IInv, Control
  <2>3. /\ IsIndex(fs.mbi) /\ Listed(fs.mbi.recs)
        /\ Len(fs.mbi.recs) \in Nat /\ fs.mbi.size \in Nat
        /\ Len(fs.mbi.recs) <= fs.mbi.size
        /\ fs.mbi.recs \o << >> = fs.mbi.recs
    BY ListedLen, ListedConcat, EmptyIsListed DEF IInv, Disk, IsIndex
  <2>4. Whole(fs.mbi) => fs.mbi.size = Len(fs.mbi.recs) /\ Records(fs.mbi) = fs.mbi.recs
    BY <2>3, RecordsOf DEF Whole
  <2>5. clean => newer = {} /\ fs.mbi.size = Len(fs.mbi.recs)
    BY <1>1, SettledReadable DEF Settled
  <2>6. clean => Whole(fs.mbi)
    BY <2>3, <2>5 DEF Whole
  <2>7. Disk'
    BY <2>1 DEF IInv, Disk, Proceed
  <2>8. Control'
    BY <2>1, <2>2, <2>3, <2>4
    DEF Control, Proceed, memVars, Rebuilding, Unflushed, Flushed
  <2>9. Anew' /\ Renames'
    BY <2>1 DEF Anew, Renames, Rebuilding, Proceed
  <2>10. Complete'
    <3>1. AllRecs' = fs.mbi.recs
      BY <2>1, <2>2, <2>3 DEF AllRecs
    <3>2. Readable'
      BY <2>1 DEF Readable
    <3>3. open' => mIndexList' = fs.mbi.recs
      BY <2>1, <2>2, <2>4 DEF Proceed, memVars
    <3>4. CASE what = "select" /\ Whole(fs.mbi)
      BY <2>1, <2>3, <2>4, <3>1, <3>2, <3>3, <3>4 DEF Complete, OutOfDate
    <3>5. CASE ~(what = "select" /\ Whole(fs.mbi))
      <4>1. pc' \in {"write", "closed"} /\ (clean' <=> clean) /\ open' = FALSE
        BY <2>1, <2>2, <3>5 DEF Proceed, memVars
      <4>2. clean => what = "append" /\ pc' = "write"
        BY <2>1, <2>6, <3>5 DEF Proceed
      <4> QED
        BY <2>1, <2>3, <2>5, <3>1, <3>2, <4>1, <4>2
        DEF Complete, OutOfDate, Settled, Unflushed, Flushed
    <3> QED BY <3>4, <3>5
  <2> QED BY <2>7, <2>8, <2>9, <2>10 DEF IInv
<1> QED BY <1>2, <1>3

LEMMA RebuildMboxKeeps == IInv /\ RebuildMbox => IInv'
<1> SUFFICES ASSUME IInv, RebuildMbox PROVE IInv'
  OBVIOUS
<1>1. pc = "closed"
  BY DEF RebuildMbox
<1>2. CASE "mbx" \in fs.there
  BY <1>1, <1>2, ReconstructKeeps DEF RebuildMbox
<1>3. CASE "mbx" \notin fs.there
  <2>1. /\ fs' = [there |-> {}, old |-> fs.old, new |-> fs.new,
                  mbx |-> fs.mbx, mbc |-> << >>, mbi |-> NoIndex]
        /\ pc' = "closed"
        /\ open' = open /\ clean' = clean /\ mIndexList' = mIndexList /\ late' = late
    BY <1>1, <1>3 DEF RebuildMbox, IInv, Disk, memVars, auxVars
  <2>2. Disk'
    BY <2>1, NoIndexIsIndex DEF IInv, Disk
  <2>3. Control'
    BY <1>1, <2>1 DEF IInv, Control
  <2>4. Anew' /\ Renames'
    BY <2>1 DEF Anew, Renames, Rebuilding
  <2>5. Complete'
    BY <1>1, <2>1, EmptyIsListed
    DEF IInv, Control, Complete, AllRecs, Settled, Unflushed, Flushed, NoIndex
  <2> QED BY <2>2, <2>3, <2>4, <2>5 DEF IInv
<1> QED BY <1>2, <1>3

LEMMA CloseMboxKeeps == IInv /\ CloseMbox => IInv'
<1> SUFFICES ASSUME IInv, CloseMbox PROVE IInv'
  OBVIOUS
<1>1. /\ pc = "idle" /\ pc' = "closed" /\ open' = FALSE /\ mIndexList' = << >>
      /\ clean' = clean /\ late' = late /\ fs' = fs
  BY DEF CloseMbox, auxVars
<1>2. Readable /\ fs.mbi.size = Len(fs.mbi.recs) /\ newer = {}
  BY <1>1, SettledReadable DEF Settled
<1>3. newer' = {}
  BY <1>2 DEF CloseMbox, SyncIndexHeader, Modified, timeVars, OutOfDate
<1>4. late = << >>
  BY <1>1 DEF IInv, Control
<1>5. Disk'
  BY <1>1 DEF IInv, Disk
<1>6. Control'
  BY <1>1, <1>4, EmptyIsListed DEF IInv, Control, Rebuilding, Unflushed, Flushed
<1>7. Anew' /\ Renames'
  BY <1>1 DEF Anew, Renames, Rebuilding
<1>8. Complete'
  BY <1>1, <1>2, <1>3 DEF IInv, Complete, AllRecs, Unflushed, Flushed, Readable, OutOfDate
<1> QED BY <1>5, <1>6, <1>7, <1>8 DEF IInv

-----------------------------------------------------------------------------
(* Appending.                                                              *)
LEMMA StartAppendKeeps == IInv /\ StartAppend => IInv'
<1> SUFFICES ASSUME IInv, StartAppend PROVE IInv'
  OBVIOUS
<1>1. CASE TouchMbox("append")
  BY <1>1, TouchMboxKeeps
<1>2. CASE ValidateCache("append")
  BY <1>2, ValidateCacheKeeps
<1>3. CASE /\ pc = "idle" /\ pc' = "write"
           /\ UNCHANGED <<fs, timeVars, goal, memVars, late, moves, auxVars, faults>>
  <2>1. /\ pc = "idle" /\ pc' = "write" /\ fs' = fs /\ late' = late
        /\ open' = open /\ clean' = clean /\ mIndexList' = mIndexList
    BY <1>3 DEF memVars, auxVars
  <2>2. Disk'
    BY <2>1 DEF IInv, Disk
  <2>3. Control'
    BY <2>1 DEF IInv, Control, Rebuilding, Unflushed, Flushed
  <2>4. Anew' /\ Renames'
    BY <2>1 DEF Anew, Renames, Rebuilding
  <2>5. fs.mbi.recs \o << >> = fs.mbi.recs /\ late = << >>
    BY <2>1, ListedConcat, EmptyIsListed DEF IInv, Control, Disk, IsIndex
  <2>6. Complete'
    BY <2>1, <2>5 DEF IInv, Complete, AllRecs, Settled, Unflushed, Flushed, Readable
  <2> QED BY <2>2, <2>3, <2>4, <2>6 DEF IInv
<1> QED BY <1>1, <1>2, <1>3 DEF StartAppend

(* A step of an append that leaves the index and what waits for it alone.  *)
LEMMA UnflushedKeeps ==
    ASSUME IInv, pc \in Unflushed, pc' \in Unflushed \ {"text", "rollback"},
           fs'.mbi = fs.mbi, fs.there \subseteq fs'.there,
           late' = late, memVars' = memVars, clean' = clean,
           fs' = [there |-> fs'.there, old |-> fs'.old, new |-> fs'.new,
                  mbx |-> fs'.mbx, mbc |-> fs'.mbc, mbi |-> fs'.mbi],
           Listed(fs'.mbx)
    PROVE  IInv'
<1>1. Disk'
  BY DEF IInv, Disk
<1>2. Control'
  BY DEF IInv, Control, Rebuilding, Unflushed, Flushed, memVars
<1>3. Anew' /\ Renames'
  BY DEF Anew, Renames, Rebuilding, Unflushed
<1>4. Complete'
  BY DEF IInv, Complete, AllRecs, Settled, Unflushed, Flushed, Readable, memVars
<1> QED BY <1>1, <1>2, <1>3, <1>4 DEF IInv

LEMMA WriteTextKeeps == IInv /\ WriteText => IInv'
<1> SUFFICES ASSUME IInv, WriteText PROVE IInv'
  OBVIOUS
<1>1. /\ pc = "write" /\ pc' = "text"
      /\ open' = open /\ clean' = clean /\ mIndexList' = mIndexList /\ late' = late
  BY DEF WriteText, memVars, auxVars
<1>2. /\ fs' = [there |-> fs'.there, old |-> fs'.old, new |-> fs'.new,
                mbx |-> fs'.mbx, mbc |-> fs'.mbc, mbi |-> fs'.mbi]
      /\ fs'.there = fs.there \cup {"mbx"}
      /\ fs'.mbx = Append(fs.mbx, Torn) /\ fs'.mbi = fs.mbi
  BY Written DEF WriteText, IInv, Files
<1>3. Listed(fs'.mbx) /\ Len(fs'.mbx) > 0
  BY <1>2, ListedAppend, ListedLen DEF IInv, Disk
<1>4. Disk'
  BY <1>1, <1>2, <1>3 DEF IInv, Disk
<1>5. Control'
  BY <1>1 DEF IInv, Control, Rebuilding, Unflushed, Flushed
<1>6. Anew' /\ Renames'
  BY <1>1 DEF Anew, Renames, Rebuilding
<1>7. Complete'
  BY <1>1, <1>2 DEF IInv, Complete, AllRecs, Settled, Unflushed, Flushed, Readable
<1> QED BY <1>4, <1>5, <1>6, <1>7 DEF IInv

LEMMA WriteRestKeeps == IInv /\ WriteRest => IInv'
<1> SUFFICES ASSUME IInv, WriteRest PROVE IInv'
  OBVIOUS
<1> DEFINE mbx == ReplaceAt(fs.mbx, Len(fs.mbx), CHOOSE m \in Unused : TRUE)
<1>1. Write("mbx", mbx)
  BY DEF WriteRest
<1>2. Listed(mbx)
  BY ListedReplace DEF IInv, Disk
<1> HIDE DEF mbx
<1>3. /\ fs' = [there |-> fs'.there, old |-> fs'.old, new |-> fs'.new,
                mbx |-> fs'.mbx, mbc |-> fs'.mbc, mbi |-> fs'.mbi]
      /\ fs'.there = fs.there \cup {"mbx"} /\ fs'.mbx = mbx /\ fs'.mbi = fs.mbi
  BY <1>1, Written DEF IInv, Files
<1> QED BY <1>2, <1>3, UnflushedKeeps DEF WriteRest, Unflushed, auxVars

LEMMA ReadIndexHeaderKeeps == IInv /\ ReadIndexHeader => IInv'
<1> SUFFICES ASSUME IInv, ReadIndexHeader PROVE IInv'
  OBVIOUS
<1> DEFINE recs == fs.mbi.recs \o late
<1>1. /\ pc = "entry" /\ pc' = "cache"
      /\ open' = open /\ clean' = clean /\ mIndexList' = mIndexList /\ late' = late
  BY DEF ReadIndexHeader, memVars, auxVars
<1>2. /\ Listed(fs.mbi.recs) /\ Listed(late) /\ Listed(recs) /\ IsIndex(fs.mbi)
      /\ late = << >> => recs = fs.mbi.recs
  BY ListedConcat DEF IInv, Disk, Control, IsIndex
<1>3. AllRecs = recs
  BY <1>1 DEF AllRecs, Unflushed
<1>4. /\ fs' = [there |-> fs'.there, old |-> fs'.old, new |-> fs'.new,
                mbx |-> fs'.mbx, mbc |-> fs'.mbc, mbi |-> fs'.mbi]
      /\ fs'.there = fs.there /\ fs'.mbx = fs.mbx
      /\ fs'.mbi = [fs.mbi EXCEPT !.recs = recs]
  <2>1. CASE late = << >>
    BY <1>2, <2>1 DEF ReadIndexHeader, IInv, Disk, IsIndex
  <2>2. CASE late # << >>
    BY <2>2 DEF ReadIndexHeader, Overtake, FlushedIndex, IInv, Disk
  <2> QED BY <2>1, <2>2
<1> HIDE DEF recs
<1>5. /\ fs'.mbi.recs = recs /\ fs'.mbi.size = fs.mbi.size
      /\ fs'.mbi.valid = fs.mbi.valid /\ fs'.mbi.next = fs.mbi.next
      /\ fs'.mbi = [valid |-> fs.mbi.valid, size |-> fs.mbi.size,
                    next |-> fs.mbi.next, recs |-> recs]
  BY <1>2, <1>4 DEF IsIndex
<1>6. Len(recs) <= fs.mbi.size
  BY <1>3 DEF IInv, Complete
<1>7. Disk'
  BY <1>1, <1>2, <1>4, <1>5, <1>6 DEF IInv, Disk, IsIndex
<1>8. Control'
  BY <1>1 DEF IInv, Control, Rebuilding, Unflushed, Flushed
<1>9. Anew' /\ Renames'
  BY <1>1 DEF Anew, Renames, Rebuilding
<1>10. Complete'
  BY <1>1, <1>3, <1>4, <1>5 DEF IInv, Complete, AllRecs, Settled, Unflushed, Flushed, Readable
<1> QED BY <1>7, <1>8, <1>9, <1>10 DEF IInv

LEMMA WriteEntryKeeps == IInv /\ WriteEntry => IInv'
<1> SUFFICES ASSUME IInv, WriteEntry PROVE IInv'
  OBVIOUS
<1>1. /\ pc = "cache" /\ pc' = "next"
      /\ open' = open /\ clean' = clean /\ mIndexList' = mIndexList
  BY DEF WriteEntry, memVars, auxVars
<1>2. /\ fs' = [there |-> fs'.there, old |-> fs'.old, new |-> fs'.new,
                mbx |-> fs'.mbx, mbc |-> fs'.mbc, mbi |-> fs'.mbi]
      /\ fs'.there = fs.there \cup {"mbc"} /\ fs'.mbx = fs.mbx /\ fs'.mbi = fs.mbi
  BY Written DEF WriteEntry, IInv, Files
<1>3. PICK rec : late' = <<rec>>
  BY DEF WriteEntry
<1>4. <<rec>> \in Seq({rec}) /\ Len(<<rec>>) = 1
  OBVIOUS
<1>5. Listed(late') /\ Len(late') = 1
  BY <1>3, <1>4, SeqIsListed
<1>6. Disk'
  BY <1>1, <1>2 DEF IInv, Disk
<1>7. Control'
  BY <1>1, <1>5 DEF IInv, Control, Rebuilding, Unflushed, Flushed
<1>8. Anew' /\ Renames'
  BY <1>1 DEF Anew, Renames, Rebuilding
<1>9. Complete'
  BY <1>1, <1>2 DEF IInv, Complete, AllRecs, Settled, Unflushed, Flushed, Readable
<1> QED BY <1>6, <1>7, <1>8, <1>9 DEF IInv

LEMMA WriteLocalUIDNextKeeps == IInv /\ WriteLocalUIDNext => IInv'
<1> SUFFICES ASSUME IInv, WriteLocalUIDNext PROVE IInv'
  OBVIOUS
<1>1. /\ pc = "next" /\ pc' = "header"
      /\ open' = open /\ clean' = clean /\ mIndexList' = mIndexList /\ late' = late
  BY DEF WriteLocalUIDNext, memVars, auxVars
<1>2. /\ fs' = [there |-> fs.there, old |-> fs.old, new |-> fs.new,
                mbx |-> fs.mbx, mbc |-> fs.mbc, mbi |-> fs'.mbi]
      /\ fs'.mbi = [fs.mbi EXCEPT !.next = @ + 1]
  BY DEF WriteLocalUIDNext, Overtake, IInv, Disk
<1>3. /\ IsIndex(fs'.mbi) /\ fs'.mbi.recs = fs.mbi.recs /\ fs'.mbi.size = fs.mbi.size
      /\ fs'.mbi.valid = fs.mbi.valid
  BY <1>2 DEF IInv, Disk, IsIndex
<1>4. Disk'
  BY <1>1, <1>2, <1>3 DEF IInv, Disk
<1>5. Control'
  BY <1>1 DEF IInv, Control, Rebuilding, Unflushed, Flushed
<1>6. Anew' /\ Renames'
  BY <1>1 DEF Anew, Renames, Rebuilding
<1>7. Complete'
  BY <1>1, <1>2, <1>3 DEF IInv, Complete, AllRecs, Settled, Unflushed, Flushed, Readable
<1> QED BY <1>4, <1>5, <1>6, <1>7 DEF IInv

LEMMA WriteIndexSizeKeeps == IInv /\ WriteIndexSize => IInv'
<1> SUFFICES ASSUME IInv, WriteIndexSize PROVE IInv'
  OBVIOUS
<1> DEFINE i == [fs.mbi EXCEPT !.size = 1 + IF open THEN Len(mIndexList) ELSE @]
<1>1. /\ pc = "header" /\ pc' = "appended"
      /\ open' = open /\ clean' = clean /\ late' = late
      /\ mIndexList' = IF open THEN mIndexList \o late ELSE mIndexList
  BY DEF WriteIndexSize, auxVars
<1>2. /\ fs' = [there |-> fs'.there, old |-> fs'.old, new |-> fs'.new,
                mbx |-> fs'.mbx, mbc |-> fs'.mbc, mbi |-> fs'.mbi]
      /\ fs'.there = fs.there \cup {"mbi"} /\ fs'.mbx = fs.mbx /\ fs'.mbi = i
  BY Written DEF WriteIndexSize, IInv, Files
<1>3. /\ Listed(mIndexList) /\ Listed(late) /\ Listed(fs.mbi.recs)
      /\ Len(late) = 1 /\ IsIndex(fs.mbi) /\ open \in BOOLEAN
  BY <1>1 DEF IInv, Control, Disk, IsIndex
<1>4. /\ Listed(mIndexList \o late) /\ Len(mIndexList) \in Nat
      /\ Len(fs.mbi.recs \o late) = Len(fs.mbi.recs) + 1 /\ Len(fs.mbi.recs) \in Nat
  BY <1>3, ListedConcat, ListedLen
<1>5. open => fs.mbi.recs = mIndexList
  BY <1>1 DEF IInv, Complete, AllRecs, Unflushed
<1>6. /\ i.recs = fs.mbi.recs /\ i.valid = fs.mbi.valid
      /\ i.size = 1 + IF open THEN Len(mIndexList) ELSE fs.mbi.size
      /\ i = [valid |-> i.valid, size |-> i.size, next |-> i.next, recs |-> i.recs]
  BY <1>3 DEF IsIndex
<1> HIDE DEF i
<1>7. IsIndex(i)
  BY <1>3, <1>4, <1>5, <1>6 DEF IsIndex
<1>8. Disk'
  BY <1>1, <1>2, <1>7 DEF IInv, Disk
<1>9. Control'
  BY <1>1, <1>3, <1>4 DEF IInv, Control, Rebuilding, Unflushed, Flushed
<1>10. Anew' /\ Renames'
  BY <1>1 DEF Anew, Renames, Rebuilding
<1>11. Complete'
  <2>1. AllRecs' = fs.mbi.recs \o late
    BY <1>1, <1>2, <1>6 DEF AllRecs, Unflushed
  <2>2. fs.mbi.size \in Nat /\ Len(fs.mbi.recs) <= fs.mbi.size
    BY <1>3 DEF IsIndex
  <2>3. clean => Readable /\ fs.mbi.size = Len(fs.mbi.recs)
    BY <1>1 DEF IInv, Complete, AllRecs, Unflushed, Flushed
  <2>4. Len(AllRecs') <= fs'.mbi.size
    BY <1>2, <1>4, <1>5, <1>6, <2>1, <2>2
  <2>5. clean' => Readable' /\ fs'.mbi.size = Len(AllRecs')
    BY <1>1, <1>2, <1>4, <1>5, <1>6, <2>1, <2>3 DEF Readable
  <2>6. open' => AllRecs' = mIndexList'
    BY <1>1, <1>5, <2>1
  <2> QED BY <1>1, <2>4, <2>5, <2>6 DEF Complete, Settled
<1> QED BY <1>8, <1>9, <1>10, <1>11 DEF IInv

LEMMA NextAppendKeeps == IInv /\ NextAppend => IInv'
<1> SUFFICES ASSUME IInv, NextAppend PROVE IInv'
  OBVIOUS
<1> QED BY UnflushedKeeps DEF NextAppend, Unflushed, IInv, Disk

LEMMA StopAppendKeeps == IInv /\ StopAppend => IInv'
<1> SUFFICES ASSUME IInv, StopAppend PROVE IInv'
  OBVIOUS
<1>1. /\ fs' = [there |-> fs'.there, old |-> fs'.old, new |-> fs'.new,
                mbx |-> fs'.mbx, mbc |-> fs'.mbc, mbi |-> fs'.mbi]
      /\ fs.there \subseteq fs'.there /\ fs'.mbx = fs.mbx /\ fs'.mbi = fs.mbi
  <2>1. CASE late = << >>
    BY <2>1 DEF StopAppend, IInv, Disk
  <2>2. CASE late # << >>
    BY <2>2, Written DEF StopAppend, IInv, Files
  <2> QED BY <2>1, <2>2
<1>2. Listed(fs'.mbx)
  BY <1>1 DEF IInv, Disk
<1> QED BY <1>1, <1>2, UnflushedKeeps DEF StopAppend, Unflushed, auxVars

LEMMA SyncAppendKeeps == IInv /\ SyncAppend => IInv'
<1> SUFFICES ASSUME IInv, SyncAppend PROVE IInv'
  OBVIOUS
<1> DEFINE recs == fs.mbi.recs \o late
<1>1. /\ pc = "stop" /\ pc' = IF open THEN "idle" ELSE "closed"
      /\ open' = open /\ clean' = clean /\ mIndexList' = mIndexList /\ late' = << >>
  BY DEF SyncAppend, memVars
<1>2. /\ Listed(fs.mbi.recs) /\ Listed(late) /\ Listed(recs) /\ IsIndex(fs.mbi)
      /\ late = << >> => recs = fs.mbi.recs
  BY ListedConcat DEF IInv, Disk, Control, IsIndex
<1>3. AllRecs = recs
  BY <1>1 DEF AllRecs, Unflushed
<1>4. /\ fs' = [there |-> fs'.there, old |-> fs'.old, new |-> fs'.new,
                mbx |-> fs'.mbx, mbc |-> fs'.mbc, mbi |-> fs'.mbi]
      /\ fs.there \subseteq fs'.there /\ fs'.mbx = fs.mbx
      /\ fs'.mbi = [fs.mbi EXCEPT !.recs = recs]
      /\ newer' = {}
  <2>1. CASE late = << >>
    <3>1. fs' = fs /\ newer' = {}
      BY <2>1 DEF SyncAppend, SyncIndexHeader, Modified, OutOfDate, timeVars
    <3> QED BY <1>2, <2>1, <3>1 DEF IInv, Disk, IsIndex
  <2>2. CASE late # << >>
    <3>1. Write("mbi", [fs.mbi EXCEPT !.recs = recs])
      BY <2>2 DEF SyncAppend, FlushedIndex
    <3> HIDE DEF recs
    <3> QED BY <3>1, Written DEF IInv, Files
  <2> QED BY <2>1, <2>2
<1> HIDE DEF recs
<1>5. /\ fs'.mbi.recs = recs /\ fs'.mbi.size = fs.mbi.size
      /\ fs'.mbi.valid = fs.mbi.valid
      /\ fs'.mbi = [valid |-> fs.mbi.valid, size |-> fs.mbi.size,
                    next |-> fs.mbi.next, recs |-> recs]
  BY <1>2, <1>4 DEF IsIndex
<1>6. Len(recs) <= fs.mbi.size
  BY <1>3 DEF IInv, Complete
<1>7. Disk'
  BY <1>1, <1>2, <1>4, <1>5, <1>6 DEF IInv, Disk, IsIndex
<1>8. open \in BOOLEAN
  BY DEF IInv, Control
<1>9. Control'
  BY <1>1, <1>8, EmptyIsListed DEF IInv, Control, Rebuilding, Unflushed, Flushed
<1>10. Anew' /\ Renames'
  BY <1>1 DEF Anew, Renames, Rebuilding
<1>11. Complete'
  <2>1. AllRecs' = recs
    BY <1>1, <1>5 DEF AllRecs, Unflushed
  <2>2. open => clean
    BY DEF IInv, Control
  <2>3. clean => Readable /\ fs.mbi.size = Len(recs)
    BY <1>1, <1>3 DEF IInv, Complete, Unflushed, Flushed
  <2>4. Settled' => clean
    BY <1>1, <2>2 DEF Settled
  <2>5. clean => Readable'
    BY <1>4, <1>5, <2>3 DEF Readable
  <2>6. open => recs = mIndexList
    BY <1>1, <1>3 DEF IInv, Complete
  <2> QED BY <1>1, <1>4, <1>5, <1>6, <2>1, <2>3, <2>4, <2>5, <2>6
          DEF Complete, OutOfDate, Unflushed, Flushed
<1> QED BY <1>7, <1>9, <1>10, <1>11 DEF IInv

LEMMA RollbackAppendKeeps == IInv /\ RollbackAppend => IInv'
<1> SUFFICES ASSUME IInv, RollbackAppend PROVE IInv'
  OBVIOUS
<1>1. /\ pc = "text" /\ open' = open /\ clean' = clean
      /\ mIndexList' = mIndexList /\ late' = late
  BY DEF RollbackAppend, memVars, auxVars
<1>2. CASE pc' = "failed"
  <2>1. fs' = fs
    BY <1>2 DEF RollbackAppend
  <2> QED BY <1>1, <1>2, <2>1, UnflushedKeeps DEF Unflushed, memVars, IInv, Disk
<1>3. CASE pc' = "rollback"
  <2>1. /\ fs' = [there |-> fs.there, old |-> fs.old, new |-> [mbx |-> Front(fs.mbx)],
                  mbx |-> fs.mbx, mbc |-> fs.mbc, mbi |-> fs.mbi]
        /\ moves' = Replacing(<<"mbx">>)
    BY <1>3 DEF RollbackAppend, IInv, Disk
  <2>2. Listed(fs.mbx) /\ Len(fs.mbx) \in Nat /\ Len(fs.mbx) > 0
    BY <1>1, ListedLen DEF IInv, Disk
  <2>3. Listed(Front(fs.mbx))
    BY <2>2, ListedFront DEF Front
  <2>4. Disk'
    BY <1>3, <2>1 DEF IInv, Disk
  <2>5. Control'
    BY <1>1, <1>3 DEF IInv, Control, Rebuilding, Unflushed, Flushed
  <2>6. Anew'
    BY <1>3 DEF Anew, Rebuilding
  <2>7. Renames'
    BY <1>3, <2>1, <2>3, ReplacingOne DEF Renames
  <2>8. Complete'
    BY <1>1, <1>3, <2>1 DEF IInv, Complete, AllRecs, Settled, Unflushed, Flushed, Readable
  <2> QED BY <2>4, <2>5, <2>6, <2>7, <2>8 DEF IInv
<1> QED BY <1>2, <1>3 DEF RollbackAppend

LEMMA RolledBackKeeps == IInv /\ RolledBack => IInv'
<1> SUFFICES ASSUME IInv, RolledBack PROVE IInv'
  OBVIOUS
<1>1. fs' = [there |-> fs.there, old |-> fs.old, new |-> << >>,
             mbx |-> fs.mbx, mbc |-> fs.mbc, mbi |-> fs.mbi]
  BY DEF RolledBack, IInv, Disk
<1>2. Listed(fs'.mbx)
  BY <1>1 DEF IInv, Disk
<1> QED BY <1>1, <1>2, UnflushedKeeps DEF RolledBack, Unflushed, auxVars

-----------------------------------------------------------------------------
(* Flags and expunging.                                                    *)
LEMMA SetFlagKeeps == IInv /\ SetFlag => IInv'
<1> SUFFICES ASSUME IInv, SetFlag PROVE IInv'
  OBVIOUS
<1>1. PICK k, rec : /\ mIndexList' = ReplaceAt(mIndexList, k, rec)
                    /\ Write("mbi", [fs.mbi EXCEPT !.recs = ReplaceAt(@, k, rec)])
  BY DEF SetFlag
<1> DEFINE recs == ReplaceAt(fs.mbi.recs, k, rec)
           i == [fs.mbi EXCEPT !.recs = recs]
<1>2. /\ pc = "idle" /\ pc' = "idle"
      /\ open' = open /\ clean' = clean /\ late' = late
  BY DEF SetFlag
<1>3. Readable /\ fs.mbi.size = Len(fs.mbi.recs) /\ newer = {} /\ fs.mbi.recs = mIndexList
  BY <1>2, SettledReadable DEF Settled, IInv, Complete, AllRecs, Control, Unflushed
<1>4. Listed(recs) /\ Len(recs) = Len(fs.mbi.recs) /\ IsIndex(fs.mbi)
      /\ Len(fs.mbi.recs) \in Nat
  BY ListedReplace, ListedLen DEF IInv, Disk, IsIndex
<1>5. Write("mbi", i) /\ mIndexList' = recs
  BY <1>1, <1>3
<1> HIDE DEF recs
<1>6. /\ i.recs = recs /\ i.size = fs.mbi.size /\ i.valid = fs.mbi.valid /\ IsIndex(i)
  BY <1>3, <1>4 DEF IsIndex
<1> HIDE DEF i
<1>7. /\ fs' = [there |-> fs'.there, old |-> fs'.old, new |-> fs'.new,
                mbx |-> fs'.mbx, mbc |-> fs'.mbc, mbi |-> fs'.mbi]
      /\ fs'.there = fs.there \cup {"mbi"}
      /\ fs'.mbx = fs.mbx /\ fs'.mbi = i /\ newer' = {}
  BY <1>5, Written DEF IInv, Files
<1>8. Disk'
  BY <1>2, <1>6, <1>7 DEF IInv, Disk
<1>9. Control'
  BY <1>2, <1>4, <1>5 DEF IInv, Control, Rebuilding, Unflushed, Flushed
<1>10. Anew' /\ Renames'
  BY <1>2 DEF Anew, Renames, Rebuilding
<1>11. Complete'
  <2>1. AllRecs' = recs /\ mIndexList' = recs
    BY <1>2, <1>5, <1>6, <1>7 DEF AllRecs, Unflushed
  <2>2. Readable'
    BY <1>3, <1>6, <1>7 DEF Readable
  <2>3. fs'.mbi.size = Len(recs) /\ Len(recs) \in Nat /\ newer' = {}
    BY <1>3, <1>4, <1>6, <1>7
  <2> QED BY <2>1, <2>2, <2>3 DEF Complete, OutOfDate
<1> QED BY <1>8, <1>9, <1>10, <1>11 DEF IInv

LEMMA ExpungeMessageKeeps == IInv /\ ExpungeMessage => IInv'
<1> SUFFICES ASSUME IInv, ExpungeMessage PROVE IInv'
  OBVIOUS
<1>1. PICK D \in SUBSET DOMAIN mIndexList : fs' = [fs EXCEPT !.new = Without(D)]
  BY DEF ExpungeMessage
<1> DEFINE stay == DOMAIN mIndexList \ D
           copied == UNION {Copied("start", k, fs.mbx) : k \in stay}
           moved(k) == [mIndexList[k] EXCEPT !.start = @ - LeftOut("start", k, D),
                                             !.cache = @ - LeftOut("cache", k, D)]
           all == [k \in DOMAIN mIndexList |-> moved(k)]
           recs == Pick(all, stay)
           mbx == Pick(fs.mbx, copied)
           i == [fs.mbi EXCEPT !.recs = recs]
<1>2. /\ pc = "idle" /\ pc' = "expunge"
      /\ open' = open /\ clean' = clean /\ mIndexList' = mIndexList /\ late' = late
      /\ moves' = Replacing(<<"mbx", "mbc", "mbi">>)
  BY DEF ExpungeMessage, memVars
<1>3. Readable /\ fs.mbi.size = Len(mIndexList)
  BY <1>2, SettledReadable DEF Settled, IInv, Complete, AllRecs, Control, Unflushed
<1>4. Listed(mIndexList) /\ Listed(fs.mbx) /\ IsIndex(fs.mbi)
  BY DEF IInv, Control, Disk
<1>5. copied \subseteq DOMAIN fs.mbx
  BY DEF Copied
<1>6. Listed(mbx)
  BY <1>4, <1>5, PickIsListed
<1>7. Len(mIndexList) \in Nat /\ DOMAIN mIndexList = 1..Len(mIndexList)
  BY <1>4, ListedLen
<1>8. Listed(all) /\ Len(all) = Len(mIndexList)
  <2>1. all = [k \in 1..Len(mIndexList) |-> all[k]]
    BY <1>7
  <2> HIDE DEF all
  <2> QED BY <1>7, <2>1, ListedFunction
<1>9. stay \subseteq DOMAIN all
  OBVIOUS
<1> HIDE DEF all, stay
<1>10. Listed(recs) /\ Len(recs) <= Len(mIndexList)
  BY <1>8, <1>9, PickIsListed
<1>11. Without(D).mbx = mbx /\ Without(D).mbi = i
  BY DEF Without, all, stay
<1> HIDE DEF recs, mbx
<1>12. IsIndex(i) /\ i.valid /\ i.size = Len(mIndexList)
  <2>1. i = [valid |-> fs.mbi.valid, size |-> fs.mbi.size,
             next |-> fs.mbi.next, recs |-> recs]
    BY <1>4 DEF IsIndex
  <2>2. fs.mbi.valid = TRUE /\ fs.mbi.size \in Nat
    BY <1>3, <1>4 DEF IsIndex, Readable
  <2> HIDE DEF i
  <2> QED BY <1>3, <1>10, <2>1, <2>2 DEF IsIndex
<1> HIDE DEF i
<1>13. fs' = [there |-> fs.there, old |-> fs.old, new |-> Without(D),
              mbx |-> fs.mbx, mbc |-> fs.mbc, mbi |-> fs.mbi]
  BY <1>1 DEF IInv, Disk
<1>14. Disk'
  BY <1>2, <1>13 DEF IInv, Disk
<1>15. Control'
  BY <1>2 DEF IInv, Control, Rebuilding, Unflushed, Flushed
<1>16. Anew'
  BY <1>2 DEF Anew, Rebuilding
<1>17. Renames'
  BY <1>2, <1>6, <1>11, <1>12, <1>13, ReplacingThree DEF Renames
<1>18. Complete'
  BY <1>2, <1>13 DEF IInv, Complete, AllRecs, Settled, Unflushed, Flushed
<1> QED BY <1>14, <1>15, <1>16, <1>17, <1>18 DEF IInv

(* What a rename does to the files.                                        *)
LEMMA MovedOut ==
    ASSUME Disk, RenameFile, NEW f \in Files, Head(moves) = Out(f)
    PROVE  /\ fs' = [there |-> fs'.there, old |-> fs'.old, new |-> fs'.new,
                     mbx |-> fs'.mbx, mbc |-> fs'.mbc, mbi |-> fs'.mbi]
           /\ fs'.there = fs.there \ {f} /\ fs'.new = fs.new
           /\ fs'.mbx = IF f = "mbx" THEN << >> ELSE fs.mbx
           /\ fs'.mbi = IF f = "mbi" THEN NoIndex ELSE fs.mbi
<1>1. Head(moves)[1] = "out" /\ Head(moves)[2] = f
  BY DEF Out
<1>2. Away(f)
  BY <1>1 DEF RenameFile
<1>3. f \in {"mbx", "mbc", "mbi"}
  BY DEF Files
<1>4. CASE f = "mbx"
  BY <1>2, <1>4 DEF Away, Disk
<1>5. CASE f = "mbc"
  BY <1>2, <1>5 DEF Away, Disk
<1>6. CASE f = "mbi"
  BY <1>2, <1>6 DEF Away, Disk
<1> QED BY <1>3, <1>4, <1>5, <1>6

LEMMA MovedIn ==
    ASSUME Disk, RenameFile, NEW f \in Files, Head(moves) = In(f)
    PROVE  /\ fs' = [there |-> fs'.there, old |-> fs'.old, new |-> fs'.new,
                     mbx |-> fs'.mbx, mbc |-> fs'.mbc, mbi |-> fs'.mbi]
           /\ fs'.there = fs.there \cup {f} /\ fs'.new = fs.new
           /\ fs'.mbx = IF f = "mbx" THEN fs.new.mbx ELSE fs.mbx
           /\ fs'.mbi = IF f = "mbi" THEN fs.new.mbi ELSE fs.mbi
<1>1. Head(moves)[1] = "in" /\ Head(moves)[2] = f
  BY DEF In
<1>2. Arrives(f)
  BY <1>1 DEF RenameFile
<1>3. f \in {"mbx", "mbc", "mbi"}
  BY DEF Files
<1>4. CASE f = "mbx"
  BY <1>2, <1>4 DEF Arrives, Disk
<1>5. CASE f = "mbc"
  BY <1>2, <1>5 DEF Arrives, Disk
<1>6. CASE f = "mbi"
  BY <1>2, <1>6 DEF Arrives, Disk
<1> QED BY <1>3, <1>4, <1>5, <1>6

LEMMA MovedAll ==
    ASSUME Disk, RenameFile, Head(moves) = Drop
    PROVE  fs' = [there |-> fs.there, old |-> << >>, new |-> fs.new,
                  mbx |-> fs.mbx, mbc |-> fs.mbc, mbi |-> fs.mbi]
<1>1. Head(moves)[1] = "drop"
  BY DEF Drop
<1> QED BY <1>1 DEF RenameFile, Disk

LEMMA RenameFileKeeps == IInv /\ RenameFile => IInv'
<1> SUFFICES ASSUME IInv, RenameFile PROVE IInv'
  OBVIOUS
<1>1. /\ pc \in {"rollback", "expunge"} /\ pc' = pc /\ moves # << >> /\ moves' = Tail(moves)
      /\ open' = open /\ clean' = clean /\ mIndexList' = mIndexList /\ late' = late
  BY DEF RenameFile, memVars, auxVars
<1>2. Disk /\ Renames
  BY DEF IInv
<1>3. Control'
  BY <1>1 DEF IInv, Control, Rebuilding, Unflushed, Flushed
<1>4. Anew'
  BY <1>1 DEF Anew, Rebuilding
<1>5. "mbx" \in Files /\ "mbc" \in Files /\ "mbi" \in Files
  BY DEF Files
<1>6. CASE pc = "rollback"
  <2>1. /\ fs' = [there |-> fs'.there, old |-> fs'.old, new |-> fs'.new,
                  mbx |-> fs'.mbx, mbc |-> fs'.mbc, mbi |-> fs'.mbi]
        /\ fs'.new = fs.new /\ fs'.mbi = fs.mbi
        /\ Listed(fs'.mbx)
        /\ fs.there \ {"mbx"} \subseteq fs'.there
        /\ moves' \in {<<In("mbx"), Drop>>, <<Drop>>, << >>}
    <3>1. Listed(fs.new.mbx) /\ Listed(fs.mbx)
      BY <1>2, <1>6 DEF Renames, Disk
    <3>2. CASE moves = <<Out("mbx"), In("mbx"), Drop>>
      <4>1. Head(moves) = Out("mbx") /\ Tail(moves) = <<In("mbx"), Drop>>
        BY <3>2
      <4> QED BY <1>1, <1>2, <1>5, <4>1, MovedOut, EmptyIsListed
    <3>3. CASE moves = <<In("mbx"), Drop>>
      <4>1. Head(moves) = In("mbx") /\ Tail(moves) = <<Drop>>
        BY <3>3
      <4> QED BY <1>1, <1>2, <1>5, <3>1, <4>1, MovedIn
    <3>4. CASE moves = <<Drop>>
      <4>1. Head(moves) = Drop /\ Tail(moves) = << >>
        BY <3>4
      <4> QED BY <1>1, <1>2, <3>1, <4>1, MovedAll
    <3> QED BY <1>1, <1>2, <1>6, <3>2, <3>3, <3>4 DEF Renames
  <2>2. Disk'
    BY <1>1, <1>6, <2>1 DEF IInv, Disk
  <2>3. Renames'
    BY <1>1, <1>2, <1>6, <2>1 DEF Renames
  <2>4. Complete'
    BY <1>1, <1>6, <2>1 DEF IInv, Complete, AllRecs, Settled, Unflushed, Flushed, Readable
  <2> QED BY <1>3, <1>4, <2>2, <2>3, <2>4 DEF IInv
<1>7. CASE pc = "expunge"
  <2>1. /\ Listed(fs.new.mbx) /\ Listed(fs.mbx)
        /\ IsIndex(fs.new.mbi) /\ fs.new.mbi.valid
        /\ fs.new.mbi.size = Len(mIndexList)
        /\ IsIndex(fs.mbi) /\ IsIndex(NoIndex)
    BY <1>2, <1>7, NoIndexIsIndex DEF Renames, Disk
  <2> DEFINE Mid == {<<Out("mbc"), Out("mbi"),
                       In("mbx"), In("mbc"), In("mbi"), Drop>>,
                     <<Out("mbi"), In("mbx"), In("mbc"), In("mbi"), Drop>>,
                     <<In("mbx"), In("mbc"), In("mbi"), Drop>>,
                     <<In("mbc"), In("mbi"), Drop>>}
             Goal == /\ fs' = [there |-> fs'.there, old |-> fs'.old, new |-> fs'.new,
                               mbx |-> fs'.mbx, mbc |-> fs'.mbc, mbi |-> fs'.mbi]
                     /\ fs'.new = fs.new
                     /\ IsIndex(fs'.mbi) /\ Listed(fs'.mbx)
                     /\ \/ moves' \in Mid
                        \/ moves' = <<In("mbi"), Drop>> /\ "mbc" \in fs'.there
                        \/ /\ moves' \in {<<Drop>>, << >>}
                           /\ {"mbc", "mbi"} \subseteq fs'.there
                           /\ fs'.mbi = fs.new.mbi
  <2>2. Goal
    <3>1. CASE moves = <<Out("mbx"), Out("mbc"), Out("mbi"),
                         In("mbx"), In("mbc"), In("mbi"), Drop>>
      <4>1. /\ Head(moves) = Out("mbx")
            /\ Tail(moves) = <<Out("mbc"), Out("mbi"), In("mbx"), In("mbc"), In("mbi"), Drop>>
        BY <3>1
      <4> QED BY <1>1, <1>2, <1>5, <2>1, <4>1, MovedOut, EmptyIsListed
    <3>2. CASE moves = <<Out("mbc"), Out("mbi"), In("mbx"), In("mbc"), In("mbi"), Drop>>
      <4>1. /\ Head(moves) = Out("mbc")
            /\ Tail(moves) = <<Out("mbi"), In("mbx"), In("mbc"), In("mbi"), Drop>>
        BY <3>2
      <4> QED BY <1>1, <1>2, <1>5, <2>1, <4>1, MovedOut
    <3>3. CASE moves = <<Out("mbi"), In("mbx"), In("mbc"), In("mbi"), Drop>>
      <4>1. /\ Head(moves) = Out("mbi")
            /\ Tail(moves) = <<In("mbx"), In("mbc"), In("mbi"), Drop>>
        BY <3>3
      <4> QED BY <1>1, <1>2, <1>5, <2>1, <4>1, MovedOut
    <3>4. CASE moves = <<In("mbx"), In("mbc"), In("mbi"), Drop>>
      <4>1. Head(moves) = In("mbx") /\ Tail(moves) = <<In("mbc"), In("mbi"), Drop>>
        BY <3>4
      <4> QED BY <1>1, <1>2, <1>5, <2>1, <4>1, MovedIn
    <3>5. CASE moves = <<In("mbc"), In("mbi"), Drop>>
      <4>1. Head(moves) = In("mbc") /\ Tail(moves) = <<In("mbi"), Drop>>
        BY <3>5
      <4> QED BY <1>1, <1>2, <1>5, <2>1, <4>1, MovedIn
    <3>6. CASE moves = <<In("mbi"), Drop>> /\ "mbc" \in fs.there
      <4>1. Head(moves) = In("mbi") /\ Tail(moves) = <<Drop>>
        BY <3>6
      <4> QED BY <1>1, <1>2, <1>5, <2>1, <3>6, <4>1, MovedIn
    <3>7. CASE moves = <<Drop>> /\ Readable /\ fs.mbi = fs.new.mbi
      <4>1. Head(moves) = Drop /\ Tail(moves) = << >>
        BY <3>7
      <4> QED BY <1>1, <1>2, <2>1, <3>7, <4>1, MovedAll DEF Readable
    <3> QED BY <1>1, <1>2, <1>7, <3>1, <3>2, <3>3, <3>4, <3>5, <3>6, <3>7 DEF Renames
  <2>3. Disk'
    BY <1>1, <1>7, <2>2 DEF Disk
  <2>4. Renames'
    BY <1>1, <1>7, <2>1, <2>2 DEF Renames, Readable
  <2>5. Complete'
    BY <1>1, <1>7, <2>2 DEF Complete, AllRecs, Settled, Unflushed, Flushed, IsIndex
  <2> QED BY <1>3, <1>4, <2>3, <2>4, <2>5 DEF IInv
<1> QED BY <1>1, <1>6, <1>7

LEMMA ExpungedKeeps == IInv /\ Expunged => IInv'
<1> SUFFICES ASSUME IInv, Expunged PROVE IInv'
  OBVIOUS
<1>1. /\ pc = "expunge" /\ moves = << >> /\ pc' = "idle"
      /\ open' = open /\ clean' = clean /\ late' = late
      /\ mIndexList' = fs.mbi.recs /\ newer' = {}
  BY DEF Expunged, Modified
<1>2. Readable /\ fs.mbi = fs.new.mbi
  BY <1>1 DEF IInv, Renames
<1>3. IsIndex(fs.mbi) /\ fs.mbi.valid /\ fs.mbi.size = Len(mIndexList)
  BY <1>1, <1>2 DEF IInv, Renames
<1>4. Len(fs.mbi.recs) \in Nat /\ Len(mIndexList) \in Nat
  BY <1>3, ListedLen DEF IsIndex
<1> DEFINE i == [fs.mbi EXCEPT !.size = @ - (Len(mIndexList) - Len(fs.mbi.recs))]
<1>5. fs' = [there |-> fs.there, old |-> fs.old, new |-> << >>,
             mbx |-> fs.mbx, mbc |-> fs.mbc, mbi |-> i]
  BY DEF Expunged, IInv, Disk
<1>6. IsIndex(i) /\ i.valid /\ i.recs = fs.mbi.recs /\ i.size = Len(i.recs)
  <2>1. i = [valid |-> fs.mbi.valid, size |-> Len(fs.mbi.recs),
             next |-> fs.mbi.next, recs |-> fs.mbi.recs]
    <3>1. fs.mbi.size - (Len(mIndexList) - Len(fs.mbi.recs)) = Len(fs.mbi.recs)
      BY <1>3, <1>4
    <3>2. i = [fs.mbi EXCEPT !.size = Len(fs.mbi.recs)]
      BY <3>1, Zenon
    <3> HIDE DEF i
    <3> QED BY <1>3, <3>2 DEF IsIndex
  <2> HIDE DEF i
  <2> QED BY <1>3, <1>4, <2>1 DEF IsIndex
<1> HIDE DEF i
<1>7. Disk'
  BY <1>1, <1>5, <1>6 DEF IInv, Disk
<1>8. Control'
  BY <1>1, <1>3 DEF IInv, Control, Rebuilding, Unflushed, Flushed, IsIndex
<1>9. Anew' /\ Renames'
  BY <1>1 DEF Anew, Renames, Rebuilding
<1>10. Complete'
  BY <1>1, <1>2, <1>4, <1>5, <1>6
  DEF Complete, AllRecs, Settled, Unflushed, Flushed, Readable, OutOfDate
<1> QED BY <1>7, <1>8, <1>9, <1>10 DEF IInv

LEMMA CrashKeeps == IInv /\ Crash => IInv'
<1> SUFFICES ASSUME IInv, Crash PROVE IInv'
  OBVIOUS
<1>1. /\ pc' = "closed" /\ open' = FALSE /\ clean' = FALSE
      /\ mIndexList' = << >> /\ late' = << >>
  BY DEF Crash
<1>2. fs' = [there |-> fs.there, old |-> fs.old, new |-> << >>,
             mbx |-> fs.mbx, mbc |-> fs.mbc, mbi |-> fs.mbi]
  BY DEF Crash, IInv, Disk
<1>3. Disk'
  BY <1>1, <1>2 DEF IInv, Disk
<1>4. Control'
  BY <1>1, EmptyIsListed DEF Control, Rebuilding, Unflushed, Flushed
<1>5. Anew' /\ Renames'
  BY <1>1 DEF Anew, Renames, Rebuilding
<1>6. Complete'
  BY <1>1, <1>2 DEF IInv, Disk, IsIndex, Complete, AllRecs, Settled, Unflushed, Flushed
<1> QED BY <1>3, <1>4, <1>5, <1>6 DEF IInv

-----------------------------------------------------------------------------
(* The parts of the invariant hold in every state: the steps of an append  *)
(* leave an index that counts no more records than it will have, and those *)
(* that end one, an expunge or a reconstruction leave it complete.         *)
THEOREM Inductive == Spec => []IInv
<1>1. Init => IInv
  BY InitIInv
<1>2. IInv /\ [Next]_vars => IInv'
  <2> SUFFICES ASSUME IInv, [Next]_vars PROVE IInv'
    OBVIOUS
  <2>1. CASE Next
    BY <2>1, TouchMboxKeeps, ValidateCacheKeeps, ReconstructKeeps, RebuildMboxKeeps,
       CloseMboxKeeps, RewriteCacheKeeps, TruncateIndexKeeps, RewriteHeaderKeeps,
       RewriteRecordsKeeps, StartAppendKeeps, WriteTextKeeps, WriteRestKeeps,
       ReadIndexHeaderKeeps, WriteEntryKeeps, WriteLocalUIDNextKeeps, WriteIndexSizeKeeps,
       NextAppendKeeps, StopAppendKeeps, SyncAppendKeeps, RollbackAppendKeeps,
       RolledBackKeeps, SetFlagKeeps, ExpungeMessageKeeps, RenameFileKeeps,
       ExpungedKeeps, CrashKeeps
    DEF Next, SelectMbox, CreateMbox
  <2>2. CASE UNCHANGED vars
    BY <2>2 DEF vars, timeVars, memVars, auxVars, IInv, Disk, Control, Anew, Renames,
                Complete, AllRecs, Settled, Readable, OutOfDate
  <2> QED BY <2>1, <2>2
<1> QED BY <1>1, <1>2, PTL DEF Spec

(* What an open mailbox has in memory is on disk, and the index counts it  *)
(* and is the newest file, whatever crashes, failed appends and expunges   *)
(* came before.                                                            *)
THEOREM DiskIsCurrent == Spec => []DiskCurrent
<1>1. IInv => DiskCurrent
  <2> SUFFICES ASSUME IInv, pc = "idle"
               PROVE  /\ Readable /\ ~OutOfDate
                      /\ fs.mbi.size = Len(fs.mbi.recs) /\ fs.mbi.recs = mIndexList
    BY DEF DiskCurrent
  <2> QED BY DEF IInv, Complete, AllRecs, Settled, Unflushed, Control
<1> QED BY <1>1, Inductive, PTL

(* A mailbox that was closed without a crash since it was last opened opens*)
(* again as it is: no question and no reconstruction.                      *)
THEOREM OpensAsItIs == Spec => []Opens
<1>1. IInv => Opens
  <2> SUFFICES ASSUME IInv, pc = "closed", clean, "mbx" \in fs.there
               PROVE  Readable /\ ~OutOfDate /\ Whole(fs.mbi)
    BY DEF Opens
  <2>1. Readable /\ fs.mbi.size = Len(fs.mbi.recs) /\ newer = {}
    BY SettledReadable DEF Settled
  <2>2. Whole(fs.mbi)
    BY <2>1, RecordsOf DEF IInv, Disk
  <2> QED BY <2>1, <2>2 DEF OutOfDate
<1> QED BY <1>1, Inductive, PTL

=============================================================================
