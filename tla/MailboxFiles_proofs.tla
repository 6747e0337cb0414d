------------------------- MODULE MailboxFiles_proofs -------------------------
(***************************************************************************)
(* Theorems about the files of a local mailbox taken together, for any     *)
(* messages and any number of crashes and failed appends: no message is    *)
(* lost, and an open mailbox shows each message as what it is.             *)
(***************************************************************************)
EXTENDS LocalMailbox_proofs, FunctionTheorems, WellFoundedInduction

-----------------------------------------------------------------------------
(* The place of an element among those of a set of numbers.                *)
LEMMA Least ==
    ASSUME NEW T, T \subseteq Nat, T # {}
    PROVE  \E x \in T : \A y \in T : x <= y
<1>1. PICK x \in T : \A y \in T : ~ (<<y, x>> \in OpToRel(<, Nat))
  BY NatLessThanWellFounded, WFMin
<1>2. \A y \in T : ~ (y < x)
  BY <1>1 DEF OpToRel
<1> QED BY <1>2

LEMMA Counting == ASSUME NEW n \in Nat
                  PROVE  IsFiniteSet(1..n) /\ Cardinality(1..n) = n
BY FS_Interval

Rank(p, S) == Cardinality({q \in S : q <= p})

LEMMA RankType ==
    ASSUME NEW S, S \subseteq Nat, IsFiniteSet(S), NEW p \in S
    PROVE  /\ Cardinality(S) \in Nat /\ Rank(p, S) \in 1..Cardinality(S)
           /\ \A q \in S : p < q => Rank(p, S) < Rank(q, S)
<1> DEFINE T(x) == {q \in S : q <= x}
<1>1. \A x \in S : T(x) \in SUBSET S
  OBVIOUS
<1>2. \A x \in S : IsFiniteSet(T(x)) /\ Cardinality(T(x)) <= Cardinality(S)
  BY <1>1, FS_Subset
<1>3. Cardinality(S) \in Nat /\ \A x \in S : Cardinality(T(x)) \in Nat
  BY <1>2, FS_CardinalityType
<1>4. p \in T(p)
  OBVIOUS
<1>5. Cardinality(T(p)) # 0
  BY <1>2, <1>4, FS_EmptySet
<1>6. \A x \in S : Rank(x, S) = Cardinality(T(x))
  BY DEF Rank
<1>7. ASSUME NEW q \in S, p < q
      PROVE  Cardinality(T(p)) < Cardinality(T(q))
  <2>0. \A x \in S : x <= p => x <= q
    BY <1>7
  <2>3. q \in T(q) /\ q \notin T(p)
    BY <1>7
  <2>1. T(p) \in SUBSET T(q) /\ q \in T(q) /\ q \notin T(p)
    BY <2>0, <2>3
  <2>2. Cardinality(T(p)) <= Cardinality(T(q)) /\ Cardinality(T(p)) # Cardinality(T(q))
    BY <1>2, <2>1, FS_Subset
  <2> QED BY <1>3, <2>2
<1> HIDE DEF T
<1> QED BY <1>2, <1>3, <1>5, <1>6, <1>7

LEMMA RankOnto ==
    ASSUME NEW S, S \subseteq Nat, IsFiniteSet(S), NEW i \in 1..Cardinality(S)
    PROVE  \E p \in S : Rank(p, S) = i
<1> DEFINE n == Cardinality(S)
           f == [p \in S |-> Rank(p, S)]
<1>1. n \in Nat
  BY FS_CardinalityType
<1>2. f \in [S -> 1..n]
  BY RankType
<1>3. ASSUME NEW p \in S, NEW q \in S, f[p] = f[q] PROVE p = q
  <2>1. /\ Rank(p, S) = Rank(q, S) /\ Rank(p, S) \in Nat
        /\ p < q => Rank(p, S) < Rank(q, S)
        /\ q < p => Rank(q, S) < Rank(p, S)
    <3>1. Rank(p, S) = Rank(q, S)
      BY <1>3
    <3>2. Rank(p, S) \in 1..n
      BY RankType
    <3>3. \A x \in S : p < x => Rank(p, S) < Rank(x, S)
      BY RankType
    <3>4. \A x \in S : q < x => Rank(q, S) < Rank(x, S)
      BY RankType
    <3> QED BY <1>1, <3>1, <3>2, <3>3, <3>4
  <2>2. p \in Nat /\ q \in Nat
    OBVIOUS
  <2> QED BY <2>1, <2>2
<1>4. f \in Injection(S, 1..n)
  BY <1>2, <1>3 DEF Injection, IsInjective
<1>5. IsFiniteSet(1..n) /\ Cardinality(1..n) = n
  BY <1>1, FS_Interval
<1>6. f \in Surjection(S, 1..n)
  BY <1>4, <1>5, FS_Injection
<1> QED BY <1>6 DEF Surjection

(* What is picked from a sequence, and where it is then.                   *)
LEMMA PickAt ==
    ASSUME NEW s, NEW S, Listed(s), S \subseteq DOMAIN s
    PROVE  /\ IsFiniteSet(S) /\ S \subseteq Nat /\ Cardinality(S) \in Nat
           /\ Listed(Pick(s, S)) /\ Len(Pick(s, S)) = Cardinality(S)
           /\ DOMAIN Pick(s, S) = 1..Cardinality(S)
           /\ \A p \in S : /\ Rank(p, S) \in 1..Cardinality(S)
                           /\ Pick(s, S)[Rank(p, S)] = s[p]
           /\ \A i \in 1..Cardinality(S) :
                \E p \in S : Rank(p, S) = i /\ Pick(s, S)[i] = s[p]
<1> DEFINE n == Cardinality(S)
           at(i) == CHOOSE p \in S : Cardinality({q \in S : q <= p}) = i
<1>1. Len(s) \in Nat /\ DOMAIN s = 1..Len(s)
  BY ListedLen
<1>2. IsFiniteSet(1..Len(s))
  BY <1>1, FS_Interval
<1>3. IsFiniteSet(S) /\ S \subseteq Nat /\ n \in Nat
  BY <1>1, <1>2, FS_Subset, FS_CardinalityType
<1>4. \A p \in S : Rank(p, S) \in 1..n
  BY <1>3, RankType
<1>5. ASSUME NEW i \in 1..n
      PROVE  at(i) \in S /\ Rank(at(i), S) = i
  <2>1. \E p \in S : Cardinality({q \in S : q <= p}) = i
    BY <1>3, RankOnto DEF Rank
  <2>2. at(i) \in S /\ Cardinality({q \in S : q <= at(i)}) = i
    BY <2>1
  <2> QED BY <2>2 DEF Rank
<1>6. Pick(s, S) = [i \in 1..n |-> s[at(i)]]
  BY DEF Pick
<1> HIDE DEF at
<1>7. \A i \in 1..n : Pick(s, S)[i] = s[at(i)]
  BY <1>6
<1>8. Listed(Pick(s, S)) /\ Len(Pick(s, S)) = n
  BY <1>3, <1>6, <1>7, ListedFunction
<1>9. ASSUME NEW p \in S
      PROVE  at(Rank(p, S)) = p
  <2> DEFINE r == at(Rank(p, S))
  <2>1. r \in S /\ Rank(r, S) = Rank(p, S)
    BY <1>4, <1>5
  <2>2. r < p => Rank(r, S) < Rank(p, S)
    BY <1>3, <2>1, RankType
  <2>3. p < r => Rank(p, S) < Rank(r, S)
    BY <1>3, <2>1, RankType
  <2>4. Rank(p, S) \in Nat /\ r \in Nat /\ p \in Nat
    BY <1>3, <1>4, <2>1
  <2> HIDE DEF r
  <2>5. r = p
    BY <2>1, <2>2, <2>3, <2>4
  <2> QED BY <2>5 DEF r
<1> QED BY <1>3, <1>4, <1>5, <1>6, <1>7, <1>8, <1>9

LEMMA PickFrom ==
    ASSUME NEW s, NEW S, Listed(s), S \subseteq DOMAIN s
    PROVE  \A i \in 1..Cardinality(S) :
             \E p \in S : Rank(p, S) = i /\ Pick(s, S)[i] = s[p]
<1>1. /\ IsFiniteSet(S) /\ S \subseteq Nat /\ Cardinality(S) \in Nat
      /\ Listed(Pick(s, S)) /\ Len(Pick(s, S)) = Cardinality(S)
      /\ DOMAIN Pick(s, S) = 1..Cardinality(S)
      /\ \A p \in S : /\ Rank(p, S) \in 1..Cardinality(S)
                      /\ Pick(s, S)[Rank(p, S)] = s[p]
      /\ \A i \in 1..Cardinality(S) :
           \E p \in S : Rank(p, S) = i /\ Pick(s, S)[i] = s[p]
  BY PickAt
<1> QED BY <1>1

-----------------------------------------------------------------------------
(* The offsets of the records in a file grow, and are within it.           *)
Ascending(f, s) ==
    /\ \A i \in DOMAIN mIndexList : mIndexList[i][f] \in Nat /\ mIndexList[i][f] < Len(s)
    /\ \A i, j \in DOMAIN mIndexList : i < j => mIndexList[i][f] < mIndexList[j][f]

Stays(f, s, D) == UNION {Copied(f, k, s) : k \in DOMAIN mIndexList \ D}

(* Without what an expunge leaves out, a message that stays begins as far  *)
(* to the front as the offsets are taken back: the first record is that of *)
(* the first message in the file.                                          *)
LEMMA LeftOutInFront ==
    ASSUME Listed(mIndexList), NEW f, NEW s, Listed(s), Ascending(f, s),
           NEW D, D \subseteq DOMAIN mIndexList, NEW k \in DOMAIN mIndexList \ D
    PROVE  /\ Stays(f, s, D) \subseteq DOMAIN s
           /\ mIndexList[k][f] + 1 \in Stays(f, s, D)
           /\ LeftOut(f, k, D) \in Nat /\ LeftOut(f, k, D) <= mIndexList[k][f]
           /\ mIndexList[1][f] = 0 =>
                Rank(mIndexList[k][f] + 1, Stays(f, s, D)) =
                  mIndexList[k][f] + 1 - LeftOut(f, k, D)
<1> DEFINE n == Len(mIndexList)
           b == Len(s)
           o == [i \in 1..n |-> mIndexList[i][f]]
           C(i) == Copied(f, i, s)
           P == Stays(f, s, D)
           L == UNION {Length(f, i) : i \in {i \in D : i < k}}
           A == {q \in P : q <= o[k] + 1}
<1>1. n \in Nat /\ DOMAIN mIndexList = 1..n /\ b \in Nat /\ DOMAIN s = 1..b
  BY ListedLen
<1>2. /\ \A i \in 1..n : o[i] \in Nat /\ o[i] < b /\ o[i] = mIndexList[i][f]
      /\ \A i, j \in 1..n : i < j => o[i] < o[j]
  BY <1>1 DEF Ascending
<1> HIDE DEF o
<1>17. \A i, j \in 1..n : i <= j => o[i] <= o[j]
  <2> SUFFICES ASSUME NEW i \in 1..n, NEW j \in 1..n, i <= j PROVE o[i] <= o[j]
    OBVIOUS
  <2>1. CASE i < j
    BY <1>2, <2>1
  <2>2. CASE i = j
    BY <1>2, <2>2
  <2> QED BY <1>1, <2>1, <2>2
<1>18. \A m \in Nat : IsFiniteSet(1..m) /\ Cardinality(1..m) = m
  BY FS_Interval
<1>3. k \in 1..n /\ k \notin D
  BY <1>1
<1>4. \A i \in 1..n : C(i) = {p \in 1..b : o[i] < p /\ p <= IF i < n THEN o[i + 1] ELSE b}
  <2>1. \A i \in 1..n : i < n => i + 1 \in 1..n
    BY <1>1
  <2> QED BY <1>1, <1>2, <2>1 DEF Copied, Until
<1>5. P = UNION {C(i) : i \in (1..n) \ D}
  BY <1>1 DEF Stays
<1>6. \A i \in D : i < k => i \in 1..n /\ i + 1 \in 1..n /\ i + 1 <= k
  BY <1>1
<1>7. \A q : q \in L <=> \E i \in D : i < k /\ q \in (o[i] + 1)..o[i + 1]
  <2>1. \A i \in D : i < k => Length(f, i) = (o[i] + 1)..o[i + 1]
    BY <1>2, <1>6 DEF Length
  <2>2. \A q : q \in L <=> \E i \in D : i < k /\ q \in Length(f, i)
    OBVIOUS
  <2> QED BY <2>1, <2>2
<1>8. P \subseteq 1..b
  BY <1>4, <1>5
<1>9. o[k] + 1 \in P
  <2>1. k < n => o[k] + 1 <= o[k + 1]
    BY <1>1, <1>2
  <2>2. o[k] + 1 \in 1..b /\ o[k] + 1 <= b /\ o[k] < o[k] + 1
    BY <1>1, <1>2
  <2>3. o[k] + 1 \in C(k)
    BY <1>4, <2>1, <2>2
  <2> QED BY <1>3, <1>5, <2>3
<1>10. L \subseteq 1..o[k]
  <2> SUFFICES ASSUME NEW i \in D, i < k, NEW q \in (o[i] + 1)..o[i + 1]
               PROVE  q \in 1..o[k]
    BY <1>7
  <2>1. i \in 1..n /\ i + 1 \in 1..n /\ i + 1 <= k
    BY <1>6
  <2>2. o[i + 1] <= o[k]
    BY <1>3, <1>17, <2>1
  <2>3. o[i] \in Nat /\ o[i + 1] \in Nat /\ o[k] \in Nat
    BY <1>2, <2>1
  <2>4. \A u, v, w \in Nat : v <= w => (u + 1)..v \subseteq 1..w
    OBVIOUS
  <2>5. (o[i] + 1)..o[i + 1] \subseteq 1..o[k]
    BY <2>2, <2>3, <2>4
  <2> QED BY <2>5
<1>11. IsFiniteSet(1..o[k]) /\ Cardinality(1..o[k]) = o[k] /\ o[k] \in Nat
  BY <1>2, <1>3, <1>18
<1>12. IsFiniteSet(L) /\ Cardinality(L) \in Nat /\ Cardinality(L) <= o[k]
  BY <1>10, <1>11, FS_Subset, FS_CardinalityType
<1>13. ASSUME o[1] = 0 PROVE Cardinality(A) = o[k] + 1 - Cardinality(L)
  <2>1. ASSUME NEW q \in 1..o[k], q \notin L
        PROVE  q \in P
    <3> DEFINE T == {j \in 1..n : q <= o[j]}
    <3>1. T \subseteq Nat /\ k \in T
      BY <1>1, <1>2
    <3>2. PICK j \in T : \A i \in T : j <= i
      BY <3>1, Least
    <3>3. j \in 1..n /\ q <= o[j] /\ j <= k /\ j # 1
      BY <1>1, <1>2, <1>13, <3>1, <3>2
    <3> DEFINE i == j - 1
    <3>4. i \in 1..n /\ i + 1 = j /\ i < k /\ i < n /\ i \notin T
      BY <1>1, <3>2, <3>3
    <3>5. o[i] < q
      BY <1>2, <3>4
    <3>6. q \in (o[i] + 1)..o[i + 1] /\ q \in 1..b
      <4>1. o[i] \in Nat /\ o[j] \in Nat /\ o[j] < b
        BY <1>2, <3>3, <3>4
      <4> HIDE DEF o, i
      <4> QED BY <1>1, <3>3, <3>4, <3>5, <4>1
    <3>7. i \notin D
      BY <1>7, <2>1, <3>4, <3>6
    <3>8. q \in C(i)
      BY <1>4, <3>3, <3>4, <3>5, <3>6
    <3> QED BY <1>5, <3>4, <3>7, <3>8
  <2>2. A \cup L = 1..(o[k] + 1)
    <3>1. A \subseteq 1..(o[k] + 1)
      BY <1>1, <1>8, <1>11
    <3>2. L \subseteq 1..(o[k] + 1)
      BY <1>10, <1>11
    <3>3. \A q \in 1..(o[k] + 1) : q \in 1..o[k] \/ q = o[k] + 1
      BY <1>11
    <3>4. \A q \in 1..(o[k] + 1) : q <= o[k] + 1
      BY <1>11
    <3>5. ASSUME NEW q \in 1..(o[k] + 1), q = o[k] + 1 PROVE q \in A \cup L
      BY <1>9, <3>5
    <3>6. ASSUME NEW q \in 1..(o[k] + 1), q \in 1..o[k] PROVE q \in A \cup L
      BY <2>1, <3>6
    <3>7. 1..(o[k] + 1) \subseteq A \cup L
      BY <3>3, <3>5, <3>6
    <3> HIDE DEF A, L, o
    <3> QED BY <3>1, <3>2, <3>7
  <2>3. A \cap L = {}
    <3> SUFFICES ASSUME NEW q \in A, NEW i \in D, i < k, q \in (o[i] + 1)..o[i + 1]
                 PROVE  FALSE
      BY <1>7
    <3>1. PICK j \in (1..n) \ D : q \in C(j)
      BY <1>5
    <3>2. i \in 1..n /\ i + 1 \in 1..n /\ j \in 1..n /\ j # i
      BY <1>6, <3>1
    <3>3. o[j] < q /\ q <= (IF j < n THEN o[j + 1] ELSE b) /\ q \in Nat
      BY <1>1, <1>4, <3>1
    <3>4. o[i] < q /\ q <= o[i + 1]
      BY <1>2, <3>2, <3>3
    <3>5. CASE j < i
      <4>1. j < n /\ j + 1 \in 1..n /\ j + 1 <= i
        BY <1>1, <3>2, <3>5
      <4>2. o[j + 1] <= o[i] /\ o[j + 1] \in Nat /\ o[i] \in Nat
        BY <1>2, <1>17, <3>2, <4>1
      <4>3. q <= o[j + 1] /\ o[i] < q /\ q \in Nat
        BY <3>3, <3>4, <4>1
      <4> HIDE DEF C, L, A, P
      <4> QED BY ONLY <4>2, <4>3
    <3>6. CASE i < j
      <4>1. i + 1 <= j
        BY <3>2, <3>6
      <4>2. o[i + 1] <= o[j] /\ o[i + 1] \in Nat /\ o[j] \in Nat
        BY <1>2, <1>17, <3>2, <4>1
      <4> HIDE DEF C, L, A, P
      <4> QED BY ONLY <3>3, <3>4, <4>2
    <3> QED BY <1>1, <3>2, <3>5, <3>6
  <2>4. IsFiniteSet(1..(o[k] + 1)) /\ Cardinality(1..(o[k] + 1)) = o[k] + 1
    BY <1>11, <1>18
  <2>5. IsFiniteSet(A) /\ Cardinality(A) \in Nat
    BY <2>2, <2>4, FS_Subset, FS_CardinalityType
  <2>6. Cardinality(A \cup L) = Cardinality(A) + Cardinality(L) - Cardinality(A \cap L)
    BY <1>12, <2>5, FS_Union
  <2>7. Cardinality(A \cap L) = 0
    BY <2>3, FS_EmptySet
  <2>8. Cardinality(A \cup L) = o[k] + 1
    BY <2>2, <2>4
  <2>9. \A a, l, m \in Nat : m + 1 = a + l - 0 => a = m + 1 - l
    OBVIOUS
  <2>10. o[k] + 1 = Cardinality(A) + Cardinality(L) - 0
    BY <2>6, <2>7, <2>8
  <2> HIDE DEF A, L, o
  <2> QED BY <1>11, <1>12, <2>5, <2>9, <2>10
<1>14. LeftOut(f, k, D) = Cardinality(L)
  BY DEF LeftOut
<1>15. Rank(o[k] + 1, P) = Cardinality(A)
  BY DEF Rank
<1>16. o[k] = mIndexList[k][f] /\ o[1] = mIndexList[1][f]
  <2>1. 1 \in 1..n
    BY <1>1, <1>3
  <2> QED BY <1>2, <1>3, <2>1
<1> HIDE DEF A, L, o, P
<1> QED
  BY <1>1, <1>8, <1>9, <1>12, <1>13, <1>14, <1>15, <1>16 DEF P

-----------------------------------------------------------------------------
(* Sequences that are changed at their end.                                *)
LEMMA AtEnd ==
    ASSUME NEW S, NEW s \in Seq(S), NEW e \in S
    PROVE  /\ Append(s, e) \in Seq(S) /\ Len(Append(s, e)) = Len(s) + 1
           /\ Len(s) \in Nat /\ DOMAIN s = 1..Len(s)
           /\ \A i \in 1..Len(s) : Append(s, e)[i] = s[i]
           /\ Append(s, e)[Len(s) + 1] = e
           /\ Front(Append(s, e)) = s
<1> DEFINE t == Append(s, e)
<1>1. /\ t \in Seq(S) /\ Len(t) = Len(s) + 1
      /\ \A i \in 1..Len(s) : t[i] = s[i]
      /\ t[Len(s) + 1] = e
      /\ Len(s) \in Nat /\ DOMAIN s = 1..Len(s)
  BY AppendProperties, LenProperties
<1> HIDE DEF t
<1>2. Front(t) = SubSeq(t, 1, Len(s))
  BY <1>1 DEF Front
<1>3. /\ SubSeq(t, 1, Len(s)) \in Seq(S) /\ Len(SubSeq(t, 1, Len(s))) = Len(s)
      /\ \A i \in 1..Len(s) : SubSeq(t, 1, Len(s))[i] = t[i]
  BY <1>1, SubSeqProperties
<1>4. Front(t) = s
  BY <1>1, <1>2, <1>3, SeqEqual
<1> QED BY <1>1, <1>4 DEF t

LEMMA BeforeEnd ==
    ASSUME NEW S, NEW s \in Seq(S), Len(s) > 0
    PROVE  /\ Front(s) \in Seq(S) /\ Len(Front(s)) = Len(s) - 1 /\ Len(s) \in Nat
           /\ Len(s) - 1 \in Nat /\ Len(s) \in DOMAIN s
           /\ DOMAIN s = 1..Len(s) /\ DOMAIN Front(s) = 1..(Len(s) - 1)
           /\ \A i \in 1..(Len(s) - 1) : Front(s)[i] = s[i]
<1>1. Len(s) \in Nat /\ DOMAIN s = 1..Len(s) /\ Len(s) \in DOMAIN s
  BY LenProperties
<1>2. Front(s) = SubSeq(s, 1, Len(s) - 1)
  BY DEF Front
<1>3. /\ SubSeq(s, 1, Len(s) - 1) \in Seq(S)
      /\ Len(SubSeq(s, 1, Len(s) - 1)) = Len(s) - 1
      /\ \A i \in 1..(Len(s) - 1) : SubSeq(s, 1, Len(s) - 1)[i] = s[i]
  BY <1>1, SubSeqProperties
<1>4. DOMAIN Front(s) = 1..(Len(s) - 1)
  BY <1>2, <1>3, LenProperties
<1> QED BY <1>1, <1>2, <1>3, <1>4

LEMMA Replaced ==
    ASSUME NEW S, NEW s \in Seq(S), NEW i \in DOMAIN s, NEW e \in S
    PROVE  /\ ReplaceAt(s, i, e) \in Seq(S)
           /\ Len(ReplaceAt(s, i, e)) = Len(s)
           /\ DOMAIN ReplaceAt(s, i, e) = DOMAIN s
           /\ DOMAIN s = 1..Len(s) /\ Len(s) \in Nat
           /\ \A j \in DOMAIN s : ReplaceAt(s, i, e)[j] = IF j = i THEN e ELSE s[j]
<1>1. s \in [1..Len(s) -> S] /\ DOMAIN s = 1..Len(s) /\ Len(s) \in Nat
  BY LenProperties, ElementOfSeq
<1> DEFINE t == [s EXCEPT ![i] = e]
<1>2. t \in [1..Len(s) -> S]
  BY <1>1
<1>3. t \in Seq(S)
  BY <1>1, <1>2, SeqDef
<1>4. Len(t) = Len(s)
  BY <1>1, <1>2, <1>3, LenProperties
<1>5. \A j \in DOMAIN s : t[j] = IF j = i THEN e ELSE s[j]
  BY <1>1
<1>6. DOMAIN t = DOMAIN s
  BY <1>1, <1>2
<1>7. ReplaceAt(s, i, e) = t
  BY DEF ReplaceAt
<1> QED BY <1>1, <1>3, <1>4, <1>5, <1>6, <1>7

LEMMA ReplacedAtEnd ==
    ASSUME NEW S, NEW s \in Seq(S), NEW e \in S, Len(s) > 0
    PROVE  /\ ReplaceAt(s, Len(s), e) = Append(Front(s), e)
           /\ s = Append(Front(s), s[Len(s)])
<1>1. /\ Front(s) \in Seq(S) /\ Len(Front(s)) = Len(s) - 1 /\ Len(s) \in Nat
      /\ Len(s) - 1 \in Nat /\ Len(s) \in DOMAIN s
      /\ DOMAIN s = 1..Len(s)
      /\ \A i \in 1..(Len(s) - 1) : Front(s)[i] = s[i]
  BY BeforeEnd
<1>2. s[Len(s)] \in S
  BY <1>1, ElementOfSeq
<1> DEFINE F == Front(s)
           t == ReplaceAt(s, Len(s), e)
<1>3. \A x \in S : /\ Append(F, x) \in Seq(S) /\ Len(Append(F, x)) = Len(F) + 1
                   /\ \A i \in 1..Len(F) : Append(F, x)[i] = F[i]
                   /\ Append(F, x)[Len(F) + 1] = x
  BY <1>1, AtEnd
<1>4. /\ t \in Seq(S) /\ Len(t) = Len(s)
      /\ \A j \in DOMAIN s : t[j] = IF j = Len(s) THEN e ELSE s[j]
  <2>1. \A i \in DOMAIN s :
           /\ ReplaceAt(s, i, e) \in Seq(S) /\ Len(ReplaceAt(s, i, e)) = Len(s)
           /\ \A j \in DOMAIN s : ReplaceAt(s, i, e)[j] = IF j = i THEN e ELSE s[j]
    BY Replaced
  <2> QED BY <1>1, <2>1
<1> HIDE DEF F, t
<1>5. \A i \in 1..Len(s) : i = Len(s) \/ i \in 1..(Len(s) - 1)
  BY <1>1
<1>6. Len(F) = Len(s) - 1 /\ Len(F) + 1 = Len(s)
  BY <1>1 DEF F
<1>7. \A i \in 1..Len(s) : t[i] = Append(F, e)[i]
  BY <1>1, <1>3, <1>4, <1>5, <1>6 DEF F
<1>8. t = Append(F, e)
  BY <1>3, <1>4, <1>6, <1>7, SeqEqual
<1>9. \A i \in 1..Len(s) : s[i] = Append(F, s[Len(s)])[i]
  BY <1>1, <1>2, <1>3, <1>5, <1>6 DEF F
<1>10. s = Append(F, s[Len(s)])
  BY <1>2, <1>3, <1>6, <1>9, SeqEqual
<1> QED BY <1>8, <1>10 DEF F, t

LEMMA OneMore ==
    ASSUME NEW S, NEW s \in Seq(S), NEW t \in Seq(S), Len(t) = 1
    PROVE  /\ s \o t = Append(s, t[1]) /\ t[1] \in S
           /\ DOMAIN t = {1}
<1>1. t[1] \in S
  BY ElementOfSeq
<1>2. /\ s \o t \in Seq(S) /\ Len(s \o t) = Len(s) + Len(t)
      /\ \A i \in 1..Len(s) + Len(t) : (s \o t)[i] =
            IF i <= Len(s) THEN s[i] ELSE t[i - Len(s)]
      /\ Len(s) \in Nat
  BY ConcatProperties, LenProperties
<1>3. /\ Append(s, t[1]) \in Seq(S) /\ Len(Append(s, t[1])) = Len(s) + 1
      /\ \A i \in 1..Len(s) : Append(s, t[1])[i] = s[i]
      /\ Append(s, t[1])[Len(s) + 1] = t[1]
  BY <1>1, AtEnd
<1>4. \A i \in 1..(Len(s) + 1) : i \in 1..Len(s) \/ i = Len(s) + 1
  BY <1>2
<1>5. \A i \in 1..(Len(s) + 1) : (s \o t)[i] = Append(s, t[1])[i]
  BY <1>2, <1>3, <1>4
<1>6. s \o t = Append(s, t[1])
  BY <1>2, <1>3, <1>5, SeqEqual
<1>7. DOMAIN t = {1}
  BY LenProperties
<1> QED BY <1>1, <1>6, <1>7

-----------------------------------------------------------------------------
(* The invariant of the files, by parts.  First their types.               *)
Entry == Text \cup {Blank}

Made3 == [mbx : Seq(Text), mbc : Seq(Entry), mbi : MbxIndex]
Made2 == [mbi : MbxIndex, recovered : BOOLEAN]
Made1 == [mbx : Seq(Text)]

FileTypes ==
    /\ fs.there \subseteq Files /\ fs.old \in Seq(Text)
    /\ fs.mbx \in Seq(Text) /\ fs.mbc \in Seq(Entry) /\ fs.mbi \in MbxIndex
    /\ pc \in Rebuilding => fs.new \in Made2
    /\ pc = "rollback" => fs.new \in Made1
    /\ pc = "expunge" => fs.new \in Made3
    /\ pc \notin Rebuilding \cup {"rollback", "expunge"} => fs.new = << >>

StateTypes ==
    /\ newer \subseteq {"mbx", "mbc"} /\ hidden \subseteq {"mbx", "mbc"}
    /\ newer \cap hidden = {}
    /\ goal \in {"none", "select", "append"}
    /\ mIndexList \in Seq(Record) /\ late \in Seq(Record) /\ Len(late) <= 1
    /\ kept \subseteq Msgs
    /\ trusted \in BOOLEAN /\ astray \in BOOLEAN
    /\ faults \in 0..MaxFaults

(* The messages and the text of the record in the buffer are among texts s.*)
Holds(s) ==
    /\ kept \subseteq Range(s)
    /\ late # << >> => late[1].start < Len(s) /\ s[late[1].start + 1] \in Msgs

(* The mailbox file, or what it was renamed to; and the texts without the  *)
(* one that is being appended.                                             *)
Texts   == IF "mbx" \in fs.there THEN fs.mbx ELSE fs.old
Indexed == IF pc \in {"text", "entry", "cache"} THEN Front(fs.mbx)
           ELSE IF pc = "rollback" THEN fs.new.mbx ELSE fs.mbx

Stored ==
    /\ Holds(Texts)
    /\ pc \in Unflushed \cup Flushed => Holds(Indexed)
    /\ pc \in Rebuilding \cup Unflushed \cup Flushed \cup {"idle", "created"} =>
         pc = "rollback" \/ "mbx" \in fs.there
    /\ pc \in {"text", "entry", "cache"} => Len(fs.mbx) > 0
    /\ pc = "text" => Unused # {}
    /\ pc \in {"entry", "cache"} => fs.mbx[Len(fs.mbx)] \in Msgs
    /\ pc \in {"next", "header", "appended"} => late # << >>
    /\ pc = "next" => late[1].start + 1 = Len(fs.mbx)
    /\ pc = "stop" /\ late # << >> => fs.mbc = FlushedCache
    /\ late # << >> => Len(fs.mbc) > 0

(* How far the renames are.                                                *)
Left7 == <<Out("mbx"), Out("mbc"), Out("mbi"), In("mbx"), In("mbc"), In("mbi"), Drop>>
Left6 == <<Out("mbc"), Out("mbi"), In("mbx"), In("mbc"), In("mbi"), Drop>>
Left5 == <<Out("mbi"), In("mbx"), In("mbc"), In("mbi"), Drop>>
Left4 == <<In("mbx"), In("mbc"), In("mbi"), Drop>>
Left3 == <<In("mbc"), In("mbi"), Drop>>
Left2 == <<In("mbi"), Drop>>

Moved ==
    /\ pc = "rollback" =>
         \/ moves = <<Out("mbx"), In("mbx"), Drop>> /\ "mbx" \in fs.there
         \/ moves = <<In("mbx"), Drop>> /\ "mbx" \notin fs.there
         \/ moves \in {<<Drop>>, << >>} /\ "mbx" \in fs.there /\ fs.mbx = fs.new.mbx
    /\ pc = "expunge" =>
         /\ Holds(fs.new.mbx)
         /\ Len(fs.new.mbi.recs) < Len(mIndexList)
         /\ \/ moves = Left7 /\ "mbx" \in fs.there
            \/ moves = Left6 /\ "mbx" \notin fs.there
            \/ moves = Left5 /\ {"mbx", "mbc"} \cap fs.there = {}
            \/ moves = Left4 /\ Files \cap fs.there = {}
            \/ moves = Left3 /\ {"mbc", "mbi"} \cap fs.there = {}
               /\ "mbx" \in fs.there /\ fs.mbx = fs.new.mbx
            \/ moves = Left2 /\ "mbi" \notin fs.there
               /\ "mbx" \in fs.there /\ fs.mbx = fs.new.mbx /\ fs.mbc = fs.new.mbc
            \/ moves \in {<<Drop>>, << >>}
               /\ "mbx" \in fs.there /\ fs.mbx = fs.new.mbx /\ fs.mbc = fs.new.mbc
    /\ "mbx" \notin fs.there => fs.mbx = << >>
    /\ "mbi" \notin fs.there => fs.mbi = NoIndex

(* The records are those of the messages in a mailbox file and in a cache. *)
Describes(recs, mbx, mbc, msgs) ==
    /\ \A i, j \in DOMAIN recs : i < j => recs[i].start < recs[j].start
    /\ Len(mbc) = Len(recs)
    /\ \A k \in DOMAIN recs :
         /\ recs[k].cache = k - 1 /\ recs[k].start < Len(mbx)
         /\ mbc[k] = mbx[recs[k].start + 1]
    /\ msgs \subseteq {mbx[recs[k].start + 1] : k \in DOMAIN recs}

(* The files are no newer than the index, as far as that can be told.      *)
AsOld == newer = {} /\ hidden = {}

Older ==
    /\ pc \in {"text", "rollback", "recache", "reindex"} \cup {"entry"} \cup Flushed => ~AsOld
    /\ pc = "created" => ~AsOld \/ ~fs.mbi.valid
    /\ pc = "reheader" => ~fs.mbi.valid
    /\ pc = "rerecord" => fs.mbi.recs = << >> /\ fs.mbi.size = Len(fs.mbx)
    /\ pc \in Unflushed \cup Flushed => Readable

(* An append counts its record when all that belongs to it is written; when*)
(* a record has been lost in a crash the count is never right again.       *)
WithLate == IF pc = "cache" THEN fs.mbi.recs ELSE fs.mbi.recs \o late
Counted  == Len(WithLate) = fs.mbi.size + (IF pc \in {"next", "header"} THEN 1 ELSE 0)
Cached   == IF late = << >> THEN fs.mbc
            ELSE ReplaceAt(fs.mbc, Len(fs.mbc), Indexed[late[1].start + 1])

Viewed ==
    /\ ~trusted /\ AsOld /\ Readable /\ Whole(fs.mbi) /\ "mbx" \in fs.there =>
         Describes(fs.mbi.recs, fs.mbx, fs.mbc, kept)
    /\ pc = "idle" /\ ~trusted => Describes(mIndexList, fs.mbx, fs.mbc, kept)
    /\ pc \in Unflushed \cup Flushed /\ ~trusted /\ Counted =>
         Describes(WithLate, Indexed, Cached, kept)
    /\ pc \in Rebuilding => Describes(fs.new.mbi.recs, fs.mbx, fs.mbx, kept)
    /\ pc \in Rebuilding \ {"recache"} => fs.mbc = fs.mbx
    /\ pc = "expunge" /\ ~trusted =>
         Describes(fs.new.mbi.recs, fs.new.mbx, fs.new.mbc, kept)

FInv == FileTypes /\ StateTypes /\ Stored /\ Moved /\ Older /\ Viewed

-----------------------------------------------------------------------------
(* What is described stays so when a message is appended.                  *)
LEMMA DescribesFewer ==
    ASSUME NEW recs, NEW mbx, NEW mbc, NEW M, NEW K, K \subseteq M,
           Describes(recs, mbx, mbc, M)
    PROVE  Describes(recs, mbx, mbc, K)
BY DEF Describes

LEMMA DescribesMore ==
    ASSUME NEW recs \in Seq(Record), NEW mbx \in Seq(Text), NEW mbc \in Seq(Entry),
           NEW M, Describes(recs, mbx, mbc, M),
           NEW r \in Record, r.start = Len(mbx), r.cache = Len(mbc), NEW m \in Text
    PROVE  Describes(Append(recs, r), Append(mbx, m), Append(mbc, m), M)
<1> DEFINE R == Append(recs, r)
           X == Append(mbx, m)
           C == Append(mbc, m)
           n == Len(recs)
<1>1. /\ R \in Seq(Record) /\ Len(R) = n + 1 /\ n \in Nat /\ DOMAIN recs = 1..n
      /\ \A i \in 1..n : R[i] = recs[i]
      /\ R[n + 1] = r
  BY AtEnd
<1>2. /\ Len(X) = Len(mbx) + 1 /\ Len(mbx) \in Nat
      /\ \A i \in 1..Len(mbx) : X[i] = mbx[i]
      /\ X[Len(mbx) + 1] = m
  BY AtEnd
<1>3. m \in Entry
  BY DEF Entry
<1>4. /\ Len(C) = Len(mbc) + 1 /\ Len(mbc) \in Nat
      /\ \A i \in 1..Len(mbc) : C[i] = mbc[i]
      /\ C[Len(mbc) + 1] = m
  BY <1>3, AtEnd
<1>5. Len(mbc) = n
  BY DEF Describes
<1>6. DOMAIN R = 1..(n + 1)
  BY <1>1, LenProperties
<1> HIDE DEF R, X, C, n
<1>7. \A i \in 1..(n + 1) : i \in 1..n \/ i = n + 1
  BY <1>1
<1>8. \A i \in 1..n : /\ recs[i] \in Record /\ recs[i].start \in Nat
                      /\ recs[i].start < Len(mbx) /\ recs[i].cache = i - 1
                      /\ mbc[i] = mbx[recs[i].start + 1]
                      /\ recs[i].start + 1 \in 1..Len(mbx)
  <2>1. \A i \in 1..n : recs[i] \in Record
    BY <1>1, ElementOfSeq
  <2>2. \A i \in 1..n : recs[i].start \in Nat
    BY <2>1 DEF Record
  <2>3. \A i \in 1..n : /\ recs[i].start < Len(mbx) /\ recs[i].cache = i - 1
                        /\ mbc[i] = mbx[recs[i].start + 1]
    BY <1>1 DEF Describes
  <2>4. \A a, b \in Nat : a < b => a + 1 \in 1..b
    OBVIOUS
  <2> QED BY <1>2, <2>1, <2>2, <2>3, <2>4
<1>9. \A i, j \in 1..(n + 1) : i < j => R[i].start < R[j].start
  <2> SUFFICES ASSUME NEW i \in 1..(n + 1), NEW j \in 1..(n + 1), i < j
               PROVE  R[i].start < R[j].start
    OBVIOUS
  <2>1. i \in 1..n
    BY <1>1
  <2>2. CASE j \in 1..n
    BY <1>1, <2>1, <2>2 DEF Describes
  <2>3. CASE j = n + 1
    BY <1>1, <1>8, <2>1, <2>3
  <2> QED BY <1>7, <2>2, <2>3
<1>10. \A k \in 1..(n + 1) :
         /\ R[k].cache = k - 1 /\ R[k].start < Len(X)
         /\ C[k] = X[R[k].start + 1]
  <2> SUFFICES ASSUME NEW k \in 1..(n + 1)
               PROVE  /\ R[k].cache = k - 1 /\ R[k].start < Len(X)
                      /\ C[k] = X[R[k].start + 1]
    OBVIOUS
  <2>1. CASE k \in 1..n
    <3>1. R[k] = recs[k] /\ C[k] = mbc[k]
      BY <1>1, <1>4, <1>5, <2>1
    <3>2. X[recs[k].start + 1] = mbx[recs[k].start + 1]
      BY <1>2, <1>8, <2>1
    <3>3. \A a, b \in Nat : a < b => a < b + 1
      OBVIOUS
    <3> QED BY <1>2, <1>8, <2>1, <3>1, <3>2, <3>3
  <2>2. CASE k = n + 1
    BY <1>1, <1>2, <1>4, <1>5, <2>2
  <2> QED BY <1>7, <2>1, <2>2
<1>11. ASSUME NEW x \in M
       PROVE  \E k \in 1..(n + 1) : x = X[R[k].start + 1]
  <2>1. PICK k \in 1..n : x = mbx[recs[k].start + 1]
    BY <1>1 DEF Describes
  <2>2. \A j \in 1..n : j \in 1..(n + 1)
    BY <1>1
  <2>3. k \in 1..(n + 1) /\ R[k] = recs[k]
    BY <1>1, <2>1, <2>2
  <2>4. X[recs[k].start + 1] = mbx[recs[k].start + 1]
    BY <1>2, <1>8, <2>1
  <2> QED BY <2>1, <2>3, <2>4
<1>12. Describes(R, X, C, M)
  <2>1. Len(C) = Len(R)
    BY <1>1, <1>4, <1>5
  <2>2. DOMAIN R = 1..(n + 1)
    BY <1>6
  <2>3. M \subseteq {X[R[k].start + 1] : k \in DOMAIN R}
    BY <1>11, <2>2
  <2>4. \A i, j \in DOMAIN R : i < j => R[i].start < R[j].start
    BY <1>9, <2>2
  <2>5. \A k \in DOMAIN R : /\ R[k].cache = k - 1 /\ R[k].start < Len(X)
                            /\ C[k] = X[R[k].start + 1]
    BY <1>10, <2>2
  <2> QED BY ONLY <2>1, <2>3, <2>4, <2>5 DEF Describes
<1> QED BY <1>12 DEF R, X, C

(* Nor is what is in front of another text shown otherwise.                *)
LEMMA DescribesLonger ==
    ASSUME NEW recs \in Seq(Record), NEW mbx \in Seq(Text), NEW mbc, NEW M,
           Len(mbx) > 0, Describes(recs, Front(mbx), mbc, M)
    PROVE  Describes(recs, mbx, mbc, M)
<1> DEFINE n == Len(recs)
<1>1. /\ Len(Front(mbx)) = Len(mbx) - 1 /\ Len(mbx) \in Nat
      /\ \A i \in 1..(Len(mbx) - 1) : Front(mbx)[i] = mbx[i]
  BY BeforeEnd
<1>2. \A k \in DOMAIN recs : recs[k] \in Record /\ recs[k].start \in Nat
  <2>1. \A k \in DOMAIN recs : recs[k] \in Record
    BY LenProperties, ElementOfSeq
  <2> QED BY <2>1 DEF Record
<1>3. \A k \in DOMAIN recs :
        /\ recs[k].start < Len(mbx)
        /\ Front(mbx)[recs[k].start + 1] = mbx[recs[k].start + 1]
  <2>1. \A k \in DOMAIN recs : recs[k].start < Len(Front(mbx))
    BY DEF Describes
  <2>0. \A a, b \in Nat : a < b - 1 => a + 1 \in 1..(b - 1) /\ a < b
    OBVIOUS
  <2>2. \A k \in DOMAIN recs : recs[k].start + 1 \in 1..(Len(mbx) - 1)
    BY <1>1, <1>2, <2>0, <2>1
  <2>3. \A k \in DOMAIN recs : recs[k].start < Len(mbx)
    BY <1>1, <1>2, <2>0, <2>1
  <2> QED BY <1>1, <2>2, <2>3
<1>4. /\ \A i, j \in DOMAIN recs : i < j => recs[i].start < recs[j].start
      /\ Len(mbc) = Len(recs)
      /\ \A k \in DOMAIN recs : /\ recs[k].cache = k - 1
                                /\ mbc[k] = Front(mbx)[recs[k].start + 1]
      /\ \A m \in M : \E k \in DOMAIN recs : m = Front(mbx)[recs[k].start + 1]
  BY DEF Describes
<1>5. M \subseteq {mbx[recs[k].start + 1] : k \in DOMAIN recs}
  BY <1>3, <1>4
<1> QED BY ONLY <1>3, <1>4, <1>5 DEF Describes

(* Changed flags do not matter.                                            *)
LEMMA DescribesFlagged ==
    ASSUME NEW recs \in Seq(Record), NEW mbx, NEW mbc, NEW M,
           Describes(recs, mbx, mbc, M), NEW k \in DOMAIN recs,
           NEW r \in Record, r.start = recs[k].start, r.cache = recs[k].cache
    PROVE  Describes(ReplaceAt(recs, k, r), mbx, mbc, M)
<1> DEFINE R == ReplaceAt(recs, k, r)
<1>1. /\ DOMAIN R = DOMAIN recs /\ Len(R) = Len(recs)
      /\ \A j \in DOMAIN recs : R[j] = IF j = k THEN r ELSE recs[j]
  BY Replaced
<1> HIDE DEF R
<1>2. \A j \in DOMAIN recs : R[j].start = recs[j].start /\ R[j].cache = recs[j].cache
  BY <1>1
<1>3. /\ \A i, j \in DOMAIN recs : i < j => recs[i].start < recs[j].start
      /\ \A j \in DOMAIN recs : /\ recs[j].cache = j - 1 /\ recs[j].start < Len(mbx)
                                /\ mbc[j] = mbx[recs[j].start + 1]
      /\ \A m \in M : \E j \in DOMAIN recs : m = mbx[recs[j].start + 1]
      /\ Len(mbc) = Len(recs)
  BY DEF Describes
<1>4. /\ \A i, j \in DOMAIN R : i < j => R[i].start < R[j].start
      /\ \A j \in DOMAIN R : /\ R[j].cache = j - 1 /\ R[j].start < Len(mbx)
                             /\ mbc[j] = mbx[R[j].start + 1]
  BY <1>1, <1>2, <1>3
<1>6. M \subseteq {mbx[R[j].start + 1] : j \in DOMAIN R}
  BY <1>1, <1>2, <1>3
<1>7. Len(mbc) = Len(R)
  BY <1>1, <1>3
<1>5. Describes(R, mbx, mbc, M)
  BY ONLY <1>4, <1>6, <1>7 DEF Describes
<1> QED BY <1>5 DEF R

(* Records made from the texts are theirs.                                 *)
LEMMA DescribesInOrder ==
    ASSUME NEW mbx \in Seq(Text), NEW M \in SUBSET Range(mbx), NEW flag, NEW uid
    PROVE  Describes(InOrder(Len(mbx), flag, uid), mbx, mbx, M)
<1> DEFINE n == Len(mbx)
           R == InOrder(n, flag, uid)
<1>1. n \in Nat /\ DOMAIN mbx = 1..n
  BY LenProperties
<1>2. R = [k \in 1..n |-> [start |-> k - 1, cache |-> k - 1,
                           deleted |-> flag[k], luid |-> uid[k]]]
  BY DEF InOrder
<1>3. DOMAIN R = 1..n /\ \A k \in 1..n : R[k].start = k - 1 /\ R[k].cache = k - 1
  BY <1>2
<1>4. R = [k \in 1..n |-> R[k]]
  BY <1>2
<1>5. Len(R) = n
  BY <1>1, <1>4, ListedFunction
<1> HIDE DEF R
<1>6. \A k \in 1..n : k - 1 + 1 = k /\ k - 1 < n
  BY <1>1
<1>7. \A i, j \in 1..n : i < j => i - 1 < j - 1
  BY <1>1
<1>8. M \subseteq {mbx[k] : k \in 1..n}
  BY <1>1 DEF Range
<1>9. Describes(R, mbx, mbx, M)
  BY <1>1, <1>3, <1>5, <1>6, <1>7, <1>8 DEF Describes
<1> QED BY <1>9 DEF R

-----------------------------------------------------------------------------
(* What an expunge of the records in D makes of files that are described:  *)
(* types first, then the messages, then the records.                       *)
Remaining(D) == kept \ {Shown(mIndexList[k]) : k \in D}

Moves(D) ==
    [k \in DOMAIN mIndexList |->
        [mIndexList[k] EXCEPT !.start = @ - LeftOut("start", k, D),
                              !.cache = @ - LeftOut("cache", k, D)]]

LEMMA WithoutParts ==
    ASSUME NEW D, FileTypes
    PROVE  /\ Without(D) = [mbx |-> Without(D).mbx, mbc |-> Without(D).mbc,
                            mbi |-> Without(D).mbi]
           /\ Without(D).mbx = Pick(fs.mbx, Stays("start", fs.mbx, D))
           /\ Without(D).mbc = Pick(fs.mbc, Stays("cache", fs.mbc, D))
           /\ Without(D).mbi.recs = Pick(Moves(D), DOMAIN mIndexList \ D)
           /\ Without(D).mbi = [fs.mbi EXCEPT !.recs = Without(D).mbi.recs]
           /\ Without(D).mbi.valid = fs.mbi.valid /\ Without(D).mbi.size = fs.mbi.size
           /\ Without(D).mbi.next = fs.mbi.next
<1>1. fs.mbi \in MbxIndex
  BY DEF FileTypes
<1> DEFINE recs == Pick(Moves(D), DOMAIN mIndexList \ D)
           i == [fs.mbi EXCEPT !.recs = recs]
<1>2. Without(D) = [mbx |-> Pick(fs.mbx, Stays("start", fs.mbx, D)),
                    mbc |-> Pick(fs.mbc, Stays("cache", fs.mbc, D)),
                    mbi |-> i]
  BY DEF Without, Stays, Moves
<1> HIDE DEF recs
<1>3. /\ i.recs = recs /\ i.valid = fs.mbi.valid /\ i.size = fs.mbi.size
      /\ i.next = fs.mbi.next
  BY <1>1 DEF MbxIndex
<1> HIDE DEF i
<1>4. Without(D).mbi = i
  BY <1>2
<1>5. Without(D).mbi.recs = recs
  BY <1>3, <1>4
<1>6. Without(D).mbi = [fs.mbi EXCEPT !.recs = Without(D).mbi.recs]
  BY <1>4, <1>5 DEF i
<1>7. /\ Without(D).mbi.valid = fs.mbi.valid /\ Without(D).mbi.size = fs.mbi.size
      /\ Without(D).mbi.next = fs.mbi.next
  BY <1>3, <1>4
<1>8. /\ Without(D).mbx = Pick(fs.mbx, Stays("start", fs.mbx, D))
      /\ Without(D).mbc = Pick(fs.mbc, Stays("cache", fs.mbc, D))
      /\ Without(D) = [mbx |-> Without(D).mbx, mbc |-> Without(D).mbc,
                       mbi |-> Without(D).mbi]
  BY <1>2
<1> QED BY <1>5, <1>6, <1>7, <1>8 DEF recs

LEMMA DescribedOffsets ==
    ASSUME FileTypes, StateTypes, Describes(mIndexList, fs.mbx, fs.mbc, kept)
    PROVE  /\ Listed(mIndexList) /\ Listed(fs.mbx) /\ Listed(fs.mbc)
           /\ Ascending("start", fs.mbx) /\ Ascending("cache", fs.mbc)
           /\ \A k \in DOMAIN mIndexList :
                /\ mIndexList[k] \in Record /\ k \in Nat
                /\ mIndexList[k].cache = k - 1
                /\ Shown(mIndexList[k]) = fs.mbx[mIndexList[k].start + 1]
                /\ fs.mbc[k] = fs.mbx[mIndexList[k].start + 1]
<1>1. /\ mIndexList \in Seq(Record) /\ fs.mbx \in Seq(Text) /\ fs.mbc \in Seq(Entry)
  BY DEF FileTypes, StateTypes
<1>2. Listed(mIndexList) /\ Listed(fs.mbx) /\ Listed(fs.mbc)
  BY <1>1, SeqIsListed
<1> DEFINE n == Len(mIndexList)
<1>3. DOMAIN mIndexList = 1..n /\ n \in Nat /\ Len(fs.mbc) = n
  BY <1>2, ListedLen DEF Describes
<1>4. \A k \in 1..n : mIndexList[k] \in Record
  BY <1>1, <1>3, ElementOfSeq
<1>5. \A k \in 1..n : /\ mIndexList[k].start \in Nat /\ mIndexList[k].cache = k - 1
                      /\ mIndexList[k].start < Len(fs.mbx)
                      /\ fs.mbc[k] = fs.mbx[mIndexList[k].start + 1]
  BY <1>3, <1>4 DEF Record, Describes
<1>6. \A k \in 1..n : k - 1 \in Nat /\ k - 1 < n /\ k - 1 + 1 = k /\ k \in Nat
  BY <1>3
<1>7. Ascending("start", fs.mbx)
  BY <1>3, <1>5 DEF Describes, Ascending
<1>8. Ascending("cache", fs.mbc)
  BY <1>3, <1>5, <1>6 DEF Ascending
<1>9. \A k \in 1..n : Shown(mIndexList[k]) = fs.mbc[k]
  BY <1>3, <1>5, <1>6 DEF Shown
<1> QED BY <1>2, <1>3, <1>4, <1>5, <1>6, <1>7, <1>8, <1>9

LEMMA StaysInCache ==
    ASSUME FileTypes, StateTypes, Describes(mIndexList, fs.mbx, fs.mbc, kept),
           NEW D, D \subseteq DOMAIN mIndexList
    PROVE  Stays("cache", fs.mbc, D) = DOMAIN mIndexList \ D
<1> DEFINE n == Len(mIndexList)
<1>1. /\ DOMAIN mIndexList = 1..n /\ n \in Nat /\ Len(fs.mbc) = n
      /\ DOMAIN fs.mbc = 1..n
  BY DescribedOffsets, ListedLen DEF Describes
<1>2. \A k \in 1..n : mIndexList[k].cache = k - 1
  BY <1>1, DescribedOffsets
<1>3. ASSUME NEW k \in 1..n
      PROVE  Copied("cache", k, fs.mbc) = {k}
  <2>1. Until("cache", k, fs.mbc) = k
    <3>1. CASE k < n
      <4>1. k + 1 \in 1..n
        BY <1>1, <3>1
      <4>2. mIndexList[k + 1]["cache"] = k
        BY <1>2, <4>1
      <4> QED BY <3>1, <4>2 DEF Until
    <3>2. CASE ~ (k < n)
      <4> HIDE DEF n
      <4>1. k = n
        BY <1>1, <3>2
      <4> QED BY <1>1, <3>2, <4>1 DEF Until
    <3> QED BY <3>1, <3>2
  <2>2. mIndexList[k]["cache"] = k - 1
    BY <1>2
  <2>3. \A p \in 1..n : (k - 1 < p /\ p <= k) <=> p = k
    BY <1>1
  <2>4. Copied("cache", k, fs.mbc) = {p \in 1..n : k - 1 < p /\ p <= k}
    BY <1>1, <2>1, <2>2 DEF Copied
  <2> QED BY <2>3, <2>4
<1> QED BY <1>1, <1>3 DEF Stays

LEMMA WithoutTypes ==
    ASSUME FileTypes, StateTypes, Describes(mIndexList, fs.mbx, fs.mbc, kept),
           NEW D, D \subseteq DOMAIN mIndexList, D # {}
    PROVE  /\ Without(D) \in Made3
           /\ Len(Without(D).mbi.recs) < Len(mIndexList)
           /\ Remaining(D) \subseteq Range(Without(D).mbx)
<1> DEFINE W == Without(D)
           stay == DOMAIN mIndexList \ D
           n == Len(mIndexList)
           P == Stays("start", fs.mbx, D)
           C == Stays("cache", fs.mbc, D)
<1>1. /\ W = [mbx |-> W.mbx, mbc |-> W.mbc, mbi |-> W.mbi]
      /\ W.mbx = Pick(fs.mbx, P) /\ W.mbc = Pick(fs.mbc, C)
      /\ W.mbi.recs = Pick(Moves(D), stay)
      /\ W.mbi = [fs.mbi EXCEPT !.recs = W.mbi.recs]
  BY WithoutParts
<1>2. /\ Listed(mIndexList) /\ Listed(fs.mbx) /\ Listed(fs.mbc)
      /\ Ascending("start", fs.mbx) /\ Ascending("cache", fs.mbc)
      /\ \A k \in DOMAIN mIndexList :
           /\ mIndexList[k] \in Record
           /\ Shown(mIndexList[k]) = fs.mbx[mIndexList[k].start + 1]
  BY DescribedOffsets
<1>3. n \in Nat /\ DOMAIN mIndexList = 1..n
  BY <1>2, ListedLen
<1>4. /\ fs.mbx \in Seq(Text) /\ fs.mbc \in Seq(Entry) /\ fs.mbi \in MbxIndex
  BY DEF FileTypes
<1>5. \A k \in stay : /\ P \subseteq DOMAIN fs.mbx /\ C \subseteq DOMAIN fs.mbc
                      /\ mIndexList[k].start + 1 \in P
                      /\ LeftOut("start", k, D) \in Nat
                      /\ LeftOut("start", k, D) <= mIndexList[k].start
                      /\ LeftOut("cache", k, D) \in Nat
                      /\ LeftOut("cache", k, D) <= mIndexList[k].cache
  BY <1>2, LeftOutInFront
<1>6. P \subseteq DOMAIN fs.mbx /\ C \subseteq DOMAIN fs.mbc
  BY DEF Stays, Copied
<1>7. ASSUME NEW S, NEW s \in Seq(S), NEW Q, Q \subseteq DOMAIN s
      PROVE  Pick(s, Q) \in Seq(S)
  <2>1. Listed(s) /\ \A i \in DOMAIN s : s[i] \in S
    BY SeqIsListed, LenProperties, ElementOfSeq
  <2>2. /\ Listed(Pick(s, Q)) /\ DOMAIN Pick(s, Q) = 1..Cardinality(Q)
        /\ \A i \in 1..Cardinality(Q) : \E p \in Q : Pick(s, Q)[i] = s[p]
    BY <1>7, <2>1, PickAt
  <2>3. Range(Pick(s, Q)) \subseteq S
    BY <1>7, <2>1, <2>2 DEF Range
  <2> QED BY <2>2, <2>3, SeqMonotonic DEF Listed
<1>8. W.mbx \in Seq(Text) /\ W.mbc \in Seq(Entry)
  BY <1>1, <1>4, <1>6, <1>7
<1>9. /\ Listed(Moves(D)) /\ DOMAIN Moves(D) = 1..n
      /\ \A k \in stay : Moves(D)[k] \in Record
  <2>1. Moves(D) = [k \in 1..n |-> Moves(D)[k]]
    BY <1>3 DEF Moves
  <2>2. Listed(Moves(D)) /\ Len(Moves(D)) = n
    BY <1>3, <2>1, ListedFunction
  <2>3. ASSUME NEW k \in stay PROVE Moves(D)[k] \in Record
    <3> DEFINE r == mIndexList[k]
    <3>1. /\ r \in Record /\ LeftOut("start", k, D) \in Nat
          /\ LeftOut("start", k, D) <= r.start /\ r.start \in Nat
          /\ LeftOut("cache", k, D) \in Nat
          /\ LeftOut("cache", k, D) <= r.cache /\ r.cache \in Nat
      BY <1>2, <1>5 DEF Record
    <3>2. /\ r.start - LeftOut("start", k, D) \in Nat
          /\ r.cache - LeftOut("cache", k, D) \in Nat
      BY <3>1
    <3>3. Moves(D)[k] = [r EXCEPT !.start = @ - LeftOut("start", k, D),
                                  !.cache = @ - LeftOut("cache", k, D)]
      BY DEF Moves
    <3> HIDE DEF r
    <3> QED BY <3>1, <3>2, <3>3 DEF Record
  <2> QED BY <1>3, <2>1, <2>2, <2>3, ListedLen
<1>10. /\ IsFiniteSet(stay) /\ Cardinality(stay) \in Nat
       /\ Listed(Pick(Moves(D), stay)) /\ Len(Pick(Moves(D), stay)) = Cardinality(stay)
       /\ DOMAIN Pick(Moves(D), stay) = 1..Cardinality(stay)
       /\ \A i \in 1..Cardinality(stay) : \E p \in stay : Pick(Moves(D), stay)[i] = Moves(D)[p]
  <2>1. stay \subseteq DOMAIN Moves(D)
    BY <1>3, <1>9
  <2> DEFINE M == Moves(D)
  <2>2. Listed(M) /\ stay \subseteq DOMAIN M
    BY <1>9, <2>1
  <2> HIDE DEF stay, M
  <2>3. /\ IsFiniteSet(stay) /\ Cardinality(stay) \in Nat
        /\ Listed(Pick(M, stay)) /\ Len(Pick(M, stay)) = Cardinality(stay)
        /\ DOMAIN Pick(M, stay) = 1..Cardinality(stay)
        /\ \A i \in 1..Cardinality(stay) : \E p \in stay : Pick(M, stay)[i] = M[p]
    BY <2>2, PickAt
  <2> QED BY <2>3 DEF M
<1>11. W.mbi.recs \in Seq(Record)
  <2> DEFINE R == Pick(Moves(D), stay)
  <2>1. DOMAIN R = 1..Cardinality(stay) /\ \A i \in 1..Cardinality(stay) : R[i] \in Record
    BY <1>9, <1>10
  <2> HIDE DEF R
  <2>2. Range(R) \subseteq Record
    BY <2>1 DEF Range
  <2>3. R \in Seq(Range(R))
    BY <1>10 DEF Listed, R
  <2>4. R \in Seq(Record)
    BY <2>2, <2>3, SeqMonotonic
  <2> QED BY <1>1, <2>4 DEF R
<1>12. W.mbi \in MbxIndex
  <2> DEFINE R == W.mbi.recs
  <2>1. W.mbi = [fs.mbi EXCEPT !.recs = R]
    BY <1>1
  <2> HIDE DEF R
  <2> QED BY <1>4, <1>11, <2>1 DEF MbxIndex, R
<1>13. W \in Made3
  BY <1>1, <1>8, <1>12 DEF Made3
<1>14. Cardinality(stay) < n
  <2>1. IsFiniteSet(1..n) /\ Cardinality(1..n) = n
    BY <1>3, Counting
  <2>2. stay \in SUBSET (1..n) /\ stay # 1..n
    BY <1>3
  <2> HIDE DEF stay, n
  <2>3. Cardinality(stay) <= n /\ Cardinality(stay) # n
    BY ONLY <2>1, <2>2, FS_Subset
  <2> QED BY <1>3, <1>10, <2>3
<1>15. ASSUME NEW m \in Remaining(D)
       PROVE  m \in Range(W.mbx)
  <2>1. PICK k \in DOMAIN mIndexList : m = fs.mbx[mIndexList[k].start + 1]
    BY DEF Remaining, Describes
  <2>2. m = Shown(mIndexList[k])
    BY <1>2, <2>1
  <2>3. k \in stay
    BY <2>2 DEF Remaining
  <2>4. mIndexList[k].start + 1 \in P
    BY <1>5, <2>3
  <2>5. \A p \in P : /\ Rank(p, P) \in DOMAIN Pick(fs.mbx, P)
                     /\ Pick(fs.mbx, P)[Rank(p, P)] = fs.mbx[p]
    BY <1>2, <1>6, PickAt
  <2> QED BY <1>1, <2>1, <2>4, <2>5 DEF Range
<1> HIDE DEF W, stay
<1>16. Len(W.mbi.recs) < n
  BY <1>1, <1>10, <1>14
<1> QED BY <1>13, <1>15, <1>16 DEF W

(* A record that stays, the places it had and those it gets.               *)
Follows(D, k) ==
    /\ Rank(k, DOMAIN mIndexList \ D) \in 1..Len(Without(D).mbi.recs)
    /\ Without(D).mbi.recs[Rank(k, DOMAIN mIndexList \ D)] = Moves(D)[k]
    /\ Moves(D)[k].luid = mIndexList[k].luid
    /\ Moves(D)[k].deleted = mIndexList[k].deleted
    /\ Moves(D)[k].cache + 1 = Rank(k, DOMAIN mIndexList \ D)
    /\ Moves(D)[k].cache \in Nat /\ Moves(D)[k].start \in Nat
    /\ Moves(D)[k].start + 1 =
         Rank(mIndexList[k].start + 1, Stays("start", fs.mbx, D))
    /\ Moves(D)[k].start < Len(Without(D).mbx)
    /\ Without(D).mbx[Moves(D)[k].start + 1] = fs.mbx[mIndexList[k].start + 1]
    /\ Without(D).mbc[Moves(D)[k].cache + 1] = fs.mbx[mIndexList[k].start + 1]
    /\ Len(Without(D).mbc) = Len(Without(D).mbi.recs)
    /\ DOMAIN Without(D).mbi.recs = 1..Len(Without(D).mbi.recs)

(* If the first record is that of the first text, the records that are left*)
(* follow the messages to where they are then.                             *)
LEMMA WithoutFollows ==
    ASSUME FileTypes, StateTypes, Describes(mIndexList, fs.mbx, fs.mbc, kept),
           NEW D, D \subseteq DOMAIN mIndexList, D # {}, mIndexList[1].start = 0,
           NEW k \in DOMAIN mIndexList \ D
    PROVE  Follows(D, k)
<1> DEFINE stay == DOMAIN mIndexList \ D
           P == Stays("start", fs.mbx, D)
           M == Moves(D)
           r == mIndexList[k]
           s == LeftOut("start", k, D)
           c == LeftOut("cache", k, D)
<1>1. /\ Listed(mIndexList) /\ Listed(fs.mbx) /\ Listed(fs.mbc)
      /\ Ascending("start", fs.mbx) /\ Ascending("cache", fs.mbc)
      /\ r \in Record /\ k \in Nat /\ r.cache = k - 1
      /\ fs.mbc[k] = fs.mbx[r.start + 1]
  BY DescribedOffsets
<1>2. /\ Without(D).mbx = Pick(fs.mbx, P)
      /\ Without(D).mbc = Pick(fs.mbc, Stays("cache", fs.mbc, D))
      /\ Without(D).mbi.recs = Pick(M, stay)
  BY WithoutParts
<1>3. Stays("cache", fs.mbc, D) = stay
  BY StaysInCache
<1>4. Len(mIndexList) \in Nat /\ DOMAIN mIndexList = 1..Len(mIndexList)
  BY <1>1, ListedLen
<1>5. mIndexList[1].cache = 0
  <2>1. 1 \in DOMAIN mIndexList
    BY <1>4
  <2>2. \A i \in DOMAIN mIndexList : mIndexList[i].cache = i - 1
    BY DescribedOffsets
  <2> QED BY <2>1, <2>2
<1>6. /\ P \subseteq DOMAIN fs.mbx /\ r.start + 1 \in P
      /\ s \in Nat /\ s <= r.start
      /\ Rank(r.start + 1, P) = r.start + 1 - s
  BY <1>1, LeftOutInFront
<1>7. /\ stay \subseteq DOMAIN fs.mbc /\ r.cache + 1 \in stay
      /\ c \in Nat /\ c <= r.cache
      /\ Rank(r.cache + 1, stay) = r.cache + 1 - c
  <2> DEFINE Q == Stays("cache", fs.mbc, D)
  <2>1. /\ Q \subseteq DOMAIN fs.mbc /\ r.cache + 1 \in Q
        /\ c \in Nat /\ c <= r.cache
        /\ mIndexList[1].cache = 0 => Rank(r.cache + 1, Q) = r.cache + 1 - c
    BY <1>1, LeftOutInFront
  <2> HIDE DEF Q, r, c, stay
  <2> QED BY <1>3, <1>5, <2>1 DEF Q
<1>8. r.cache + 1 = k /\ r.cache \in Nat /\ r.start \in Nat
  BY <1>1 DEF Record
<1>9. M[k] = [r EXCEPT !.start = @ - s, !.cache = @ - c]
  BY DEF Moves
<1>10. /\ M[k].start = r.start - s /\ M[k].cache = r.cache - c
       /\ M[k].luid = r.luid /\ M[k].deleted = r.deleted
  BY <1>1, <1>9 DEF Record
<1>11. Listed(M) /\ stay \subseteq DOMAIN M
  <2>1. M = [i \in 1..Len(mIndexList) |-> M[i]]
    BY <1>4 DEF Moves
  <2> QED BY <1>4, <2>1, ListedFunction DEF Moves
<1>12. /\ Len(Pick(fs.mbx, P)) = Cardinality(P) /\ Cardinality(P) \in Nat
       /\ Rank(r.start + 1, P) \in 1..Cardinality(P)
       /\ Pick(fs.mbx, P)[Rank(r.start + 1, P)] = fs.mbx[r.start + 1]
  BY <1>1, <1>6, PickAt
<1>13. /\ Len(Pick(fs.mbc, stay)) = Cardinality(stay)
       /\ Rank(k, stay) \in 1..Cardinality(stay)
       /\ Pick(fs.mbc, stay)[Rank(k, stay)] = fs.mbc[k]
  BY <1>1, <1>7, <1>8, PickAt
<1> HIDE DEF M, stay
<1>14. /\ Len(Pick(M, stay)) = Cardinality(stay)
       /\ DOMAIN Pick(M, stay) = 1..Cardinality(stay)
       /\ Pick(M, stay)[Rank(k, stay)] = M[k]
  BY <1>7, <1>8, <1>11, PickAt
<1> HIDE DEF r, s, c, P
<1>15. /\ M[k].start \in Nat /\ M[k].cache \in Nat
       /\ M[k].start + 1 = Rank(r.start + 1, P)
       /\ M[k].cache + 1 = Rank(k, stay)
  <2>1. \A a, b \in Nat : b <= a => a - b \in Nat /\ a - b + 1 = a + 1 - b
    OBVIOUS
  <2> QED BY <1>6, <1>7, <1>8, <1>10, <2>1
<1>16. M[k].start < Cardinality(P)
  BY <1>12, <1>15
<1> QED
  BY <1>1, <1>2, <1>3, <1>10, <1>12, <1>13, <1>14, <1>15, <1>16
  DEF M, stay, r, P, Follows

LEMMA WithoutDescribes ==
    ASSUME FileTypes, StateTypes, Describes(mIndexList, fs.mbx, fs.mbc, kept),
           NEW D, D \subseteq DOMAIN mIndexList, D # {}, mIndexList[1].start = 0
    PROVE  /\ Describes(Without(D).mbi.recs, Without(D).mbx, Without(D).mbc, Remaining(D))
           /\ \A j \in DOMAIN Without(D).mbi.recs :
                \E k \in DOMAIN mIndexList \ D :
                  /\ j = Rank(k, DOMAIN mIndexList \ D)
                  /\ Without(D).mbi.recs[j].luid = mIndexList[k].luid
                  /\ Without(D).mbi.recs[j].deleted = mIndexList[k].deleted
                  /\ Without(D).mbx[Without(D).mbi.recs[j].start + 1] =
                       fs.mbx[mIndexList[k].start + 1]
<1> DEFINE stay == DOMAIN mIndexList \ D
           P == Stays("start", fs.mbx, D)
           M == Moves(D)
           R == Without(D).mbi.recs
           X == Without(D).mbx
           C == Without(D).mbc
           first(k) == mIndexList[k].start + 1
<1>1. /\ Listed(mIndexList) /\ Listed(fs.mbx)
      /\ Ascending("start", fs.mbx) /\ Ascending("cache", fs.mbc)
      /\ \A k \in DOMAIN mIndexList :
           /\ mIndexList[k] \in Record /\ k \in Nat
           /\ Shown(mIndexList[k]) = fs.mbx[first(k)]
  BY DescribedOffsets
<1>2. Len(mIndexList) \in Nat /\ DOMAIN mIndexList = 1..Len(mIndexList)
  BY <1>1, ListedLen
<1>3. /\ R = Pick(M, stay) /\ C = Pick(fs.mbc, Stays("cache", fs.mbc, D))
      /\ Stays("cache", fs.mbc, D) = stay
  <2>1. R = Pick(M, stay) /\ C = Pick(fs.mbc, Stays("cache", fs.mbc, D))
    BY WithoutParts
  <2>2. Stays("cache", fs.mbc, D) = stay
    BY StaysInCache
  <2> QED BY <2>1, <2>2
<1>4. Listed(M) /\ stay \subseteq DOMAIN M
  <2>1. M = [i \in 1..Len(mIndexList) |-> M[i]]
    BY <1>2 DEF Moves
  <2> QED BY <1>2, <2>1, ListedFunction DEF Moves
<1>5. \A k \in stay :
        /\ R[Rank(k, stay)] = M[k] /\ Rank(k, stay) \in DOMAIN R
        /\ M[k].luid = mIndexList[k].luid /\ M[k].deleted = mIndexList[k].deleted
        /\ M[k].cache + 1 = Rank(k, stay) /\ M[k].cache \in Nat /\ M[k].start \in Nat
        /\ M[k].start + 1 = Rank(first(k), P)
        /\ M[k].start < Len(X)
        /\ X[M[k].start + 1] = fs.mbx[first(k)] /\ C[M[k].cache + 1] = fs.mbx[first(k)]
  <2> SUFFICES ASSUME NEW k \in stay
               PROVE  /\ R[Rank(k, stay)] = M[k] /\ Rank(k, stay) \in DOMAIN R
                      /\ M[k].luid = mIndexList[k].luid
                      /\ M[k].deleted = mIndexList[k].deleted
                      /\ M[k].cache + 1 = Rank(k, stay)
                      /\ M[k].cache \in Nat /\ M[k].start \in Nat
                      /\ M[k].start + 1 = Rank(first(k), P)
                      /\ M[k].start < Len(X)
                      /\ X[M[k].start + 1] = fs.mbx[first(k)]
                      /\ C[M[k].cache + 1] = fs.mbx[first(k)]
    OBVIOUS
  <2>1. /\ Rank(k, stay) \in 1..Len(R) /\ DOMAIN R = 1..Len(R)
        /\ R[Rank(k, stay)] = M[k]
        /\ M[k].luid = mIndexList[k].luid
        /\ M[k].deleted = mIndexList[k].deleted
        /\ M[k].cache + 1 = Rank(k, stay)
        /\ M[k].cache \in Nat /\ M[k].start \in Nat
        /\ M[k].start + 1 = Rank(first(k), P)
        /\ M[k].start < Len(X)
        /\ X[M[k].start + 1] = fs.mbx[first(k)]
        /\ C[M[k].cache + 1] = fs.mbx[first(k)]
    <3>1. Follows(D, k)
      BY WithoutFollows
    <3> QED BY ONLY <3>1 DEF Follows
  <2> HIDE DEF P, M, R, X, C, first
  <2> QED BY <2>1
<1>7. Listed(fs.mbc) /\ stay \subseteq DOMAIN fs.mbc
  BY <1>3, DescribedOffsets DEF Stays, Copied
<1>6. /\ IsFiniteSet(stay) /\ stay \subseteq Nat
      /\ Len(C) = Cardinality(stay)
  <2> DEFINE Q == stay
             s == fs.mbc
  <2>1. Listed(s) /\ Q \subseteq DOMAIN s
    BY <1>7
  <2> HIDE DEF Q, s
  <2>2. /\ IsFiniteSet(Q) /\ Q \subseteq Nat
        /\ Len(Pick(s, Q)) = Cardinality(Q)
    BY <2>1, PickAt
  <2>3. C = Pick(s, Q)
    BY <1>3 DEF Q, s
  <2> HIDE DEF C
  <2> QED BY <2>2, <2>3 DEF Q
<1>8. IsFiniteSet(P) /\ P \subseteq Nat
  <2>1. P \subseteq DOMAIN fs.mbx
    BY DEF Stays, Copied
  <2> QED BY <1>1, <2>1, PickAt
<1>9. \A k \in stay : first(k) \in P
  BY <1>1, LeftOutInFront
<1>10. \A i, j \in stay : i < j => first(i) < first(j) /\ first(i) \in Nat /\ first(j) \in Nat
  <2>1. \A i, j \in DOMAIN mIndexList : i < j => mIndexList[i].start < mIndexList[j].start
    BY DEF Describes
  <2>2. \A i \in DOMAIN mIndexList : mIndexList[i].start \in Nat
    BY <1>1 DEF Record
  <2> QED BY <2>1, <2>2
<1> HIDE DEF M, stay
<1>11. /\ Len(Pick(M, stay)) = Cardinality(stay)
       /\ DOMAIN Pick(M, stay) = 1..Cardinality(stay) /\ Cardinality(stay) \in Nat
       /\ \A j \in 1..Cardinality(stay) :
             \E k \in stay : Rank(k, stay) = j /\ Pick(M, stay)[j] = M[k]
  <2> HIDE DEF R, X, C, P, first
  <2>1. /\ Len(Pick(M, stay)) = Cardinality(stay)
        /\ DOMAIN Pick(M, stay) = 1..Cardinality(stay) /\ Cardinality(stay) \in Nat
    BY <1>4, PickAt
  <2>2. \A j \in 1..Cardinality(stay) :
             \E k \in stay : Rank(k, stay) = j /\ Pick(M, stay)[j] = M[k]
    BY <1>4, PickFrom
  <2> QED BY <2>1, <2>2
<1>12. \A j \in DOMAIN R : \E k \in stay : Rank(k, stay) = j /\ R[j] = M[k]
  BY <1>3, <1>11
<1>13. Len(C) = Len(R)
  BY <1>3, <1>6, <1>11
<1>14. DOMAIN R \subseteq Nat
  BY <1>3, <1>11
<1> HIDE DEF R, X, C, first, P
<1>15. ASSUME NEW i \in DOMAIN R, NEW j \in DOMAIN R, i < j
       PROVE  R[i].start < R[j].start
  <2>1. PICK k \in stay : Rank(k, stay) = i /\ R[i] = M[k]
    BY <1>12
  <2>2. PICK l \in stay : Rank(l, stay) = j /\ R[j] = M[l]
    BY <1>12
  <2>3. \A x, y \in stay : x < y => Rank(x, stay) < Rank(y, stay)
    BY <1>6, RankType
  <2>4. k \in Nat /\ l \in Nat /\ i \in Nat /\ j \in Nat
    BY <1>6, <1>14
  <2>5. k < l
    BY <1>15, <2>1, <2>2, <2>3, <2>4
  <2>6. first(k) < first(l)
    BY <1>10, <2>5
  <2>7. \A x, y \in P : x < y => Rank(x, P) < Rank(y, P)
    BY <1>8, RankType
  <2>8. Rank(first(k), P) < Rank(first(l), P)
    BY <1>9, <2>6, <2>7
  <2>9. M[k].start + 1 < M[l].start + 1 /\ M[k].start \in Nat /\ M[l].start \in Nat
    BY <1>5, <2>8
  <2> QED BY <2>1, <2>2, <2>9
<1>16. ASSUME NEW j \in DOMAIN R
       PROVE  /\ R[j].cache = j - 1 /\ R[j].start < Len(X)
              /\ C[j] = X[R[j].start + 1]
  <2>1. PICK k \in stay : Rank(k, stay) = j /\ R[j] = M[k]
    BY <1>12
  <2>2. R[j].cache + 1 = j /\ R[j].cache \in Nat
    BY <1>5, <2>1
  <2>3. C[R[j].cache + 1] = X[R[j].start + 1] /\ R[j].start < Len(X)
    BY <1>5, <2>1
  <2> QED BY <2>2, <2>3
<1>17. ASSUME NEW m \in Remaining(D)
       PROVE  \E j \in DOMAIN R : m = X[R[j].start + 1]
  <2>1. PICK k \in DOMAIN mIndexList : m = fs.mbx[first(k)]
    BY DEF Remaining, Describes, first
  <2>2. m = Shown(mIndexList[k])
    BY <1>1, <2>1
  <2>3. k \in stay
    BY <2>2 DEF Remaining, stay
  <2> QED BY <1>5, <2>1, <2>3
<1>18. Describes(R, X, C, Remaining(D))
  BY <1>13, <1>15, <1>16, <1>17 DEF Describes
<1>19. ASSUME NEW j \in DOMAIN R
       PROVE  \E k \in stay : /\ j = Rank(k, stay)
                              /\ R[j].luid = mIndexList[k].luid
                              /\ R[j].deleted = mIndexList[k].deleted
                              /\ X[R[j].start + 1] = fs.mbx[first(k)]
  <2>1. PICK k \in stay : Rank(k, stay) = j /\ R[j] = M[k]
    BY <1>12
  <2> QED BY <1>5, <2>1
<1> QED BY <1>18, <1>19 DEF R, X, C, stay, first

-----------------------------------------------------------------------------
(* What the operations on files do to the invariant.                       *)
LEMMA Timed ==
    ASSUME StateTypes, NEW S, S \subseteq Files, S # {}, Modified(S)
    PROVE  /\ newer' \subseteq {"mbx", "mbc"} /\ hidden' \subseteq {"mbx", "mbc"}
           /\ newer' \cap hidden' = {}
           /\ "mbi" \in S => AsOld'
           /\ "mbi" \notin S => ~AsOld'
<1>1. CASE "mbi" \in S
  BY <1>1 DEF Modified, AsOld
<1>2. CASE "mbi" \notin S
  <2>1. S \subseteq {"mbx", "mbc"}
    BY <1>2 DEF Files
  <2>2. newer \subseteq {"mbx", "mbc"} /\ hidden \subseteq {"mbx", "mbc"}
        /\ newer \cap hidden = {}
    BY DEF StateTypes
  <2>3. CASE newer' = newer \cup S /\ hidden' = hidden \ S
    BY <1>2, <2>1, <2>2, <2>3 DEF AsOld
  <2>4. CASE newer = {} /\ newer' = {} /\ hidden' = hidden \cup S
    BY <1>2, <2>1, <2>2, <2>4 DEF AsOld
  <2> QED BY <1>2, <2>3, <2>4 DEF Modified
<1> QED BY <1>1, <1>2

LEMMA WrittenTo ==
    ASSUME Disk, StateTypes, NEW f \in Files, NEW content, Write(f, content)
    PROVE  /\ fs'.there = fs.there \cup {f} /\ fs'.old = fs.old /\ fs'.new = fs.new
           /\ fs'.mbx = IF f = "mbx" THEN content ELSE fs.mbx
           /\ fs'.mbc = IF f = "mbc" THEN content ELSE fs.mbc
           /\ fs'.mbi = IF f = "mbi" THEN content ELSE fs.mbi
           /\ newer' \subseteq {"mbx", "mbc"} /\ hidden' \subseteq {"mbx", "mbc"}
           /\ newer' \cap hidden' = {}
           /\ f = "mbi" => AsOld'
           /\ f # "mbi" => ~AsOld'
<1>1. f \in {"mbx", "mbc", "mbi"}
  BY DEF Files
<1>2. fs' = [fs EXCEPT ![f] = content, !.there = @ \cup {f}] /\ Modified({f})
  BY DEF Write
<1>3. fs = [there |-> fs.there, old |-> fs.old, new |-> fs.new,
            mbx |-> fs.mbx, mbc |-> fs.mbc, mbi |-> fs.mbi]
  BY DEF Disk
<1>4. /\ fs'.there = fs.there \cup {f} /\ fs'.old = fs.old /\ fs'.new = fs.new
      /\ fs'.mbx = IF f = "mbx" THEN content ELSE fs.mbx
      /\ fs'.mbc = IF f = "mbc" THEN content ELSE fs.mbc
      /\ fs'.mbi = IF f = "mbi" THEN content ELSE fs.mbi
  <2>1. CASE f = "mbx"
    BY <1>2, <1>3, <2>1
  <2>2. CASE f = "mbc"
    BY <1>2, <1>3, <2>2
  <2>3. CASE f = "mbi"
    BY <1>2, <1>3, <2>3
  <2> QED BY <1>1, <2>1, <2>2, <2>3
<1>5. {f} \subseteq Files /\ {f} # {} /\ ("mbi" \in {f} <=> f = "mbi")
  OBVIOUS
<1>6. /\ newer' \subseteq {"mbx", "mbc"} /\ hidden' \subseteq {"mbx", "mbc"}
      /\ newer' \cap hidden' = {}
      /\ f = "mbi" => AsOld'
      /\ f # "mbi" => ~AsOld'
  BY <1>2, <1>5, Timed
<1> QED BY <1>4, <1>6

LEMMA IndexTypes ==
    ASSUME NEW i \in MbxIndex
    PROVE  /\ i.valid \in BOOLEAN /\ i.size \in Nat /\ i.next \in Nat
           /\ i.recs \in Seq(Record) /\ Listed(i.recs) /\ Len(i.recs) \in Nat
           /\ \A r \in Seq(Record) : /\ [i EXCEPT !.recs = r] \in MbxIndex
                                     /\ [i EXCEPT !.recs = r].recs = r
                                     /\ [i EXCEPT !.recs = r].size = i.size
                                     /\ [i EXCEPT !.recs = r].valid = i.valid
                                     /\ [i EXCEPT !.recs = r].next = i.next
           /\ \A n \in Nat : /\ [i EXCEPT !.size = n] \in MbxIndex
                             /\ [i EXCEPT !.size = n].recs = i.recs
                             /\ [i EXCEPT !.size = n].size = n
                             /\ [i EXCEPT !.size = n].valid = i.valid
                             /\ [i EXCEPT !.size = n].next = i.next
           /\ \A n \in Nat : /\ [i EXCEPT !.next = n] \in MbxIndex
                             /\ [i EXCEPT !.next = n].recs = i.recs
                             /\ [i EXCEPT !.next = n].size = i.size
                             /\ [i EXCEPT !.next = n].valid = i.valid
                             /\ [i EXCEPT !.next = n].next = n
<1>1. /\ i.valid \in BOOLEAN /\ i.size \in Nat /\ i.next \in Nat /\ i.recs \in Seq(Record)
  BY DEF MbxIndex
<1>2. Listed(i.recs) /\ Len(i.recs) \in Nat
  BY <1>1, SeqIsListed
<1>3. ASSUME NEW r \in Seq(Record)
      PROVE  /\ [i EXCEPT !.recs = r] \in MbxIndex /\ [i EXCEPT !.recs = r].recs = r
             /\ [i EXCEPT !.recs = r].size = i.size
             /\ [i EXCEPT !.recs = r].valid = i.valid
             /\ [i EXCEPT !.recs = r].next = i.next
  BY DEF MbxIndex
<1>4. ASSUME NEW n \in Nat
      PROVE  /\ [i EXCEPT !.size = n] \in MbxIndex /\ [i EXCEPT !.size = n].recs = i.recs
             /\ [i EXCEPT !.size = n].size = n
             /\ [i EXCEPT !.size = n].valid = i.valid
             /\ [i EXCEPT !.size = n].next = i.next
  BY DEF MbxIndex
<1>5. ASSUME NEW n \in Nat
      PROVE  /\ [i EXCEPT !.next = n] \in MbxIndex /\ [i EXCEPT !.next = n].recs = i.recs
             /\ [i EXCEPT !.next = n].size = i.size
             /\ [i EXCEPT !.next = n].valid = i.valid
             /\ [i EXCEPT !.next = n].next = n
  BY DEF MbxIndex
<1> QED BY <1>1, <1>2, <1>3, <1>4, <1>5

LEMMA NoIndexType == NoIndex \in MbxIndex /\ ~NoIndex.valid
<1>1. << >> \in Seq(Record)
  BY EmptySeq
<1> QED BY <1>1 DEF NoIndex, MbxIndex

LEMMA HoldsMore ==
    ASSUME NEW s \in Seq(Text), NEW e \in Text, Holds(s), late \in Seq(Record)
    PROVE  Holds(Append(s, e))
<1>1. /\ Len(Append(s, e)) = Len(s) + 1 /\ Len(s) \in Nat /\ DOMAIN s = 1..Len(s)
      /\ Append(s, e) \in Seq(Text)
      /\ \A i \in 1..Len(s) : Append(s, e)[i] = s[i]
  BY AtEnd
<1>2. DOMAIN Append(s, e) = 1..(Len(s) + 1)
  BY <1>1, LenProperties
<1>3. Range(s) \subseteq Range(Append(s, e))
  BY <1>1, <1>2 DEF Range
<1>4. ASSUME late # << >>
      PROVE  /\ late[1].start < Len(Append(s, e))
             /\ Append(s, e)[late[1].start + 1] \in Msgs
  <2>1. late[1].start < Len(s) /\ s[late[1].start + 1] \in Msgs
    BY <1>4 DEF Holds
  <2>2. Len(late) \in Nat /\ Len(late) # 0
    BY <1>4, EmptySeq, LenProperties
  <2>3. 1 \in 1..Len(late)
    BY <2>2
  <2>4. late[1] \in Record
    BY <2>3, ElementOfSeq
  <2>5. late[1].start \in Nat
    BY <2>4 DEF Record
  <2> QED BY <1>1, <2>1, <2>5
<1> QED BY <1>3, <1>4 DEF Holds

LEMMA Quoted ==
    ASSUME FInv
    PROVE  /\ fs.mbx \in Seq(Text) /\ Listed(fs.mbx) /\ Len(fs.mbx) \in Nat
           /\ fs.mbc \in Seq(Entry) /\ fs.mbi \in MbxIndex /\ fs.mbi.recs \in Seq(Record)
           /\ late \in Seq(Record) /\ Len(late) \in Nat
           /\ mIndexList \in Seq(Record) /\ Len(mIndexList) \in Nat
           /\ fs.mbi.recs \o << >> = fs.mbi.recs
           /\ late # << >> => /\ Len(late) = 1 /\ late[1] \in Record
                              /\ late[1].start \in Nat /\ late[1].cache \in Nat
                              /\ DOMAIN late = {1}
                              /\ fs.mbi.recs \o late = Append(fs.mbi.recs, late[1])
                              /\ Len(fs.mbi.recs \o late) = Len(fs.mbi.recs) + 1
<1>1. /\ fs.mbx \in Seq(Text) /\ fs.mbc \in Seq(Entry) /\ fs.mbi \in MbxIndex
      /\ late \in Seq(Record) /\ Len(late) <= 1 /\ mIndexList \in Seq(Record)
  BY DEF FInv, FileTypes, StateTypes
<1>2. /\ Listed(fs.mbx) /\ Len(fs.mbx) \in Nat /\ Len(late) \in Nat
      /\ Len(mIndexList) \in Nat
  BY <1>1, SeqIsListed
<1>3. fs.mbi.recs \in Seq(Record)
  BY <1>1, IndexTypes
<1>4. fs.mbi.recs \o << >> = fs.mbi.recs
  BY <1>3, ConcatEmptySeq
<1>5. ASSUME late # << >>
      PROVE  /\ Len(late) = 1 /\ late[1] \in Record
             /\ late[1].start \in Nat /\ late[1].cache \in Nat
             /\ DOMAIN late = {1}
             /\ fs.mbi.recs \o late = Append(fs.mbi.recs, late[1])
             /\ Len(fs.mbi.recs \o late) = Len(fs.mbi.recs) + 1
  <2>1. Len(late) # 0
    BY <1>1, <1>5, EmptySeq
  <2>2. Len(late) = 1
    <3>1. \A n \in Nat : n <= 1 /\ n # 0 => n = 1
      OBVIOUS
    <3> QED BY <1>1, <1>2, <2>1, <3>1
  <2>3. /\ fs.mbi.recs \o late = Append(fs.mbi.recs, late[1]) /\ late[1] \in Record
        /\ DOMAIN late = {1}
    BY <1>1, <1>3, <2>2, OneMore
  <2>4. Len(fs.mbi.recs \o late) = Len(fs.mbi.recs) + 1
    BY <1>3, <2>3, AtEnd
  <2> QED BY <2>2, <2>3, <2>4 DEF Record
<1> QED BY <1>1, <1>2, <1>3, <1>4, <1>5

-----------------------------------------------------------------------------
(* Opening, closing and reconstructing.                                    *)
LEMMA FreshTypes ==
    ASSUME NEW n \in Nat
    PROVE  FreshIndex(n) \in MbxIndex
<1> DEFINE R == InOrder(n, [k \in 1..n |-> FALSE], [k \in 1..n |-> k])
<1>1. R = [k \in 1..n |-> [start |-> k - 1, cache |-> k - 1,
                           deleted |-> FALSE, luid |-> k]]
  BY DEF InOrder
<1>2. \A k \in 1..n : k - 1 \in Nat /\ k \in Nat
  OBVIOUS
<1> HIDE DEF R
<1>3. R \in [1..n -> Record]
  <2>1. \A k \in 1..n : [start |-> k - 1, cache |-> k - 1,
                         deleted |-> FALSE, luid |-> k] \in Record
    BY <1>2 DEF Record
  <2> QED BY <1>1, <2>1
<1>4. R \in Seq(Record)
  BY <1>3, SeqDef
<1>5. FreshIndex(n) = [valid |-> TRUE, size |-> n, next |-> n + 1, recs |-> R]
  BY DEF FreshIndex, Index, R
<1> QED BY <1>4, <1>5 DEF MbxIndex

LEMMA ReconstructedTypes ==
    ASSUME IInv, FileTypes
    PROVE  Reconstructed \in MbxIndex
<1> DEFINE n == Len(fs.mbx)
           recs == Records(fs.mbi)
           at(j) == CHOOSE k \in Match(recs, j) : TRUE
           R == InOrder(n, [j \in 1..n |-> recs[at(j)].deleted],
                           [j \in 1..n |-> recs[at(j)].luid])
<1>1. fs.mbx \in Seq(Text) /\ fs.mbi \in MbxIndex
  BY DEF FileTypes
<1>2. n \in Nat /\ DOMAIN fs.mbx = 1..n
  BY <1>1, LenProperties
<1>3. FreshIndex(n) \in MbxIndex
  BY <1>2, FreshTypes
<1>4. Reconstructed = IF ReconstructRecover THEN Index(n, fs.mbi.next, R)
                      ELSE FreshIndex(n)
  BY DEF Reconstructed
<1>5. ASSUME ReconstructRecover
      PROVE  Index(n, fs.mbi.next, R) \in MbxIndex
  <2>1. Whole(fs.mbi) /\ \A j \in 1..n : Match(recs, j) # {}
    BY <1>2, <1>5 DEF ReconstructRecover
  <2>2. Len(fs.mbi.recs) <= fs.mbi.size /\ Listed(fs.mbi.recs) /\ IsIndex(fs.mbi)
    BY DEF IInv, Disk, IsIndex
  <2>3. fs.mbi.recs \in Seq(Record) /\ Len(fs.mbi.recs) \in Nat /\ fs.mbi.size \in Nat
    BY <1>1, IndexTypes
  <2>4. fs.mbi.size = Len(fs.mbi.recs)
    BY <2>1, <2>2, <2>3 DEF Whole
  <2>5. recs \in Seq(Record)
    BY <2>2, <2>3, <2>4, RecordsOf
  <2> HIDE DEF recs
  <2>6. \A j \in 1..n : at(j) \in Match(recs, j)
    BY <2>1
  <2> HIDE DEF at
  <2>7. \A j \in 1..n : at(j) \in DOMAIN recs
    BY <2>6 DEF Match
  <2>8. \A j \in 1..n : recs[at(j)] \in Record
    BY <2>5, <2>7, LenProperties, ElementOfSeq
  <2>9. \A j \in 1..n : recs[at(j)].deleted \in BOOLEAN /\ recs[at(j)].luid \in Nat
    BY <2>8 DEF Record
  <2>10. R = [k \in 1..n |-> [start |-> k - 1, cache |-> k - 1,
                              deleted |-> recs[at(k)].deleted, luid |-> recs[at(k)].luid]]
    BY DEF InOrder
  <2>11. \A k \in 1..n : k - 1 \in Nat
    BY <1>2
  <2> HIDE DEF R, n
  <2>12. R \in [1..n -> Record]
    <3>1. \A k \in 1..n : [start |-> k - 1, cache |-> k - 1,
                           deleted |-> recs[at(k)].deleted,
                           luid |-> recs[at(k)].luid] \in Record
      BY <2>9, <2>11 DEF Record
    <3> QED BY <2>10, <3>1
  <2>13. R \in Seq(Record)
    BY <1>2, <2>12, SeqDef
  <2>14. fs.mbi.next \in Nat
    BY <1>1, IndexTypes
  <2> QED BY <1>2, <2>13, <2>14 DEF Index, MbxIndex
<1> QED BY <1>3, <1>4, <1>5

LEMMA ReconstructedDescribes ==
    ASSUME FInv, kept \subseteq Range(fs.mbx)
    PROVE  Describes(Reconstructed.recs, fs.mbx, fs.mbx, kept)
<1> DEFINE n == Len(fs.mbx)
           recs == Records(fs.mbi)
           was(j) == recs[CHOOSE k \in Match(recs, j) : TRUE]
           R == InOrder(n, [j \in 1..n |-> was(j).deleted], [j \in 1..n |-> was(j).luid])
           F == InOrder(n, [k \in 1..n |-> FALSE], [k \in 1..n |-> k])
<1>1. Reconstructed.recs = IF ReconstructRecover THEN R ELSE F
  BY DEF Reconstructed, Index, FreshIndex
<1>2. fs.mbx \in Seq(Text)
  BY DEF FInv, FileTypes
<1>3. \A flag, uid : Describes(InOrder(n, flag, uid), fs.mbx, fs.mbx, kept)
  BY <1>2, DescribesInOrder
<1>4. Describes(R, fs.mbx, fs.mbx, kept)
  BY ONLY <1>3
<1>5. Describes(F, fs.mbx, fs.mbx, kept)
  BY ONLY <1>3
<1> HIDE DEF R, F
<1> QED BY <1>1, <1>4, <1>5

LEMMA TouchMboxFiles ==
    ASSUME IInv, FInv, NEW what \in {"select", "append"}, TouchMbox(what)
    PROVE  FInv'
<1>1. /\ pc = "closed" /\ pc' = "created" /\ goal' = what /\ "mbx" \notin fs.there
      /\ fs'.there = Files /\ fs'.old = << >> /\ fs'.new = fs.new
      /\ fs'.mbx = fs.mbx /\ fs'.mbc = fs.mbc /\ fs'.mbi = fs.mbi
      /\ Modified(Files \ fs.there)
      /\ kept' = {} /\ late' = late /\ mIndexList' = mIndexList
      /\ trusted' = trusted /\ astray' = astray /\ faults' = faults
  BY DEF TouchMbox, IInv, Disk, memVars
<1>2. late = << >>
  BY <1>1 DEF IInv, Control
<1>3. "mbx" \in Files /\ "mbi" \in Files
  BY DEF Files
<1>4. /\ newer' \subseteq {"mbx", "mbc"} /\ hidden' \subseteq {"mbx", "mbc"}
      /\ newer' \cap hidden' = {}
      /\ "mbi" \in fs.there => ~AsOld'
  <2>1. Files \ fs.there \subseteq Files /\ "mbx" \in Files \ fs.there
    BY <1>1, <1>3
  <2>2. StateTypes
    BY DEF FInv
  <2>3. Modified(Files \ fs.there)
    BY <1>1
  <2>4. /\ newer' \subseteq {"mbx", "mbc"} /\ hidden' \subseteq {"mbx", "mbc"}
        /\ newer' \cap hidden' = {}
        /\ "mbi" \notin Files \ fs.there => ~AsOld'
    BY ONLY <2>1, <2>2, <2>3, Timed
  <2> QED BY <2>4
<1>5. "mbi" \notin fs.there => ~fs.mbi.valid
  BY NoIndexType DEF FInv, Moved
<1>6. FileTypes'
  BY <1>1, EmptySeq DEF FInv, FileTypes, Rebuilding
<1>7. StateTypes'
  BY <1>1, <1>4 DEF FInv, StateTypes
<1>8. Stored'
  <2>1. Holds(Texts)'
    BY <1>1, <1>2 DEF Holds
  <2> QED BY <1>1, <1>2, <1>3, <2>1 DEF Stored, Unflushed, Flushed
<1>9. Moved'
  BY <1>1, <1>3 DEF Moved
<1>10. Older'
  BY <1>1, <1>4, <1>5 DEF Older, Unflushed, Flushed
<1>11. Viewed'
  BY <1>1, <1>4, <1>5 DEF Viewed, Rebuilding, Unflushed, Flushed, Readable
<1> QED BY <1>6, <1>7, <1>8, <1>9, <1>10, <1>11 DEF FInv

LEMMA ReconstructFiles ==
    ASSUME IInv, FInv, NEW what \in {"none", "select", "append"}, Reconstruct(what),
           pc \in {"closed", "created"}, "mbx" \in fs.there
    PROVE  FInv'
<1>1. /\ pc' = "recache" /\ goal' = what
      /\ fs'.there = fs.there \cup {"mbc"} /\ fs'.old = fs.old
      /\ fs'.new = [mbi |-> Reconstructed, recovered |-> ReconstructRecover]
      /\ fs'.mbx = fs.mbx /\ fs'.mbc = << >> /\ fs'.mbi = fs.mbi
      /\ Modified({"mbc"})
      /\ kept' = kept /\ late' = late /\ mIndexList' = mIndexList
      /\ trusted' = trusted /\ astray' = astray /\ faults' = faults
  BY DEF Reconstruct, IInv, Disk, memVars, auxVars
<1>2. late = << >>
  BY DEF IInv, Control
<1>3. /\ newer' \subseteq {"mbx", "mbc"} /\ hidden' \subseteq {"mbx", "mbc"}
      /\ newer' \cap hidden' = {} /\ ~AsOld'
  <2>1. {"mbc"} \subseteq Files /\ {"mbc"} # {} /\ "mbi" \notin {"mbc"}
    BY DEF Files
  <2> QED BY <1>1, <2>1, Timed DEF FInv
<1>4. Texts = fs.mbx /\ Texts' = fs.mbx /\ kept \subseteq Range(fs.mbx)
  BY <1>1 DEF Texts, FInv, Stored, Holds
<1>5. Reconstructed \in MbxIndex
  BY ReconstructedTypes DEF FInv
<1>6. Describes(Reconstructed.recs, fs.mbx, fs.mbx, kept)
  BY <1>4, ReconstructedDescribes
<1>7. FileTypes'
  <2>1. ReconstructRecover \in BOOLEAN
    BY DEF ReconstructRecover
  <2>2. fs'.new \in Made2
    BY <1>1, <1>5, <2>1 DEF Made2
  <2>3. "mbc" \in Files
    BY DEF Files
  <2> QED BY <1>1, <2>2, <2>3, EmptySeq DEF FInv, FileTypes, Rebuilding
<1>8. StateTypes'
  BY <1>1, <1>3 DEF FInv, StateTypes
<1>9. Stored'
  <2>1. Holds(Texts)'
    BY <1>1, <1>2, <1>4 DEF Holds
  <2> QED BY <1>1, <1>2, <2>1 DEF Stored, Unflushed, Flushed, Rebuilding
<1>10. Moved'
  BY <1>1 DEF FInv, Moved
<1>11. Older'
  BY <1>1, <1>3 DEF Older, Unflushed, Flushed
<1>12. Viewed'
  BY <1>1, <1>3, <1>6 DEF Viewed, Rebuilding, Unflushed, Flushed
<1> QED BY <1>7, <1>8, <1>9, <1>10, <1>11, <1>12 DEF FInv

LEMMA RewriteCacheFiles == ASSUME IInv, FInv, RewriteCache PROVE FInv'
<1>1. /\ pc = "recache" /\ pc' = "reindex" /\ Write("mbc", fs.mbx)
      /\ goal' = goal /\ mIndexList' = mIndexList /\ late' = late /\ kept' = kept
      /\ trusted' = trusted /\ astray' = astray /\ faults' = faults
  BY DEF RewriteCache, memVars, auxVars
<1>2. /\ fs'.there = fs.there \cup {"mbc"} /\ fs'.old = fs.old /\ fs'.new = fs.new
      /\ fs'.mbx = fs.mbx /\ fs'.mbc = fs.mbx /\ fs'.mbi = fs.mbi
      /\ newer' \subseteq {"mbx", "mbc"} /\ hidden' \subseteq {"mbx", "mbc"}
      /\ newer' \cap hidden' = {} /\ ~AsOld' /\ "mbc" \in Files
  BY <1>1, WrittenTo DEF Files, IInv, FInv
<1>3. late = << >> /\ "mbx" \in fs.there
  BY <1>1 DEF IInv, Control, Rebuilding, FInv, Stored
<1>4. FileTypes'
  <2>1. fs.mbx \in Seq(Entry)
    <3>1. fs.mbx \in Seq(Text) /\ Text \subseteq Entry
      BY DEF FInv, FileTypes, Entry
    <3>2. Listed(fs.mbx) /\ Range(fs.mbx) \subseteq Entry
      BY <3>1, SeqIsListed, LenProperties, ElementOfSeq DEF Range
    <3> QED BY <3>2, SeqMonotonic DEF Listed
  <2> QED BY <1>1, <1>2, <2>1 DEF FInv, FileTypes, Rebuilding
<1>5. StateTypes'
  BY <1>1, <1>2 DEF FInv, StateTypes
<1>6. Stored'
  <2>1. Holds(Texts)'
    BY <1>1, <1>2, <1>3 DEF FInv, Stored, Holds, Texts
  <2> QED BY <1>1, <1>2, <1>3, <2>1 DEF Stored, Unflushed, Flushed, Rebuilding
<1>7. Moved'
  BY <1>1, <1>2 DEF FInv, Moved
<1>8. Older'
  BY <1>1, <1>2 DEF Older, Unflushed, Flushed
<1>9. Viewed'
  BY <1>1, <1>2 DEF FInv, Viewed, Rebuilding, Unflushed, Flushed
<1> QED BY <1>4, <1>5, <1>6, <1>7, <1>8, <1>9 DEF FInv

LEMMA TruncateIndexFiles == ASSUME IInv, FInv, TruncateIndex PROVE FInv'
<1>1. /\ pc = "reindex" /\ pc' = "reheader" /\ Write("mbi", NoIndex)
      /\ goal' = goal /\ mIndexList' = mIndexList /\ late' = late /\ kept' = kept
      /\ trusted' = trusted /\ astray' = astray /\ faults' = faults
  BY DEF TruncateIndex, memVars
<1>2. /\ fs'.there = fs.there \cup {"mbi"} /\ fs'.old = fs.old /\ fs'.new = fs.new
      /\ fs'.mbx = fs.mbx /\ fs'.mbc = fs.mbc /\ fs'.mbi = NoIndex
      /\ newer' \subseteq {"mbx", "mbc"} /\ hidden' \subseteq {"mbx", "mbc"}
      /\ newer' \cap hidden' = {} /\ "mbi" \in Files
  BY <1>1, WrittenTo DEF Files, IInv, FInv
<1>3. late = << >> /\ "mbx" \in fs.there
  BY <1>1 DEF IInv, Control, Rebuilding, FInv, Stored
<1>4. NoIndex \in MbxIndex /\ ~NoIndex.valid
  BY NoIndexType
<1>5. FileTypes'
  BY <1>1, <1>2, <1>4 DEF FInv, FileTypes, Rebuilding
<1>6. StateTypes'
  BY <1>1, <1>2 DEF FInv, StateTypes
<1>7. Stored'
  <2>1. Holds(Texts)'
    BY <1>1, <1>2, <1>3 DEF FInv, Stored, Holds, Texts
  <2> QED BY <1>1, <1>2, <1>3, <2>1 DEF Stored, Unflushed, Flushed, Rebuilding
<1>8. Moved'
  BY <1>1, <1>2 DEF FInv, Moved
<1>9. Older'
  BY <1>1, <1>2, <1>4 DEF Older, Unflushed, Flushed
<1>10. Viewed'
  BY <1>1, <1>2, <1>4 DEF FInv, Viewed, Rebuilding, Unflushed, Flushed, Readable
<1> QED BY <1>5, <1>6, <1>7, <1>8, <1>9, <1>10 DEF FInv

LEMMA RewriteHeaderFiles == ASSUME IInv, FInv, RewriteHeader PROVE FInv'
<1> DEFINE i == [fs.new.mbi EXCEPT !.recs = << >>]
<1>1. /\ pc = "reheader" /\ pc' = "rerecord" /\ Write("mbi", i)
      /\ goal' = goal /\ mIndexList' = mIndexList /\ late' = late /\ kept' = kept
      /\ trusted' = trusted /\ astray' = astray /\ faults' = faults
  BY DEF RewriteHeader, memVars, auxVars
<1>2. fs.new \in Made2 /\ fs.mbx \in Seq(Text)
  BY <1>1 DEF FInv, FileTypes, Rebuilding
<1>3. fs.new.mbi \in MbxIndex
  BY <1>2 DEF Made2
<1>4. << >> \in Seq(Record) /\ Len(<< >>) = 0
  BY EmptySeq
<1>5. i \in MbxIndex /\ i.recs = << >> /\ i.size = fs.new.mbi.size
  <2>1. \A r \in Seq(Record) : /\ [fs.new.mbi EXCEPT !.recs = r] \in MbxIndex
                               /\ [fs.new.mbi EXCEPT !.recs = r].recs = r
                               /\ [fs.new.mbi EXCEPT !.recs = r].size = fs.new.mbi.size
    BY <1>3, IndexTypes
  <2> QED BY <1>4, <2>1
<1> HIDE DEF i
<1>6. /\ fs'.there = fs.there \cup {"mbi"} /\ fs'.old = fs.old /\ fs'.new = fs.new
      /\ fs'.mbx = fs.mbx /\ fs'.mbc = fs.mbc /\ fs'.mbi = i
      /\ newer' \subseteq {"mbx", "mbc"} /\ hidden' \subseteq {"mbx", "mbc"}
      /\ newer' \cap hidden' = {} /\ "mbi" \in Files
  BY <1>1, WrittenTo DEF Files, IInv, FInv
<1>7. late = << >> /\ "mbx" \in fs.there
  BY <1>1 DEF IInv, Control, Rebuilding, FInv, Stored
<1>8. Describes(fs.new.mbi.recs, fs.mbx, fs.mbx, kept) /\ fs.mbc = fs.mbx
  BY <1>1 DEF FInv, Viewed, Rebuilding
<1>9. fs.new.mbi.size = Len(fs.mbx)
  BY <1>1, <1>8 DEF IInv, Anew, Rebuilding, Describes
<1>10. FileTypes'
  BY <1>1, <1>2, <1>5, <1>6 DEF FInv, FileTypes, Rebuilding
<1>11. StateTypes'
  BY <1>1, <1>6 DEF FInv, StateTypes
<1>12. Stored'
  <2>1. Holds(Texts)'
    BY <1>1, <1>6, <1>7 DEF FInv, Stored, Holds, Texts
  <2> QED BY <1>1, <1>6, <1>7, <2>1 DEF Stored, Unflushed, Flushed, Rebuilding
<1>13. Moved'
  BY <1>1, <1>6 DEF FInv, Moved
<1>14. Older'
  BY <1>1, <1>5, <1>6, <1>9 DEF Older, Unflushed, Flushed
<1>15. Viewed'
  <2>1. ASSUME Whole(i) PROVE Describes(i.recs, fs.mbx, fs.mbc, kept)
    <3>1. Len(fs.mbx) = 0
      <4>1. Len(fs.mbx) <= 0 /\ Len(fs.mbx) \in Nat
        BY <1>2, <1>4, <1>5, <1>9, <2>1, LenProperties DEF Whole
      <4> QED BY <4>1
    <3>2. DOMAIN << >> = {} /\ kept = {}
      <4>1. kept \subseteq {fs.mbx[fs.new.mbi.recs[k].start + 1] :
                              k \in DOMAIN fs.new.mbi.recs}
        BY <1>8 DEF Describes
      <4>2. fs.new.mbi.recs \in Seq(Record) /\ Len(fs.new.mbi.recs) = 0
        BY <1>3, <1>8, <3>1, IndexTypes DEF Describes
      <4>3. DOMAIN fs.new.mbi.recs = {}
        BY <4>2, EmptySeq
      <4> QED BY <4>1, <4>3
    <3> QED BY <1>4, <1>5, <1>8, <3>1, <3>2 DEF Describes
  <2>2. Whole(fs'.mbi) => Whole(i)
    BY <1>6
  <2> QED BY <1>1, <1>6, <1>8, <2>1, <2>2
          DEF Viewed, Rebuilding, Unflushed, Flushed
<1> QED BY <1>10, <1>11, <1>12, <1>13, <1>14, <1>15 DEF FInv

(* To go on with an index that describes the files, or is trusted.         *)
LEMMA ProceedFiles ==
    ASSUME IInv, FInv, IInv', NEW what \in {"none", "select", "append"},
           pc \in Rebuilding \cup {"closed"}, "mbx" \in fs.there, Proceed(what, fs'.mbi),
           FileTypes', Readable', IsIndex(fs'.mbi),
           fs'.there = fs.there \cup {"mbi"}, fs'.mbx = fs.mbx, fs'.new = << >>,
           fs'.mbc = fs.mbc, fs'.old = fs.old,
           late' = late, kept' = kept, faults' = faults,
           trusted' \in BOOLEAN, astray' \in BOOLEAN,
           newer' \subseteq {"mbx", "mbc"}, hidden' \subseteq {"mbx", "mbc"},
           newer' \cap hidden' = {},
           ~trusted' /\ Whole(fs'.mbi) => Describes(fs'.mbi.recs, fs.mbx, fs.mbc, kept)
    PROVE  FInv'
<1> DEFINE i == fs'.mbi
<1>1. late = << >> /\ pc' \in {"idle", "write", "closed"}
  BY DEF Proceed, IInv, Control
<1>2. i \in MbxIndex /\ i.recs \in Seq(Record) /\ i.recs \o << >> = i.recs
  <2>1. i \in MbxIndex
    BY DEF FileTypes
  <2> QED BY <2>1, IndexTypes, ConcatEmptySeq
<1>3. Whole(i) <=> i.size = Len(i.recs)
  <2>1. i.size \in Nat /\ Len(i.recs) \in Nat /\ Len(i.recs) <= i.size
    BY <1>2, IndexTypes DEF IsIndex
  <2> QED BY <2>1 DEF Whole
<1>4. /\ pc' = "idle" => Whole(i) /\ mIndexList' = i.recs
      /\ pc' # "idle" => mIndexList' = mIndexList
  <2>1. Whole(i) => Records(i) = i.recs
    BY <1>3, RecordsOf
  <2> QED BY <2>1 DEF Proceed, memVars
<1>5. StateTypes'
  BY <1>1, <1>2, <1>4 DEF FInv, StateTypes, Proceed
<1>6. Stored'
  <2>1. /\ kept' \subseteq Range(fs'.mbx) /\ late' = << >> /\ "mbx" \in fs'.there
    BY <1>1 DEF FInv, Stored, Holds, Texts
  <2>2. Texts' = fs'.mbx
    BY <2>1 DEF Texts
  <2>3. pc' \in Unflushed \cup Flushed => Indexed' = fs'.mbx
    BY <1>1 DEF Indexed
  <2>4. Holds(Texts)'
    BY <2>1, <2>2 DEF Holds
  <2>5. pc' \in Unflushed \cup Flushed => Holds(Indexed)'
    BY <2>1, <2>3 DEF Holds
  <2> QED BY <1>1, <2>1, <2>4, <2>5 DEF Stored
<1>7. Moved'
  BY <1>1 DEF FInv, Moved, Readable
<1>8. Older'
  BY <1>1 DEF Older, Flushed
<1>9. Viewed'
  <2>1. pc' \in Unflushed \cup Flushed /\ Counted' => Whole(i)
    <3> SUFFICES ASSUME pc' = "write", Counted' PROVE Whole(i)
      BY <1>1 DEF Unflushed, Flushed
    <3>1. WithLate' = i.recs
      BY <1>1, <1>2 DEF WithLate
    <3> QED BY <1>2, <1>3, <3>1, IndexTypes DEF Counted
  <2>2. ASSUME pc' \in Unflushed \cup Flushed
        PROVE  WithLate' = i.recs /\ Indexed' = fs.mbx /\ Cached' = fs.mbc
    <3>1. pc' = "write" /\ late' = << >>
      BY <1>1, <2>2 DEF Unflushed, Flushed
    <3> QED BY <1>2, <3>1 DEF WithLate, Indexed, Cached
  <2>3. pc' \notin Rebuilding \cup {"expunge"}
    BY <1>1 DEF Rebuilding
  <2> QED BY <1>1, <1>4, <2>1, <2>2, <2>3 DEF Viewed
<1> QED BY <1>5, <1>6, <1>7, <1>8, <1>9 DEF FInv

LEMMA RewriteRecordsFiles == ASSUME IInv, FInv, RewriteRecords PROVE FInv'
<1> DEFINE i == fs.new.mbi
<1>1. /\ pc = "rerecord" /\ Proceed(goal, i) /\ Modified({"mbi"})
      /\ trusted' = FALSE /\ astray' = (astray /\ fs.new.recovered)
      /\ late' = late /\ kept' = kept /\ faults' = faults
      /\ fs'.there = fs.there /\ fs'.old = fs.old /\ fs'.new = << >>
      /\ fs'.mbx = fs.mbx /\ fs'.mbc = fs.mbc /\ fs'.mbi = i
  BY DEF RewriteRecords, IInv, Disk
<1>2. /\ newer' \subseteq {"mbx", "mbc"} /\ hidden' \subseteq {"mbx", "mbc"}
      /\ newer' \cap hidden' = {}
  <2>1. {"mbi"} \subseteq Files /\ {"mbi"} # {}
    BY DEF Files
  <2> QED BY <1>1, <2>1, Timed DEF FInv
<1>3. fs.new \in Made2 /\ i \in MbxIndex
  BY <1>1 DEF FInv, FileTypes, Rebuilding, Made2
<1>4. /\ Describes(i.recs, fs.mbx, fs.mbc, kept) /\ "mbx" \in fs.there
      /\ IsIndex(i) /\ i.valid /\ {"mbc", "mbi"} \subseteq fs.there
  BY <1>1 DEF FInv, Viewed, Stored, Rebuilding, IInv, Anew
<1>5. goal \in {"none", "select", "append"} /\ fs.there \subseteq Files
  BY DEF FInv, StateTypes, FileTypes
<1>6. FileTypes'
  <2>1. pc' \in {"idle", "write", "closed"}
    BY <1>1 DEF Proceed
  <2> QED BY <1>1, <1>3, <2>1 DEF FInv, FileTypes, Rebuilding
<1>7. IInv' /\ Readable' /\ fs'.there = fs.there \cup {"mbi"}
  BY <1>1, <1>4, RewriteRecordsKeeps DEF Readable
<1>8. trusted' \in BOOLEAN /\ astray' \in BOOLEAN
  BY <1>1, <1>3 DEF Made2, FInv, StateTypes
<1>9. pc \in Rebuilding \cup {"closed"} /\ Proceed(goal, fs'.mbi) /\ IsIndex(fs'.mbi)
  BY <1>1, <1>4 DEF Rebuilding
<1>10. Describes(fs'.mbi.recs, fs.mbx, fs.mbc, kept)
  BY <1>1, <1>4
<1> HIDE DEF i
<1> QED BY <1>1, <1>2, <1>4, <1>5, <1>6, <1>7, <1>8, <1>9, <1>10, ProceedFiles

LEMMA ValidateCacheFiles ==
    ASSUME IInv, FInv, NEW what \in {"select", "append"}, ValidateCache(what)
    PROVE  FInv'
<1>1. pc = "closed" /\ "mbx" \in fs.there
  BY DEF ValidateCache
<1>2. CASE Reconstruct(what)
  BY <1>1, <1>2, ReconstructFiles
<1>3. ASSUME ~Reconstruct(what)
      PROVE  FInv'
  <2>1. /\ Readable /\ Proceed(what, fs.mbi) /\ fs' = fs
        /\ IF OutOfDate /\ what = "select" THEN Modified({"mbi"}) ELSE UNCHANGED timeVars
        /\ trusted' = (trusted \/ newer \cup hidden # {})
        /\ astray' = (astray \/ newer \cup hidden # {})
        /\ late' = late /\ kept' = kept /\ faults' = faults
    BY <1>3 DEF ValidateCache
  <2>2. /\ newer' \subseteq {"mbx", "mbc"} /\ hidden' \subseteq {"mbx", "mbc"}
        /\ newer' \cap hidden' = {}
    <3>1. {"mbi"} \subseteq Files /\ {"mbi"} # {}
      BY DEF Files
    <3>2. CASE Modified({"mbi"})
      BY <3>1, <3>2, Timed DEF FInv
    <3>3. CASE UNCHANGED timeVars
      BY <3>3 DEF FInv, StateTypes, timeVars
    <3> QED BY <2>1, <3>2, <3>3
  <2>3. trusted' \in BOOLEAN /\ astray' \in BOOLEAN /\ fs.new = << >>
    BY <1>1, <2>1 DEF FInv, StateTypes, FileTypes, Rebuilding
  <2>4. ~trusted' /\ Whole(fs.mbi) => Describes(fs.mbi.recs, fs.mbx, fs.mbc, kept)
    BY <1>1, <2>1 DEF AsOld, FInv, Viewed
  <2>5. FileTypes'
    <3>1. pc' \in {"idle", "write", "closed"}
      BY <2>1 DEF Proceed
    <3> QED BY <1>1, <2>1, <2>3, <3>1 DEF FInv, FileTypes, Rebuilding
  <2>6. IInv' /\ Readable' /\ IsIndex(fs.mbi)
    BY <2>1, ValidateCacheKeeps DEF Readable, IInv, Disk
  <2>7. fs'.there = fs.there \cup {"mbi"} /\ Proceed(what, fs'.mbi)
    BY <2>1 DEF Readable
  <2>8. pc \in Rebuilding \cup {"closed"} /\ what \in {"none", "select", "append"}
    BY <1>1
  <2> QED BY <1>1, <2>1, <2>2, <2>3, <2>4, <2>5, <2>6, <2>7, <2>8, ProceedFiles
<1> QED BY <1>2, <1>3

LEMMA RebuildMboxFiles == ASSUME IInv, FInv, RebuildMbox PROVE FInv'
<1>1. pc = "closed"
  BY DEF RebuildMbox
<1>2. CASE "mbx" \in fs.there
  BY <1>1, <1>2, ReconstructFiles DEF RebuildMbox
<1>3. CASE "mbx" \notin fs.there
  <2>1. /\ fs'.there = {} /\ fs'.old = fs.old /\ fs'.new = fs.new
        /\ fs'.mbx = fs.mbx /\ fs'.mbc = << >> /\ fs'.mbi = NoIndex
        /\ newer' = newer /\ hidden' = hidden /\ pc' = "closed" /\ goal' = goal
        /\ mIndexList' = mIndexList /\ late' = late /\ kept' = kept
        /\ trusted' = trusted /\ astray' = astray /\ faults' = faults
    BY <1>1, <1>3 DEF RebuildMbox, IInv, Disk, memVars, auxVars, timeVars
  <2>2. late = << >>
    BY <1>1 DEF IInv, Control
  <2>3. FileTypes'
    BY <1>1, <2>1, EmptySeq, NoIndexType DEF FInv, FileTypes, Rebuilding
  <2>4. StateTypes'
    BY <2>1 DEF FInv, StateTypes
  <2>5. Stored'
    <3>1. Holds(Texts)'
      BY <1>3, <2>1, <2>2 DEF FInv, Stored, Holds, Texts
    <3> QED BY <1>1, <2>1, <2>2, <3>1 DEF Stored, Unflushed, Flushed, Rebuilding
  <2>6. Moved'
    BY <1>3, <2>1 DEF FInv, Moved
  <2>7. Older'
    BY <2>1 DEF Older, Unflushed, Flushed
  <2>8. Viewed'
    BY <2>1 DEF Viewed, Rebuilding, Unflushed, Flushed, Readable
  <2> QED BY <2>3, <2>4, <2>5, <2>6, <2>7, <2>8 DEF FInv
<1> QED BY <1>2, <1>3

LEMMA CloseMboxFiles == ASSUME IInv, FInv, CloseMbox PROVE FInv'
<1>1. /\ pc = "idle" /\ pc' = "closed" /\ mIndexList' = << >> /\ SyncIndexHeader
      /\ fs' = fs /\ goal' = goal /\ late' = late /\ kept' = kept
      /\ trusted' = trusted /\ astray' = astray /\ faults' = faults
  BY DEF CloseMbox, auxVars
<1>2. /\ newer' \subseteq {"mbx", "mbc"} /\ hidden' \subseteq {"mbx", "mbc"}
      /\ newer' \cap hidden' = {}
  <2>1. {"mbi"} \subseteq Files /\ {"mbi"} # {}
    BY DEF Files
  <2>2. CASE Modified({"mbi"})
    BY <2>1, <2>2, Timed DEF FInv
  <2>3. CASE UNCHANGED timeVars
    BY <2>3 DEF FInv, StateTypes, timeVars
  <2> QED BY <1>1, <2>2, <2>3 DEF SyncIndexHeader
<1>3. late = << >> /\ fs.mbi.recs = mIndexList
  BY <1>1 DEF IInv, Control, Complete, AllRecs, Unflushed
<1>4. FileTypes'
  BY <1>1 DEF FInv, FileTypes, Rebuilding
<1>5. StateTypes'
  BY <1>1, <1>2, EmptySeq DEF FInv, StateTypes
<1>6. Stored'
  <2>1. Holds(Texts)'
    BY <1>1, <1>3 DEF FInv, Stored, Holds, Texts
  <2> QED BY <1>1, <1>3, <2>1 DEF Stored, Unflushed, Flushed, Rebuilding
<1>7. Moved'
  BY <1>1 DEF FInv, Moved
<1>8. Older'
  BY <1>1 DEF Older, Unflushed, Flushed
<1>9. Viewed'
  BY <1>1, <1>3 DEF FInv, Viewed, Rebuilding, Unflushed, Flushed
<1> QED BY <1>4, <1>5, <1>6, <1>7, <1>8, <1>9 DEF FInv

LEMMA StartAppendFiles == ASSUME IInv, FInv, StartAppend PROVE FInv'
<1>1. CASE TouchMbox("append")
  BY <1>1, TouchMboxFiles
<1>2. CASE ValidateCache("append")
  BY <1>2, ValidateCacheFiles
<1>3. CASE /\ pc = "idle" /\ pc' = "write"
           /\ UNCHANGED <<fs, timeVars, goal, memVars, late, moves, auxVars, faults>>
  <2>1. /\ pc = "idle" /\ pc' = "write" /\ fs' = fs /\ late' = late /\ goal' = goal
        /\ newer' = newer /\ hidden' = hidden /\ mIndexList' = mIndexList /\ kept' = kept
        /\ trusted' = trusted /\ astray' = astray /\ faults' = faults
    BY <1>3 DEF memVars, auxVars, timeVars
  <2>2. late = << >> /\ fs.mbi.recs = mIndexList /\ Readable /\ "mbx" \in fs.there
    BY <2>1 DEF IInv, Control, Complete, AllRecs, Unflushed, Settled, FInv, Stored
  <2>3. WithLate' = mIndexList /\ Indexed' = fs.mbx /\ Cached' = fs.mbc
    BY <2>1, <2>2, Quoted DEF WithLate, Indexed, Cached
  <2>4. FileTypes' /\ StateTypes' /\ Moved'
    BY <2>1 DEF FInv, FileTypes, StateTypes, Moved, Rebuilding
  <2>5. Stored'
    <3>1. Holds(Texts)'
      BY <2>1 DEF FInv, Stored, Holds, Texts
    <3>2. Holds(Indexed)'
      BY <2>1, <2>2, <2>3, <3>1 DEF Holds, Texts
    <3> QED BY <2>1, <2>2, <3>1, <3>2 DEF Stored
  <2>6. Older'
    BY <2>1, <2>2 DEF Older, Flushed, Readable
  <2>7. Viewed'
    BY <2>1, <2>2, <2>3 DEF FInv, Viewed, Rebuilding, AsOld, Readable
  <2> QED BY <2>4, <2>5, <2>6, <2>7 DEF FInv
<1> QED BY <1>1, <1>2, <1>3 DEF StartAppend

-----------------------------------------------------------------------------
(* Appending.                                                              *)
LEMMA WriteTextFiles == ASSUME IInv, FInv, WriteText PROVE FInv'
<1>1. /\ pc = "write" /\ pc' = "text" /\ Unused # {}
      /\ Write("mbx", Append(fs.mbx, Torn)) /\ goal' = goal
      /\ mIndexList' = mIndexList /\ late' = late /\ kept' = kept /\ known' = known
      /\ trusted' = trusted /\ astray' = astray /\ faults' = faults
  BY DEF WriteText, memVars, auxVars
<1>2. /\ fs'.there = fs.there \cup {"mbx"} /\ fs'.old = fs.old /\ fs'.new = fs.new
      /\ fs'.mbx = Append(fs.mbx, Torn) /\ fs'.mbc = fs.mbc /\ fs'.mbi = fs.mbi
      /\ newer' \subseteq {"mbx", "mbc"} /\ hidden' \subseteq {"mbx", "mbc"}
      /\ newer' \cap hidden' = {} /\ ~AsOld' /\ "mbx" \in Files
  BY <1>1, WrittenTo DEF Files, IInv, FInv
<1>3. fs.mbx \in Seq(Text) /\ late \in Seq(Record) /\ Torn \in Text /\ Torn \notin Msgs
  BY LocalMailboxAssumption DEF FInv, FileTypes, StateTypes, Text
<1>4. /\ fs'.mbx \in Seq(Text) /\ Len(fs'.mbx) = Len(fs.mbx) + 1 /\ Len(fs.mbx) \in Nat
      /\ DOMAIN fs.mbx = 1..Len(fs.mbx)
      /\ \A i \in 1..Len(fs.mbx) : fs'.mbx[i] = fs.mbx[i]
      /\ fs'.mbx[Len(fs.mbx) + 1] = Torn /\ Front(fs'.mbx) = fs.mbx
  BY <1>2, <1>3, AtEnd
<1>5. Range(fs'.mbx) \subseteq Range(fs.mbx) \cup {Torn}
  <2>1. DOMAIN fs'.mbx = 1..(Len(fs.mbx) + 1)
    BY <1>4, LenProperties
  <2>2. \A i \in 1..(Len(fs.mbx) + 1) : i \in 1..Len(fs.mbx) \/ i = Len(fs.mbx) + 1
    BY <1>4
  <2> QED BY <1>4, <2>1, <2>2 DEF Range
<1>6. Unused' # {}
  <2>1. PICK m : m \in Unused
    BY <1>1
  <2>2. m \notin Range(fs'.mbx) /\ m \in Msgs
    BY <1>3, <1>5, <2>1 DEF Unused
  <2>3. m \in Unused'
    BY <1>1, <1>2, <2>1, <2>2 DEF Unused
  <2> QED BY <2>3
<1>7. "mbx" \in fs.there /\ Indexed = fs.mbx /\ Indexed' = fs.mbx
  BY <1>1, <1>4 DEF FInv, Stored, Indexed, Unflushed
<1>8. Holds(fs.mbx) /\ Holds(Append(fs.mbx, Torn))
  BY <1>1, <1>3, <1>7, HoldsMore DEF FInv, Stored, Unflushed
<1>9. FileTypes'
  BY <1>1, <1>2, <1>4 DEF FInv, FileTypes, Rebuilding
<1>10. StateTypes'
  BY <1>1, <1>2 DEF FInv, StateTypes
<1>11. Stored'
  <2>1. Holds(Texts)'
    BY <1>1, <1>2, <1>8 DEF Holds, Texts
  <2>2. Holds(Indexed)'
    BY <1>1, <1>7, <1>8 DEF Holds
  <2>3. Len(fs'.mbx) > 0
    BY <1>4
  <2> QED BY <1>1, <1>2, <1>6, <2>1, <2>2, <2>3 DEF FInv, Stored
<1>12. Moved'
  BY <1>1, <1>2 DEF FInv, Moved
<1>13. Older'
  BY <1>1, <1>2 DEF FInv, Older, Unflushed, Readable
<1>14. Viewed'
  <2>1. WithLate' = WithLate /\ (Counted' <=> Counted)
    BY <1>1, <1>2 DEF WithLate, Counted
  <2>2. Cached' = Cached
    BY <1>1, <1>2, <1>7 DEF Cached
  <2>3. ~trusted /\ Counted => Describes(WithLate, Indexed, Cached, kept)
    BY <1>1 DEF FInv, Viewed, Unflushed
  <2> QED BY <1>1, <1>2, <1>7, <2>1, <2>2, <2>3 DEF Viewed, Rebuilding
<1> QED BY <1>9, <1>10, <1>11, <1>12, <1>13, <1>14 DEF FInv

LEMMA WriteRestFiles == ASSUME IInv, FInv, WriteRest PROVE FInv'
<1> DEFINE m == CHOOSE x \in Unused : TRUE
           s == ReplaceAt(fs.mbx, Len(fs.mbx), m)
<1>1. /\ pc = "text" /\ pc' = "entry" /\ Write("mbx", s) /\ goal' = goal
      /\ mIndexList' = mIndexList /\ late' = late /\ kept' = kept
      /\ trusted' = trusted /\ astray' = astray /\ faults' = faults
  BY DEF WriteRest, memVars, auxVars
<1>2. m \in Msgs
  <2>1. Unused # {}
    BY <1>1 DEF FInv, Stored
  <2> QED BY <2>1 DEF Unused
<1> HIDE DEF m
<1>3. /\ fs'.there = fs.there \cup {"mbx"} /\ fs'.old = fs.old /\ fs'.new = fs.new
      /\ fs'.mbx = s /\ fs'.mbc = fs.mbc /\ fs'.mbi = fs.mbi
      /\ newer' \subseteq {"mbx", "mbc"} /\ hidden' \subseteq {"mbx", "mbc"}
      /\ newer' \cap hidden' = {} /\ ~AsOld' /\ "mbx" \in Files
  BY <1>1, WrittenTo DEF Files, IInv, FInv
<1>4. fs.mbx \in Seq(Text) /\ late \in Seq(Record) /\ m \in Text /\ Len(fs.mbx) > 0
  BY <1>1, <1>2 DEF FInv, FileTypes, StateTypes, Text, Stored
<1>5. s = Append(Front(fs.mbx), m) /\ Front(fs.mbx) \in Seq(Text)
  BY <1>4, ReplacedAtEnd, BeforeEnd
<1> HIDE DEF s
<1>6. /\ s \in Seq(Text) /\ Len(s) = Len(Front(fs.mbx)) + 1 /\ Len(Front(fs.mbx)) \in Nat
      /\ s[Len(Front(fs.mbx)) + 1] = m /\ Front(s) = Front(fs.mbx)
  BY <1>4, <1>5, AtEnd
<1>7. Indexed = Front(fs.mbx) /\ Indexed' = Front(fs.mbx)
  BY <1>1, <1>3, <1>6 DEF Indexed
<1>8. Holds(Front(fs.mbx)) /\ Holds(s)
  BY <1>1, <1>4, <1>5, <1>7, HoldsMore DEF FInv, Stored, Unflushed
<1>9. FileTypes'
  BY <1>1, <1>3, <1>6 DEF FInv, FileTypes, Rebuilding
<1>10. StateTypes'
  BY <1>1, <1>3 DEF FInv, StateTypes
<1>11. Stored'
  <2>1. Holds(Texts)'
    BY <1>1, <1>3, <1>8 DEF Holds, Texts
  <2>2. Holds(Indexed)'
    BY <1>1, <1>7, <1>8 DEF Holds
  <2>3. Len(s) > 0 /\ s[Len(s)] \in Msgs
    BY <1>2, <1>6
  <2> QED BY <1>1, <1>3, <2>1, <2>2, <2>3 DEF FInv, Stored
<1>12. Moved'
  BY <1>1, <1>3 DEF FInv, Moved
<1>13. Older'
  BY <1>1, <1>3 DEF FInv, Older, Unflushed, Readable
<1>14. Viewed'
  <2>1. WithLate' = WithLate /\ (Counted' <=> Counted)
    BY <1>1, <1>3 DEF WithLate, Counted
  <2>2. Cached' = Cached
    BY <1>1, <1>3, <1>7 DEF Cached
  <2>3. ~trusted /\ Counted => Describes(WithLate, Indexed, Cached, kept)
    BY <1>1 DEF FInv, Viewed, Unflushed
  <2> QED BY <1>1, <1>3, <1>7, <2>1, <2>2, <2>3 DEF Viewed, Rebuilding
<1> QED BY <1>9, <1>10, <1>11, <1>12, <1>13, <1>14 DEF FInv

LEMMA ReadIndexHeaderFiles == ASSUME IInv, FInv, ReadIndexHeader PROVE FInv'
<1> DEFINE recs == fs.mbi.recs \o late
<1>1. /\ pc = "entry" /\ pc' = "cache" /\ goal' = goal
      /\ mIndexList' = mIndexList /\ late' = late /\ kept' = kept
      /\ trusted' = trusted /\ astray' = astray /\ faults' = faults
  BY DEF ReadIndexHeader, memVars, auxVars
<1>2. /\ fs.mbi \in MbxIndex /\ fs.mbi.recs \in Seq(Record) /\ late \in Seq(Record)
      /\ late = << >> => recs = fs.mbi.recs
  BY Quoted
<1>3. recs \in Seq(Record)
  BY <1>2, ConcatProperties
<1>4. /\ fs'.there = fs.there /\ fs'.old = fs.old /\ fs'.new = fs.new
      /\ fs'.mbx = fs.mbx /\ fs'.mbc = fs.mbc /\ fs'.mbi \in MbxIndex
      /\ fs'.mbi.recs = recs /\ fs'.mbi.size = fs.mbi.size
      /\ fs'.mbi.valid = fs.mbi.valid
      /\ newer' \subseteq {"mbx", "mbc"} /\ hidden' \subseteq {"mbx", "mbc"}
      /\ newer' \cap hidden' = {} /\ ~AsOld'
  <2>1. CASE late = << >>
    <3>1. fs' = fs /\ newer' = newer /\ hidden' = hidden
      BY <2>1 DEF ReadIndexHeader, timeVars
    <3> QED BY <1>1, <1>2, <2>1, <3>1 DEF FInv, Older, StateTypes, AsOld
  <2>2. CASE late # << >>
    <3>1. /\ fs' = [fs EXCEPT !.mbi = [fs.mbi EXCEPT !.recs = recs]]
          /\ newer' = {} /\ hidden' = {"mbx", "mbc"}
      BY <2>2 DEF ReadIndexHeader, Overtake, FlushedIndex
    <3> HIDE DEF recs
    <3>2. /\ fs'.there = fs.there /\ fs'.old = fs.old /\ fs'.new = fs.new
          /\ fs'.mbx = fs.mbx /\ fs'.mbc = fs.mbc
          /\ fs'.mbi = [fs.mbi EXCEPT !.recs = recs]
      BY <3>1 DEF IInv, Disk
    <3>3. \A r \in Seq(Record) : /\ [fs.mbi EXCEPT !.recs = r] \in MbxIndex
                                 /\ [fs.mbi EXCEPT !.recs = r].recs = r
                                 /\ [fs.mbi EXCEPT !.recs = r].size = fs.mbi.size
                                 /\ [fs.mbi EXCEPT !.recs = r].valid = fs.mbi.valid
      BY <1>2, IndexTypes
    <3> QED BY <1>3, <3>1, <3>2, <3>3 DEF AsOld
  <2> QED BY <2>1, <2>2
<1>5. WithLate = recs /\ WithLate' = recs /\ Indexed' = Indexed
  BY <1>1, <1>4 DEF WithLate, Indexed
<1> HIDE DEF recs
<1>6. FileTypes'
  BY <1>1, <1>4 DEF FInv, FileTypes, Rebuilding
<1>7. StateTypes'
  BY <1>1, <1>4 DEF FInv, StateTypes
<1>8. Stored'
  <2>1. Holds(Texts)'
    BY <1>1, <1>4 DEF FInv, Stored, Holds, Texts
  <2>2. Holds(Indexed)'
    BY <1>1, <1>5 DEF FInv, Stored, Holds, Unflushed
  <2> QED BY <1>1, <1>4, <2>1, <2>2 DEF FInv, Stored, Unflushed
<1>9. Moved'
  <2>1. "mbi" \in fs.there
    BY <1>1 DEF FInv, Older, Unflushed, Readable
  <2> QED BY <1>1, <1>4, <2>1 DEF FInv, Moved
<1>10. Older'
  BY <1>1, <1>4 DEF FInv, Older, Unflushed, Readable
<1>11. Viewed'
  <2>1. Counted' <=> Counted
    BY <1>1, <1>4, <1>5 DEF Counted
  <2>2. Cached' = Cached
    BY <1>1, <1>4, <1>5 DEF Cached
  <2>3. ~trusted /\ Counted => Describes(WithLate, Indexed, Cached, kept)
    BY <1>1 DEF FInv, Viewed, Unflushed
  <2> QED BY <1>1, <1>4, <1>5, <2>1, <2>2, <2>3 DEF Viewed, Rebuilding
<1> QED BY <1>6, <1>7, <1>8, <1>9, <1>10, <1>11 DEF FInv

LEMMA WriteEntryFiles == ASSUME IInv, FInv, WriteEntry PROVE FInv'
<1> DEFINE r == [start |-> Len(fs.mbx) - 1, cache |-> Len(fs.mbc),
                 deleted |-> FALSE, luid |-> fs.mbi.next]
           last == fs.mbx[Len(fs.mbx)]
           C == FlushedCache
           F == Front(fs.mbx)
<1>1. /\ pc = "cache" /\ pc' = "next" /\ Write("mbc", Append(C, Blank)) /\ goal' = goal
      /\ mIndexList' = mIndexList /\ late' = <<r>> /\ kept' = kept
      /\ trusted' = trusted /\ astray' = astray /\ faults' = faults
  BY DEF WriteEntry, memVars, auxVars
<1>2. /\ fs'.there = fs.there \cup {"mbc"} /\ fs'.old = fs.old /\ fs'.new = fs.new
      /\ fs'.mbx = fs.mbx /\ fs'.mbc = Append(C, Blank) /\ fs'.mbi = fs.mbi
      /\ newer' \subseteq {"mbx", "mbc"} /\ hidden' \subseteq {"mbx", "mbc"}
      /\ newer' \cap hidden' = {} /\ ~AsOld' /\ "mbc" \in Files
  BY <1>1, WrittenTo DEF Files, IInv, FInv
<1>3. /\ fs.mbx \in Seq(Text) /\ fs.mbc \in Seq(Entry) /\ fs.mbi.recs \in Seq(Record)
      /\ fs.mbi.next \in Nat /\ Len(fs.mbx) > 0 /\ last \in Msgs
  BY <1>1, Quoted, IndexTypes DEF FInv, Stored
<1>4. /\ F \in Seq(Text) /\ Len(F) = Len(fs.mbx) - 1 /\ Len(fs.mbx) - 1 \in Nat
      /\ Len(fs.mbx) \in Nat /\ DOMAIN fs.mbx = 1..Len(fs.mbx)
      /\ \A i \in 1..(Len(fs.mbx) - 1) : F[i] = fs.mbx[i]
  BY <1>3, BeforeEnd
<1>5. Len(fs.mbc) \in Nat /\ DOMAIN fs.mbc = 1..Len(fs.mbc)
  BY <1>3, LenProperties
<1>6. r \in Record /\ r.start = Len(F) /\ r.cache = Len(fs.mbc) /\ r.start + 1 = Len(fs.mbx)
  BY <1>3, <1>4, <1>5 DEF Record
<1>7. /\ late # << >> => /\ late[1].start \in Nat /\ late[1].start < Len(F)
                         /\ fs.mbx[late[1].start + 1] = F[late[1].start + 1]
                         /\ fs.mbx[late[1].start + 1] \in Text
  <2>1. Holds(F)
    BY <1>1 DEF FInv, Stored, Flushed, Indexed
  <2> SUFFICES ASSUME late # << >>
               PROVE  /\ late[1].start \in Nat /\ late[1].start < Len(F)
                      /\ fs.mbx[late[1].start + 1] = F[late[1].start + 1]
                      /\ fs.mbx[late[1].start + 1] \in Text
    OBVIOUS
  <2>2. late[1].start \in Nat /\ late[1].start < Len(F) /\ F[late[1].start + 1] \in Msgs
    BY <2>1, Quoted DEF Holds
  <2>3. \A a, b \in Nat : a < b - 1 => a + 1 \in 1..(b - 1)
    OBVIOUS
  <2>4. fs.mbx[late[1].start + 1] = F[late[1].start + 1]
    BY <1>4, <2>2, <2>3
  <2> QED BY <2>2, <2>4 DEF Text
<1> HIDE DEF F, last
<1>8. C = Cached /\ C \in Seq(Entry) /\ Len(C) = Len(fs.mbc)
  <2>1. Indexed = F
    BY <1>1 DEF Indexed, F
  <2>2. CASE late = << >>
    BY <1>3, <2>2 DEF FlushedCache, Cached
  <2>3. CASE late # << >>
    <3>1. C = ReplaceAt(fs.mbc, Len(fs.mbc), fs.mbx[late[1].start + 1])
      BY <2>3 DEF FlushedCache
    <3>2. Cached = ReplaceAt(fs.mbc, Len(fs.mbc), F[late[1].start + 1])
      BY <2>1, <2>3 DEF Cached
    <3>3. fs.mbx[late[1].start + 1] \in Entry
      BY <1>7, <2>3 DEF Entry
    <3>4. Len(fs.mbc) \in DOMAIN fs.mbc
      BY <1>1, <1>5, <2>3 DEF FInv, Stored
    <3>5. \A s \in Seq(Entry) : \A i \in DOMAIN s : \A e \in Entry :
            ReplaceAt(s, i, e) \in Seq(Entry) /\ Len(ReplaceAt(s, i, e)) = Len(s)
      BY Replaced
    <3>6. /\ ReplaceAt(fs.mbc, Len(fs.mbc), fs.mbx[late[1].start + 1]) \in Seq(Entry)
          /\ Len(ReplaceAt(fs.mbc, Len(fs.mbc), fs.mbx[late[1].start + 1])) = Len(fs.mbc)
      BY <1>3, <3>3, <3>4, <3>5
    <3> QED BY <1>7, <2>3, <3>1, <3>2, <3>6
  <2> QED BY <2>2, <2>3
<1> HIDE DEF C, r
<1>9. Blank \in Entry /\ last \in Text /\ last \in Entry
  BY <1>3 DEF Entry, Text
<1>10. /\ fs'.mbc \in Seq(Entry) /\ Len(fs'.mbc) = Len(C) + 1 /\ Front(fs'.mbc) = C
       /\ Len(fs'.mbc) > 0
  <2>1. /\ Append(C, Blank) \in Seq(Entry) /\ Len(Append(C, Blank)) = Len(C) + 1
        /\ Len(C) \in Nat /\ Front(Append(C, Blank)) = C
    BY <1>8, <1>9, AtEnd
  <2> QED BY <1>2, <2>1
<1>11. /\ late' # << >> /\ late'[1] = r /\ Len(late') = 1 /\ late' \in Seq(Record)
  BY <1>1, <1>6
<1>12. FileTypes'
  BY <1>1, <1>2, <1>10 DEF FInv, FileTypes, Rebuilding
<1>13. StateTypes'
  BY <1>1, <1>2, <1>11 DEF FInv, StateTypes
<1>14. Stored'
  <2>1. kept \subseteq Range(fs.mbx) /\ "mbx" \in fs.there
    BY <1>1 DEF FInv, Stored, Holds, Texts, Flushed
  <2>2. r.start < Len(fs.mbx) /\ fs.mbx[r.start + 1] \in Msgs
    BY <1>3, <1>4, <1>6 DEF last
  <2>3. Texts' = fs.mbx /\ Indexed' = fs.mbx
    BY <1>1, <1>2, <2>1 DEF Texts, Indexed
  <2>4. Holds(Texts)' /\ Holds(Indexed)'
    BY <1>1, <1>2, <1>11, <2>1, <2>2, <2>3 DEF Holds
  <2> QED BY <1>1, <1>2, <1>6, <1>10, <1>11, <2>1, <2>4 DEF Stored
<1>15. Moved'
  BY <1>1, <1>2 DEF FInv, Moved
<1>16. Older'
  BY <1>1, <1>2 DEF FInv, Older, Flushed, Readable
<1>17. Viewed'
  <2>1. WithLate' = Append(fs.mbi.recs, r) /\ Len(WithLate') = Len(fs.mbi.recs) + 1
    <3>1. WithLate' = fs.mbi.recs \o late'
      BY <1>1, <1>2 DEF WithLate
    <3>2. \A s \in Seq(Record) : \A t \in Seq(Record) :
            Len(t) = 1 => s \o t = Append(s, t[1])
      BY OneMore
    <3>3. WithLate' = Append(fs.mbi.recs, r)
      BY <1>3, <1>11, <3>1, <3>2
    <3>4. Len(Append(fs.mbi.recs, r)) = Len(fs.mbi.recs) + 1
      BY <1>3, <1>6, AtEnd
    <3> QED BY <3>3, <3>4
  <2>2. Indexed' = fs.mbx
    BY <1>1, <1>2 DEF Indexed
  <2>3. fs.mbx = Append(F, last)
    BY <1>3, ReplacedAtEnd DEF F, last
  <2>4. Cached' = Append(C, last)
    <3>1. Cached' = ReplaceAt(fs'.mbc, Len(fs'.mbc), fs.mbx[r.start + 1])
      BY <1>11, <2>2 DEF Cached
    <3>2. fs.mbx[r.start + 1] = last
      BY <1>6 DEF last
    <3>3. \A s \in Seq(Entry) : \A e \in Entry :
            Len(s) > 0 => ReplaceAt(s, Len(s), e) = Append(Front(s), e)
      BY ReplacedAtEnd
    <3>4. ReplaceAt(fs'.mbc, Len(fs'.mbc), last) = Append(Front(fs'.mbc), last)
      BY <1>9, <1>10, <3>3
    <3> QED BY <1>10, <3>1, <3>2, <3>4
  <2>5. Counted' => Counted
    <3>1. Len(fs.mbi.recs) \in Nat /\ fs.mbi.size \in Nat
      BY Quoted, IndexTypes
    <3> QED BY <1>1, <1>2, <2>1, <3>1 DEF Counted, WithLate
  <2>6. ~trusted /\ Counted => Describes(fs.mbi.recs, F, C, kept)
    BY <1>1, <1>8 DEF FInv, Viewed, Flushed, WithLate, Indexed, F
  <2>7. ASSUME Describes(fs.mbi.recs, F, C, kept)
        PROVE  Describes(Append(fs.mbi.recs, r), Append(F, last), Append(C, last), kept)
    BY <1>3, <1>4, <1>6, <1>8, <1>9, <2>7, DescribesMore
  <2>8. ~trusted' /\ Counted' => Describes(WithLate', Indexed', Cached', kept')
    BY <1>1, <2>1, <2>2, <2>3, <2>4, <2>5, <2>6, <2>7
  <2> QED BY <1>1, <1>2, <2>8 DEF Viewed, Rebuilding
<1> QED BY <1>12, <1>13, <1>14, <1>15, <1>16, <1>17 DEF FInv

LEMMA WriteLocalUIDNextFiles == ASSUME IInv, FInv, WriteLocalUIDNext PROVE FInv'
<1>1. /\ pc = "next" /\ pc' = "header" /\ goal' = goal
      /\ mIndexList' = mIndexList /\ late' = late /\ kept' = kept
      /\ trusted' = trusted /\ astray' = astray /\ faults' = faults
      /\ newer' = {} /\ hidden' = {"mbx", "mbc"}
      /\ fs' = [fs EXCEPT !.mbi = [fs.mbi EXCEPT !.next = @ + 1]]
  BY DEF WriteLocalUIDNext, Overtake, memVars, auxVars
<1>2. fs.mbi \in MbxIndex /\ fs.mbi.next + 1 \in Nat
  BY Quoted, IndexTypes
<1>3. /\ fs'.there = fs.there /\ fs'.old = fs.old /\ fs'.new = fs.new
      /\ fs'.mbx = fs.mbx /\ fs'.mbc = fs.mbc
      /\ fs'.mbi = [fs.mbi EXCEPT !.next = fs.mbi.next + 1]
  BY <1>1 DEF IInv, Disk
<1>4. /\ fs'.mbi \in MbxIndex /\ fs'.mbi.recs = fs.mbi.recs
      /\ fs'.mbi.size = fs.mbi.size /\ fs'.mbi.valid = fs.mbi.valid
  <2>1. \A n \in Nat : /\ [fs.mbi EXCEPT !.next = n] \in MbxIndex
                       /\ [fs.mbi EXCEPT !.next = n].recs = fs.mbi.recs
                       /\ [fs.mbi EXCEPT !.next = n].size = fs.mbi.size
                       /\ [fs.mbi EXCEPT !.next = n].valid = fs.mbi.valid
    BY <1>2, IndexTypes
  <2> QED BY <1>2, <1>3, <2>1
<1>5. ~AsOld'
  BY <1>1 DEF AsOld
<1>6. FileTypes'
  BY <1>1, <1>3, <1>4 DEF FInv, FileTypes, Rebuilding
<1>7. StateTypes'
  BY <1>1 DEF FInv, StateTypes
<1>8. Indexed' = Indexed
  BY <1>1, <1>3 DEF Indexed
<1>9. Stored'
  <2>1. Holds(Texts)'
    BY <1>1, <1>3 DEF FInv, Stored, Holds, Texts
  <2>2. Holds(Indexed)'
    BY <1>1, <1>8 DEF FInv, Stored, Holds, Flushed
  <2> QED BY <1>1, <1>3, <2>1, <2>2 DEF FInv, Stored, Flushed
<1>10. Moved'
  <2>1. "mbi" \in fs.there
    BY <1>1 DEF FInv, Older, Flushed, Readable
  <2> QED BY <1>1, <1>3, <2>1 DEF FInv, Moved
<1>11. Older'
  BY <1>1, <1>3, <1>4, <1>5 DEF FInv, Older, Flushed, Readable
<1>12. Viewed'
  <2>1. WithLate' = WithLate /\ (Counted' <=> Counted) /\ Cached' = Cached
    <3>1. WithLate = fs.mbi.recs \o late
      BY <1>1 DEF WithLate
    <3>2. WithLate' = fs'.mbi.recs \o late'
      <4>1. pc' # "cache"
        BY <1>1
      <4> QED BY <4>1 DEF WithLate
    <3>3. WithLate' = WithLate
      <4>1. late' = late
        BY <1>1
      <4> QED BY <1>4, <3>1, <3>2, <4>1
    <3>4. Counted' <=> Counted
      BY <1>1, <1>4, <3>3 DEF Counted
    <3>5. Cached' = Cached
      BY <1>1, <1>3, <1>8 DEF Cached
    <3> QED BY <3>3, <3>4, <3>5
  <2>2. ~trusted /\ Counted => Describes(WithLate, Indexed, Cached, kept)
    BY <1>1 DEF FInv, Viewed, Flushed
  <2> QED BY <1>1, <1>5, <1>8, <2>1, <2>2 DEF Viewed, Rebuilding
<1> QED BY <1>6, <1>7, <1>9, <1>10, <1>11, <1>12 DEF FInv

LEMMA WriteIndexSizeFiles == ASSUME IInv, FInv, WriteIndexSize PROVE FInv'
<1> DEFINE size == 1 + IF open THEN Len(mIndexList) ELSE fs.mbi.size
           recs == fs.mbi.recs \o late
<1>1. /\ pc = "header" /\ pc' = "appended" /\ goal' = goal
      /\ mIndexList' = IF open THEN mIndexList \o late ELSE mIndexList
      /\ Write("mbi", [fs.mbi EXCEPT !.size = size])
      /\ late' = late /\ kept' = kept
      /\ trusted' = trusted /\ astray' = astray /\ faults' = faults
  BY DEF WriteIndexSize, auxVars
<1>2. /\ fs.mbi \in MbxIndex /\ fs.mbi.size \in Nat /\ Len(mIndexList) \in Nat
      /\ fs.mbi.recs \in Seq(Record) /\ Len(fs.mbi.recs) \in Nat
      /\ mIndexList \in Seq(Record) /\ late \in Seq(Record)
  BY Quoted, IndexTypes
<1>3. size \in Nat /\ open \in BOOLEAN
  BY <1>2 DEF IInv, Control
<1>4. late # << >> /\ Len(recs) = Len(fs.mbi.recs) + 1
  BY <1>1, Quoted DEF FInv, Stored
<1>5. open => size = Len(recs) /\ fs.mbi.size = Len(fs.mbi.recs)
  <2>1. open => clean /\ fs.mbi.recs = mIndexList
    BY <1>1 DEF IInv, Control, Complete, AllRecs, Unflushed
  <2>2. clean => fs.mbi.size = Len(fs.mbi.recs)
    BY <1>1 DEF IInv, Complete, AllRecs, Unflushed, Flushed
  <2> QED BY <1>2, <1>4, <2>1, <2>2
<1>6. ~open => size = 1 + fs.mbi.size
  OBVIOUS
<1> HIDE DEF size
<1>7. /\ fs'.there = fs.there \cup {"mbi"} /\ fs'.old = fs.old /\ fs'.new = fs.new
      /\ fs'.mbx = fs.mbx /\ fs'.mbc = fs.mbc /\ fs'.mbi = [fs.mbi EXCEPT !.size = size]
      /\ newer' \subseteq {"mbx", "mbc"} /\ hidden' \subseteq {"mbx", "mbc"}
      /\ newer' \cap hidden' = {} /\ "mbi" \in Files
  BY <1>1, WrittenTo DEF Files, IInv, FInv
<1>8. /\ fs'.mbi \in MbxIndex /\ fs'.mbi.recs = fs.mbi.recs
      /\ fs'.mbi.size = size /\ fs'.mbi.valid = fs.mbi.valid
  <2>1. \A n \in Nat : /\ [fs.mbi EXCEPT !.size = n] \in MbxIndex
                       /\ [fs.mbi EXCEPT !.size = n].recs = fs.mbi.recs
                       /\ [fs.mbi EXCEPT !.size = n].size = n
                       /\ [fs.mbi EXCEPT !.size = n].valid = fs.mbi.valid
    BY <1>2, IndexTypes
  <2> QED BY <1>3, <1>7, <2>1
<1>9. WithLate = recs /\ WithLate' = recs /\ Indexed' = Indexed /\ Cached' = Cached
  BY <1>1, <1>7, <1>8 DEF WithLate, Indexed, Cached
<1>10. Counted' => Counted
  BY <1>1, <1>2, <1>4, <1>5, <1>6, <1>8, <1>9 DEF Counted
<1>11. ~Whole(fs'.mbi)
  <2>1. fs.mbi.size + 1 >= Len(recs)
    BY <1>2, <1>4 DEF IInv, Complete, AllRecs, Disk, IsIndex
  <2>2. size >= Len(recs) /\ Len(recs) > Len(fs.mbi.recs) /\ Len(recs) \in Nat
    BY <1>2, <1>3, <1>4, <1>5, <1>6, <2>1
  <2> QED BY <1>2, <1>3, <1>8, <2>2 DEF Whole
<1>12. FileTypes'
  BY <1>1, <1>7, <1>8 DEF FInv, FileTypes, Rebuilding
<1>13. StateTypes'
  <2>1. mIndexList \o late \in Seq(Record)
    BY <1>2, ConcatProperties
  <2> QED BY <1>1, <1>2, <1>7, <2>1 DEF FInv, StateTypes
<1>14. Stored'
  <2>1. Holds(Texts)'
    BY <1>1, <1>7 DEF FInv, Stored, Holds, Texts
  <2>2. Holds(Indexed)'
    BY <1>1, <1>9 DEF FInv, Stored, Holds, Flushed
  <2> QED BY <1>1, <1>4, <1>7, <2>1, <2>2 DEF FInv, Stored, Flushed
<1>15. Moved'
  BY <1>1, <1>7 DEF FInv, Moved
<1>16. Older'
  BY <1>1, <1>7, <1>8 DEF FInv, Older, Flushed, Readable
<1>17. Viewed'
  <2>1. ~trusted /\ Counted => Describes(WithLate, Indexed, Cached, kept)
    BY <1>1 DEF FInv, Viewed, Flushed
  <2> QED BY <1>1, <1>9, <1>10, <1>11, <2>1 DEF Viewed, Rebuilding
<1> QED BY <1>12, <1>13, <1>14, <1>15, <1>16, <1>17 DEF FInv

(* What becomes the user's when an append is reported.                     *)
LEMMA AppendedIs ==
    ASSUME FInv, Appended
    PROVE  /\ late = << >> => kept' = kept /\ known' = known
           /\ late # << >> =>
                /\ kept' = kept \cup {fs.mbx[late[1].start + 1]}
                /\ known' = known \cup {<<late[1].luid, fs.mbx[late[1].start + 1],
                                          late[1].deleted>>}
<1>1. /\ known' = known \cup Given(late, fs.mbx)
      /\ kept' = kept \cup {p[2] : p \in Given(late, fs.mbx)}
  BY DEF Appended
<1>2. CASE late = << >>
  <2>1. Range(<< >>) = {}
    BY DEF Range
  <2>2. Given(late, fs.mbx) = {}
    BY <1>2, <2>1 DEF Given
  <2> QED BY <1>1, <1>2, <2>2
<1>3. CASE late # << >>
  <2>1. DOMAIN late = {1}
    BY <1>3, Quoted
  <2>2. Range(late) = {late[1]}
    BY <2>1 DEF Range
  <2> DEFINE p == <<late[1].luid, fs.mbx[late[1].start + 1], late[1].deleted>>
  <2>3. Given(late, fs.mbx) = {p}
    BY <2>2 DEF Given
  <2>4. p[2] = fs.mbx[late[1].start + 1]
    OBVIOUS
  <2> QED BY <1>1, <1>3, <2>3, <2>4
<1> QED BY <1>2, <1>3

LEMMA DescribesAppended ==
    ASSUME IInv, FInv, Appended, NEW mbc,
           Describes(fs.mbi.recs \o late, fs.mbx, mbc, kept)
    PROVE  Describes(fs.mbi.recs \o late, fs.mbx, mbc, kept')
<1> DEFINE R == fs.mbi.recs \o late
           n == Len(fs.mbi.recs)
<1>1. CASE late = << >>
  BY <1>1, AppendedIs
<1>2. CASE late # << >>
  <2>1. kept' = kept \cup {fs.mbx[late[1].start + 1]}
    BY <1>2, AppendedIs
  <2>2. R = Append(fs.mbi.recs, late[1]) /\ fs.mbi.recs \in Seq(Record) /\ late[1] \in Record
    BY <1>2, Quoted
  <2>3. R \in Seq(Record) /\ Len(R) = n + 1 /\ R[n + 1] = late[1] /\ n \in Nat
    BY <2>2, AtEnd
  <2>4. n + 1 \in DOMAIN R
    BY <2>3, LenProperties
  <2> HIDE DEF R, n
  <2>5. Describes(R, fs.mbx, mbc, kept)
    BY DEF R
  <2>6. late[1] = R[n + 1]
    BY <2>3
  <2>7. kept' \subseteq {fs.mbx[R[k].start + 1] : k \in DOMAIN R}
    BY <2>1, <2>4, <2>5, <2>6 DEF Describes
  <2>8. Describes(R, fs.mbx, mbc, kept')
    BY <2>5, <2>7 DEF Describes
  <2> QED BY <2>8 DEF R
<1> QED BY <1>1, <1>2

LEMMA KeptAppended ==
    ASSUME FInv, Appended, Holds(fs.mbx)
    PROVE  kept' \subseteq Range(fs.mbx) /\ kept' \subseteq Msgs
<1>1. kept \subseteq Msgs /\ kept \subseteq Range(fs.mbx)
  BY DEF FInv, StateTypes, Holds
<1>2. CASE late = << >>
  BY <1>1, <1>2, AppendedIs
<1>3. CASE late # << >>
  <2>1. /\ late[1].start \in Nat /\ late[1].start < Len(fs.mbx)
        /\ fs.mbx[late[1].start + 1] \in Msgs /\ Len(fs.mbx) \in Nat
        /\ fs.mbx \in Seq(Text)
    BY <1>3, Quoted DEF Holds
  <2>2. late[1].start + 1 \in DOMAIN fs.mbx
    BY <2>1, LenProperties
  <2>3. fs.mbx[late[1].start + 1] \in Range(fs.mbx)
    BY <2>2 DEF Range
  <2> QED BY <1>1, <1>3, <2>1, <2>3, AppendedIs
<1> QED BY <1>2, <1>3

LEMMA NextAppendFiles == ASSUME IInv, FInv, NextAppend PROVE FInv'
<1>1. /\ pc = "appended" /\ pc' = "write" /\ Appended /\ fs' = fs /\ goal' = goal
      /\ newer' = newer /\ hidden' = hidden
      /\ mIndexList' = mIndexList /\ late' = late
      /\ trusted' = trusted /\ astray' = astray /\ faults' = faults
  BY DEF NextAppend, memVars, timeVars
<1>2. late # << >> /\ "mbx" \in fs.there /\ Indexed = fs.mbx /\ Indexed' = fs.mbx
  BY <1>1 DEF FInv, Stored, Unflushed, Indexed
<1>3. Holds(fs.mbx)
  BY <1>1, <1>2 DEF FInv, Stored, Unflushed
<1>4. kept' \subseteq Range(fs.mbx) /\ kept' \subseteq Msgs
  BY <1>1, <1>3, KeptAppended
<1>5. ~Whole(fs.mbi)
  <2>1. Len(fs.mbi.recs \o late) <= fs.mbi.size
    BY <1>1 DEF IInv, Complete, AllRecs, Unflushed
  <2>2. Len(fs.mbi.recs \o late) = Len(fs.mbi.recs) + 1
    BY <1>2, Quoted
  <2>3. Len(fs.mbi.recs) \in Nat /\ fs.mbi.size \in Nat
    BY Quoted, IndexTypes
  <2> QED BY <2>1, <2>2, <2>3 DEF Whole
<1>6. FileTypes'
  BY <1>1 DEF FInv, FileTypes, Rebuilding
<1>7. StateTypes'
  BY <1>1, <1>4 DEF FInv, StateTypes
<1>8. Stored'
  <2>1. Holds(Texts)' /\ Holds(Indexed)'
    BY <1>1, <1>2, <1>3, <1>4 DEF Holds, Texts
  <2> QED BY <1>1, <1>2, <2>1 DEF FInv, Stored
<1>9. Moved' /\ Older'
  BY <1>1 DEF FInv, Moved, Older, Unflushed, Flushed, Readable
<1>10. Viewed'
  <2>1. /\ WithLate = fs.mbi.recs \o late /\ WithLate' = fs.mbi.recs \o late
        /\ (Counted' <=> Counted) /\ Cached' = Cached
    BY <1>1, <1>2 DEF WithLate, Counted, Cached
  <2>2. ~trusted /\ Counted => Describes(fs.mbi.recs \o late, fs.mbx, Cached, kept)
    BY <1>1, <1>2, <2>1 DEF FInv, Viewed, Unflushed
  <2>3. ~trusted /\ Counted => Describes(fs.mbi.recs \o late, fs.mbx, Cached, kept')
    BY <1>1, <2>2, DescribesAppended
  <2> QED BY <1>1, <1>2, <1>5, <2>1, <2>3 DEF Viewed, Rebuilding
<1> QED BY <1>6, <1>7, <1>8, <1>9, <1>10 DEF FInv

(* The entry of the last message, once written to the cache, stays.        *)
LEMMA CachedAtEnd ==
    ASSUME FInv, late # << >>, Len(fs.mbc) > 0, Holds(fs.mbx)
    PROVE  /\ FlushedCache \in Seq(Entry) /\ Len(FlushedCache) = Len(fs.mbc)
           /\ FlushedCache = ReplaceAt(fs.mbc, Len(fs.mbc), fs.mbx[late[1].start + 1])
           /\ ReplaceAt(FlushedCache, Len(FlushedCache), fs.mbx[late[1].start + 1])
                = FlushedCache
<1> DEFINE e == fs.mbx[late[1].start + 1]
           s == fs.mbc
           t == ReplaceAt(s, Len(s), e)
<1>1. s \in Seq(Entry) /\ e \in Entry
  BY Quoted DEF Holds, Entry, Text
<1>2. FlushedCache = t
  BY DEF FlushedCache
<1> HIDE DEF e, s
<1>3. Len(s) > 0
  BY DEF s
<1>4. \A x \in Seq(Entry) : \A y \in Entry :
        Len(x) > 0 => ReplaceAt(x, Len(x), y) = Append(Front(x), y)
  BY ReplacedAtEnd
<1>5. t = Append(Front(s), e)
  BY <1>1, <1>3, <1>4
<1>6. Front(s) \in Seq(Entry) /\ Len(Front(s)) = Len(s) - 1 /\ Len(s) \in Nat
      /\ Len(s) - 1 \in Nat
  BY <1>1, <1>3, BeforeEnd
<1> HIDE DEF t
<1>7. t \in Seq(Entry) /\ Len(t) = Len(Front(s)) + 1 /\ Front(t) = Front(s)
  BY <1>1, <1>5, <1>6, AtEnd
<1>8. Len(t) = Len(s) /\ Len(t) > 0
  BY <1>3, <1>6, <1>7
<1>9. ReplaceAt(t, Len(t), e) = t
  BY <1>1, <1>4, <1>5, <1>7, <1>8
<1> QED BY <1>2, <1>7, <1>8, <1>9 DEF e, s, t

LEMMA StopAppendFiles == ASSUME IInv, FInv, StopAppend PROVE FInv'
<1>1. /\ pc \in {"write", "appended", "failed"} /\ pc' = "stop" /\ goal' = goal
      /\ mIndexList' = mIndexList /\ late' = late /\ kept' = kept
      /\ trusted' = trusted /\ astray' = astray /\ faults' = faults
  BY DEF StopAppend, memVars, auxVars
<1>2. "mbx" \in fs.there /\ Indexed = fs.mbx /\ Holds(fs.mbx)
  BY <1>1 DEF FInv, Stored, Unflushed, Indexed
<1>3. Readable
  BY <1>1 DEF FInv, Older, Unflushed
<1>4. ~trusted /\ Counted => Describes(WithLate, fs.mbx, Cached, kept)
  BY <1>1, <1>2 DEF FInv, Viewed, Unflushed
<1>5. CASE late = << >>
  <2>1. fs' = fs /\ newer' = newer /\ hidden' = hidden
    BY <1>5 DEF StopAppend, timeVars
  <2>2. FileTypes' /\ StateTypes' /\ Moved'
    BY <1>1, <2>1 DEF FInv, FileTypes, StateTypes, Moved, Rebuilding
  <2>3. Indexed' = fs.mbx
    BY <1>1, <2>1 DEF Indexed
  <2>4. Stored'
    <3>1. Holds(Texts)' /\ Holds(Indexed)'
      BY <1>1, <1>2, <2>1, <2>3 DEF Holds, Texts
    <3> QED BY <1>1, <1>2, <1>5, <2>1, <3>1 DEF Stored
  <2>5. Older'
    BY <1>1, <1>3, <2>1 DEF Older, Flushed, Readable
  <2>6. Viewed'
    <3>1. WithLate' = WithLate /\ (Counted' <=> Counted) /\ Cached' = Cached
      BY <1>1, <1>5, <2>1 DEF WithLate, Counted, Cached
    <3>2. /\ ~trusted /\ AsOld /\ Readable /\ Whole(fs.mbi) /\ "mbx" \in fs.there =>
               Describes(fs.mbi.recs, fs.mbx, fs.mbc, kept)
          /\ AsOld' = AsOld
      BY <2>1 DEF FInv, Viewed, AsOld
    <3> QED BY <1>1, <1>2, <1>3, <1>4, <2>1, <2>3, <3>1, <3>2 DEF Viewed, Rebuilding
  <2> QED BY <2>2, <2>4, <2>5, <2>6 DEF FInv
<1>6. CASE late # << >>
  <2>1. Write("mbc", FlushedCache)
    BY <1>6 DEF StopAppend
  <2>2. /\ fs'.there = fs.there \cup {"mbc"} /\ fs'.old = fs.old /\ fs'.new = fs.new
        /\ fs'.mbx = fs.mbx /\ fs'.mbc = FlushedCache /\ fs'.mbi = fs.mbi
        /\ newer' \subseteq {"mbx", "mbc"} /\ hidden' \subseteq {"mbx", "mbc"}
        /\ newer' \cap hidden' = {} /\ ~AsOld' /\ "mbc" \in Files
    BY <2>1, WrittenTo DEF Files, IInv, FInv
  <2>3. Len(fs.mbc) > 0
    BY <1>6 DEF FInv, Stored
  <2>4. /\ FlushedCache \in Seq(Entry) /\ Len(FlushedCache) = Len(fs.mbc)
        /\ FlushedCache = ReplaceAt(fs.mbc, Len(fs.mbc), fs.mbx[late[1].start + 1])
        /\ ReplaceAt(FlushedCache, Len(FlushedCache), fs.mbx[late[1].start + 1])
             = FlushedCache
    BY <1>2, <1>6, <2>3, CachedAtEnd
  <2>5. FileTypes'
    BY <1>1, <2>2, <2>4 DEF FInv, FileTypes, Rebuilding
  <2>6. StateTypes'
    BY <1>1, <2>2 DEF FInv, StateTypes
  <2>7. Indexed' = fs.mbx
    BY <1>1, <2>2 DEF Indexed
  <2>8. FlushedCache' = FlushedCache
    <3>1. FlushedCache' = ReplaceAt(fs'.mbc, Len(fs'.mbc), fs'.mbx[late'[1].start + 1])
      BY <1>1, <1>6 DEF FlushedCache
    <3> QED BY <1>1, <2>2, <2>4, <3>1
  <2>9. Stored'
    <3>1. Holds(Texts)' /\ Holds(Indexed)'
      BY <1>1, <1>2, <2>2, <2>7 DEF Holds, Texts
    <3> QED BY <1>1, <1>2, <2>2, <2>3, <2>4, <2>8, <3>1 DEF Stored
  <2>10. Moved'
    BY <1>1, <2>2 DEF FInv, Moved
  <2>11. Older'
    BY <1>1, <1>3, <2>2 DEF Older, Flushed, Readable
  <2>12. Viewed'
    <3>1. Cached = FlushedCache
      BY <1>2, <1>6, <2>4 DEF Cached
    <3>2. Cached' = FlushedCache
      <4>1. Cached' = ReplaceAt(fs'.mbc, Len(fs'.mbc), Indexed'[late'[1].start + 1])
        BY <1>1, <1>6 DEF Cached
      <4> QED BY <1>1, <2>2, <2>4, <2>7, <4>1
    <3>3. WithLate' = WithLate
      BY <1>1, <2>2 DEF WithLate
    <3>4. Counted' <=> Counted
      BY <1>1, <2>2, <3>3 DEF Counted
    <3> QED BY <1>1, <1>4, <2>2, <2>7, <3>1, <3>2, <3>3, <3>4 DEF Viewed, Rebuilding
  <2> QED BY <2>5, <2>6, <2>9, <2>10, <2>11, <2>12 DEF FInv
<1> QED BY <1>5, <1>6

LEMMA SyncAppendFiles == ASSUME IInv, FInv, SyncAppend PROVE FInv'
<1> DEFINE recs == fs.mbi.recs \o late
<1>1. /\ pc = "stop" /\ pc' = IF open THEN "idle" ELSE "closed"
      /\ late' = << >> /\ Appended /\ goal' = goal /\ mIndexList' = mIndexList
      /\ trusted' = trusted /\ astray' = astray /\ faults' = faults
  BY DEF SyncAppend, memVars
<1>2. "mbx" \in fs.there /\ Indexed = fs.mbx /\ Holds(fs.mbx)
  BY <1>1 DEF FInv, Stored, Unflushed, Indexed
<1>3. kept' \subseteq Range(fs.mbx) /\ kept' \subseteq Msgs
  BY <1>1, <1>2, KeptAppended
<1>4. /\ fs.mbi \in MbxIndex /\ fs.mbi.recs \in Seq(Record) /\ recs \in Seq(Record)
      /\ late = << >> => recs = fs.mbi.recs
  <2>1. fs.mbi \in MbxIndex /\ fs.mbi.recs \in Seq(Record) /\ late \in Seq(Record)
    BY Quoted
  <2> QED BY <2>1, Quoted, ConcatProperties
<1>5. /\ fs.there \subseteq fs'.there /\ fs'.there \subseteq fs.there \cup {"mbi"}
      /\ fs'.old = fs.old /\ fs'.new = fs.new
      /\ fs'.mbx = fs.mbx /\ fs'.mbc = fs.mbc /\ fs'.mbi \in MbxIndex
      /\ fs'.mbi.recs = recs /\ fs'.mbi.size = fs.mbi.size
      /\ newer' \subseteq {"mbx", "mbc"} /\ hidden' \subseteq {"mbx", "mbc"}
      /\ newer' \cap hidden' = {}
  <2>1. CASE late = << >>
    <3>1. fs' = fs /\ SyncIndexHeader
      BY <2>1 DEF SyncAppend
    <3>2. {"mbi"} \subseteq Files /\ {"mbi"} # {}
      BY DEF Files
    <3>3. /\ newer' \subseteq {"mbx", "mbc"} /\ hidden' \subseteq {"mbx", "mbc"}
          /\ newer' \cap hidden' = {}
      <4>1. CASE Modified({"mbi"})
        BY <3>2, <4>1, Timed DEF FInv
      <4>2. CASE UNCHANGED timeVars
        BY <4>2 DEF FInv, StateTypes, timeVars
      <4> QED BY <3>1, <4>1, <4>2 DEF SyncIndexHeader
    <3> QED BY <1>4, <2>1, <3>1, <3>3
  <2>2. CASE late # << >>
    <3>1. Write("mbi", [fs.mbi EXCEPT !.recs = recs])
      BY <2>2 DEF SyncAppend, FlushedIndex
    <3> HIDE DEF recs
    <3>2. /\ fs'.there = fs.there \cup {"mbi"} /\ fs'.old = fs.old /\ fs'.new = fs.new
          /\ fs'.mbx = fs.mbx /\ fs'.mbc = fs.mbc
          /\ fs'.mbi = [fs.mbi EXCEPT !.recs = recs]
          /\ newer' \subseteq {"mbx", "mbc"} /\ hidden' \subseteq {"mbx", "mbc"}
          /\ newer' \cap hidden' = {}
      BY <3>1, WrittenTo DEF Files, IInv, FInv
    <3>3. \A r \in Seq(Record) : /\ [fs.mbi EXCEPT !.recs = r] \in MbxIndex
                                 /\ [fs.mbi EXCEPT !.recs = r].recs = r
                                 /\ [fs.mbi EXCEPT !.recs = r].size = fs.mbi.size
      BY <1>4, IndexTypes
    <3> QED BY <1>4, <3>2, <3>3
  <2> QED BY <2>1, <2>2
<1>6. fs.mbc = Cached
  <2>1. CASE late = << >>
    BY <2>1 DEF Cached
  <2>2. CASE late # << >>
    <3>1. fs.mbc = FlushedCache
      BY <1>1, <2>2 DEF FInv, Stored
    <3> QED BY <1>2, <2>2, <3>1 DEF Cached, FlushedCache
  <2> QED BY <2>1, <2>2
<1>7. WithLate = recs /\ (Counted <=> Len(recs) = fs.mbi.size)
  BY <1>1, <1>4, IndexTypes DEF WithLate, Counted
<1>8. ~trusted /\ Counted => Describes(recs, fs.mbx, fs.mbc, kept')
  <2>1. ~trusted /\ Counted => Describes(recs, fs.mbx, fs.mbc, kept)
    BY <1>1, <1>2, <1>6, <1>7 DEF FInv, Viewed, Unflushed
  <2> QED BY <1>1, <2>1, DescribesAppended
<1>9. /\ Whole(fs'.mbi) => Counted
      /\ open => Counted /\ recs = mIndexList
  <2>1. /\ Len(recs) <= fs.mbi.size
        /\ open => clean /\ recs = mIndexList
        /\ clean => fs.mbi.size = Len(recs)
    BY <1>1 DEF IInv, Complete, Control, AllRecs, Unflushed
  <2>2. Len(recs) \in Nat /\ fs.mbi.size \in Nat
    BY <1>4, IndexTypes, LenProperties
  <2> QED BY <1>5, <1>7, <2>1, <2>2 DEF Whole
<1> HIDE DEF recs
<1>10. FileTypes'
  <2>1. "mbi" \in Files
    BY DEF Files
  <2> QED BY <1>1, <1>5, <2>1 DEF FInv, FileTypes, Rebuilding
<1>11. StateTypes'
  BY <1>1, <1>3, <1>5, EmptySeq DEF FInv, StateTypes
<1>12. Stored'
  <2>1. Texts' = fs.mbx
    BY <1>2, <1>5 DEF Texts
  <2>2. Holds(Texts)'
    BY <1>1, <1>3, <2>1 DEF Holds
  <2> QED BY <1>1, <1>2, <1>5, <2>2 DEF Stored, Unflushed, Flushed
<1>13. Moved'
  <2>1. "mbi" \in fs.there
    BY <1>1 DEF FInv, Older, Unflushed, Readable
  <2> QED BY <1>1, <1>2, <1>5, <2>1 DEF Moved
<1>14. Older'
  BY <1>1 DEF Older, Unflushed, Flushed
<1>15. Viewed'
  BY <1>1, <1>5, <1>8, <1>9 DEF Viewed, Rebuilding, Unflushed, Flushed
<1> QED BY <1>10, <1>11, <1>12, <1>13, <1>14, <1>15 DEF FInv

LEMMA RollbackAppendFiles == ASSUME IInv, FInv, RollbackAppend PROVE FInv'
<1> DEFINE F == Front(fs.mbx)
<1>1. /\ pc = "text" /\ goal' = goal /\ pc' \in {"rollback", "failed"}
      /\ newer' = newer /\ hidden' = hidden /\ faults' = faults + 1 /\ faults < MaxFaults
      /\ mIndexList' = mIndexList /\ late' = late /\ kept' = kept
      /\ trusted' = trusted /\ astray' = astray
  BY DEF RollbackAppend, memVars, auxVars, timeVars
<1>2. /\ fs'.there = fs.there /\ fs'.old = fs.old
      /\ fs'.mbx = fs.mbx /\ fs'.mbc = fs.mbc /\ fs'.mbi = fs.mbi
      /\ pc' = "rollback" => /\ fs'.new = [mbx |-> F]
                             /\ moves' = Replacing(<<"mbx">>)
      /\ pc' = "failed" => fs'.new = fs.new
  <2>1. CASE pc' = "rollback"
    <3>1. /\ fs' = [fs EXCEPT !.new = [mbx |-> F]]
          /\ moves' = Replacing(<<"mbx">>)
      BY <2>1 DEF RollbackAppend
    <3> QED BY <2>1, <3>1 DEF IInv, Disk
  <2>2. CASE pc' = "failed"
    BY <2>2 DEF RollbackAppend
  <2> QED BY <1>1, <2>1, <2>2
<1>3. fs.mbx \in Seq(Text) /\ Len(fs.mbx) > 0 /\ "mbx" \in fs.there
  BY <1>1, Quoted DEF FInv, Stored, Unflushed
<1>4. F \in Seq(Text) /\ Len(F) = Len(fs.mbx) - 1 /\ Len(fs.mbx) \in Nat
      /\ \A i \in 1..(Len(fs.mbx) - 1) : F[i] = fs.mbx[i]
  BY <1>3, BeforeEnd
<1>5. Indexed = F
  BY <1>1 DEF Indexed
<1>6. /\ Holds(F) /\ Holds(fs.mbx)
  BY <1>1, <1>3, <1>5 DEF FInv, Stored, Unflushed, Texts
<1>7. Indexed' = IF pc' = "rollback" THEN F ELSE fs.mbx
  BY <1>1, <1>2 DEF Indexed
<1>8. late # << >> => F[late[1].start + 1] = fs.mbx[late[1].start + 1]
  <2>1. late # << >> => late[1].start \in Nat /\ late[1].start < Len(F)
    BY <1>6, Quoted DEF Holds
  <2>2. \A a, b \in Nat : a < b - 1 => a + 1 \in 1..(b - 1)
    OBVIOUS
  <2> QED BY <1>4, <2>1, <2>2
<1>9. ~trusted /\ Counted => Describes(WithLate, F, Cached, kept)
  BY <1>1, <1>5 DEF FInv, Viewed, Unflushed
<1>10. WithLate \in Seq(Record)
  <2>1. fs.mbi.recs \in Seq(Record) /\ late \in Seq(Record)
    BY Quoted
  <2> QED BY <1>1, <2>1, ConcatProperties DEF WithLate
<1>11. ASSUME Describes(WithLate, F, Cached, kept)
       PROVE  Describes(WithLate, fs.mbx, Cached, kept)
  BY <1>3, <1>10, <1>11, DescribesLonger
<1> HIDE DEF F
<1>12. FileTypes'
  <2>1. [mbx |-> F] \in Made1
    BY <1>4 DEF Made1
  <2> QED BY <1>1, <1>2, <2>1 DEF FInv, FileTypes, Rebuilding
<1>13. StateTypes'
  BY <1>1, LocalMailboxAssumption DEF FInv, StateTypes
<1>14. Stored'
  <2>1. Holds(Texts)'
    BY <1>1, <1>2, <1>3, <1>6 DEF Holds, Texts
  <2>2. Holds(Indexed)'
    BY <1>1, <1>6, <1>7 DEF Holds
  <2> QED BY <1>1, <1>2, <1>3, <2>1, <2>2 DEF FInv, Stored
<1>15. Moved'
  BY <1>1, <1>2, <1>3, ReplacingOne DEF FInv, Moved
<1>16. Older'
  BY <1>1, <1>2 DEF FInv, Older, AsOld, Unflushed, Flushed, Readable
<1>17. Viewed'
  <2>1. WithLate' = WithLate /\ (Counted' <=> Counted)
    BY <1>1, <1>2 DEF WithLate, Counted
  <2>2. Cached' = Cached
    BY <1>1, <1>2, <1>5, <1>7, <1>8 DEF Cached
  <2>3. ~AsOld /\ ~AsOld'
    BY <1>1 DEF FInv, Older, AsOld
  <2> QED BY <1>1, <1>7, <1>9, <1>11, <2>1, <2>2, <2>3 DEF Viewed, Rebuilding
<1> QED BY <1>12, <1>13, <1>14, <1>15, <1>16, <1>17 DEF FInv

LEMMA RolledBackFiles == ASSUME IInv, FInv, RolledBack PROVE FInv'
<1>1. /\ pc = "rollback" /\ moves = << >> /\ pc' = "failed" /\ goal' = goal
      /\ newer' = newer /\ hidden' = hidden /\ faults' = faults
      /\ mIndexList' = mIndexList /\ late' = late /\ kept' = kept
      /\ trusted' = trusted /\ astray' = astray
  BY DEF RolledBack, memVars, auxVars, timeVars
<1>2. /\ fs'.there = fs.there /\ fs'.old = fs.old /\ fs'.new = << >>
      /\ fs'.mbx = fs.mbx /\ fs'.mbc = fs.mbc /\ fs'.mbi = fs.mbi
  BY DEF RolledBack, IInv, Disk
<1>3. "mbx" \in fs.there /\ fs.mbx = fs.new.mbx
  <2>1. << >> # <<Out("mbx"), In("mbx"), Drop>> /\ << >> # <<In("mbx"), Drop>>
    OBVIOUS
  <2> QED BY <1>1, <2>1 DEF FInv, Moved
<1>4. Indexed = fs.mbx /\ Indexed' = fs.mbx
  BY <1>1, <1>2, <1>3 DEF Indexed
<1>5. Holds(fs.mbx)
  BY <1>1, <1>4 DEF FInv, Stored, Unflushed
<1>6. FileTypes'
  BY <1>1, <1>2 DEF FInv, FileTypes, Rebuilding
<1>7. StateTypes'
  BY <1>1 DEF FInv, StateTypes
<1>8. Stored'
  <2>1. Holds(Texts)' /\ Holds(Indexed)'
    BY <1>1, <1>2, <1>3, <1>4, <1>5 DEF Holds, Texts
  <2> QED BY <1>1, <1>2, <1>3, <2>1 DEF FInv, Stored
<1>9. Moved'
  BY <1>1, <1>2 DEF FInv, Moved
<1>10. Older'
  BY <1>1, <1>2 DEF FInv, Older, Unflushed, Flushed, Readable
<1>11. Viewed'
  <2>1. WithLate' = WithLate /\ (Counted' <=> Counted) /\ Cached' = Cached
    BY <1>1, <1>2, <1>4 DEF WithLate, Counted, Cached
  <2>2. ~AsOld'
    BY <1>1 DEF FInv, Older, AsOld
  <2>3. ~trusted /\ Counted => Describes(WithLate, fs.mbx, Cached, kept)
    BY <1>1, <1>4 DEF FInv, Viewed, Unflushed
  <2> QED BY <1>1, <1>4, <2>1, <2>2, <2>3 DEF Viewed, Rebuilding
<1> QED BY <1>6, <1>7, <1>8, <1>9, <1>10, <1>11 DEF FInv

-----------------------------------------------------------------------------
(* Flags, expunging and crashes.                                           *)
LEMMA SetFlagFiles == ASSUME IInv, FInv, SetFlag PROVE FInv'
<1>1. PICK k \in DOMAIN mIndexList :
        LET rec == [mIndexList[k] EXCEPT !.deleted = ~@]
        IN  /\ mIndexList' = ReplaceAt(mIndexList, k, rec)
            /\ Write("mbi", [fs.mbi EXCEPT !.recs = ReplaceAt(@, k, rec)])
  BY DEF SetFlag
<1> DEFINE rec == [mIndexList[k] EXCEPT !.deleted = ~@]
           R == ReplaceAt(mIndexList, k, rec)
<1>2. /\ pc = "idle" /\ pc' = "idle" /\ goal' = goal /\ faults' = faults
      /\ late' = late /\ kept' = kept /\ trusted' = trusted /\ astray' = astray
  BY DEF SetFlag
<1>3. Readable /\ fs.mbi.size = Len(fs.mbi.recs) /\ fs.mbi.recs = mIndexList
  BY <1>2, SettledReadable DEF Settled, IInv, Complete, AllRecs, Control, Unflushed
<1>4. mIndexList \in Seq(Record) /\ fs.mbi \in MbxIndex /\ mIndexList[k] \in Record
  <2>1. mIndexList \in Seq(Record) /\ fs.mbi \in MbxIndex
    BY Quoted
  <2> QED BY <2>1, LenProperties, ElementOfSeq
<1>5. rec \in Record /\ rec.start = mIndexList[k].start /\ rec.cache = mIndexList[k].cache
  BY <1>4 DEF Record
<1>6. mIndexList' = R /\ Write("mbi", [fs.mbi EXCEPT !.recs = R])
  BY <1>1, <1>3
<1> HIDE DEF rec
<1>7. R \in Seq(Record) /\ Len(R) = Len(mIndexList)
  BY <1>4, <1>5, Replaced
<1>8. late = << >> /\ "mbx" \in fs.there
  BY <1>2 DEF IInv, Control, FInv, Stored
<1>9. ~trusted => Describes(R, fs.mbx, fs.mbc, kept)
  BY <1>2, <1>4, <1>5, DescribesFlagged DEF FInv, Viewed
<1> HIDE DEF R
<1>10. /\ fs'.there = fs.there \cup {"mbi"} /\ fs'.old = fs.old /\ fs'.new = fs.new
       /\ fs'.mbx = fs.mbx /\ fs'.mbc = fs.mbc
       /\ fs'.mbi = [fs.mbi EXCEPT !.recs = R]
       /\ newer' \subseteq {"mbx", "mbc"} /\ hidden' \subseteq {"mbx", "mbc"}
       /\ newer' \cap hidden' = {} /\ "mbi" \in Files
  BY <1>6, WrittenTo DEF Files, IInv, FInv
<1>11. fs'.mbi \in MbxIndex /\ fs'.mbi.recs = R
  <2>1. \A r \in Seq(Record) : /\ [fs.mbi EXCEPT !.recs = r] \in MbxIndex
                               /\ [fs.mbi EXCEPT !.recs = r].recs = r
    BY <1>4, IndexTypes
  <2> QED BY <1>7, <1>10, <2>1
<1>12. FileTypes'
  BY <1>2, <1>10, <1>11 DEF FInv, FileTypes, Rebuilding
<1>13. StateTypes'
  BY <1>2, <1>6, <1>7, <1>10 DEF FInv, StateTypes
<1>14. Stored'
  <2>1. Holds(Texts)'
    BY <1>2, <1>8, <1>10 DEF FInv, Stored, Holds, Texts
  <2> QED BY <1>2, <1>8, <1>10, <2>1 DEF Stored, Unflushed, Flushed
<1>15. Moved'
  BY <1>2, <1>8, <1>10 DEF Moved
<1>16. Older'
  BY <1>2 DEF Older, Unflushed, Flushed
<1>17. Viewed'
  BY <1>2, <1>6, <1>9, <1>10, <1>11 DEF Viewed, Rebuilding, Unflushed, Flushed
<1> QED BY <1>12, <1>13, <1>14, <1>15, <1>16, <1>17 DEF FInv

LEMMA CrashFiles == ASSUME IInv, FInv, Crash PROVE FInv'
<1>1. /\ pc' = "closed" /\ goal' = "none" /\ mIndexList' = << >> /\ late' = << >>
      /\ newer' = newer /\ hidden' = hidden /\ faults' = faults + 1 /\ faults < MaxFaults
      /\ kept' = kept /\ trusted' = trusted /\ astray' = astray
  BY DEF Crash, timeVars
<1>2. /\ fs'.there = fs.there /\ fs'.old = fs.old /\ fs'.new = << >>
      /\ fs'.mbx = fs.mbx /\ fs'.mbc = fs.mbc /\ fs'.mbi = fs.mbi
  BY DEF Crash, IInv, Disk
<1>3. FileTypes'
  BY <1>1, <1>2 DEF FInv, FileTypes, Rebuilding
<1>4. StateTypes'
  <2>1. << >> \in Seq(Record) /\ Len(<< >>) <= 1
    BY EmptySeq
  <2> QED BY <1>1, <2>1, LocalMailboxAssumption DEF FInv, StateTypes
<1>5. Stored'
  <2>1. Holds(Texts)'
    BY <1>1, <1>2 DEF FInv, Stored, Holds, Texts
  <2> QED BY <1>1, <2>1 DEF Stored, Rebuilding, Unflushed, Flushed
<1>6. Moved'
  BY <1>1, <1>2 DEF FInv, Moved
<1>7. Older'
  BY <1>1 DEF Older, Unflushed, Flushed
<1>8. Viewed'
  BY <1>1, <1>2 DEF FInv, Viewed, AsOld, Readable, Rebuilding, Unflushed, Flushed
<1> QED BY <1>3, <1>4, <1>5, <1>6, <1>7, <1>8 DEF FInv

LEMMA ExpungeMessageFiles == ASSUME IInv, FInv, ExpungeMessage PROVE FInv'
<1>1. PICK D \in (SUBSET DOMAIN mIndexList) \ {{}} :
         /\ fs' = [fs EXCEPT !.new = Without(D)]
         /\ kept' = Remaining(D)
         /\ trusted' = (mIndexList[1].start > 0)
         /\ astray' = (astray \/ mIndexList[1].start > 0)
  BY DEF ExpungeMessage, Remaining
<1>2. /\ pc = "idle" /\ pc' = "expunge" /\ ~trusted /\ goal' = goal /\ faults' = faults
      /\ newer' = newer /\ hidden' = hidden
      /\ mIndexList' = mIndexList /\ late' = late
      /\ moves' = Replacing(<<"mbx", "mbc", "mbi">>)
  BY DEF ExpungeMessage, memVars, timeVars
<1>3. /\ fs'.there = fs.there /\ fs'.old = fs.old /\ fs'.new = Without(D)
      /\ fs'.mbx = fs.mbx /\ fs'.mbc = fs.mbc /\ fs'.mbi = fs.mbi
  BY <1>1 DEF IInv, Disk
<1>4. Describes(mIndexList, fs.mbx, fs.mbc, kept) /\ "mbx" \in fs.there /\ late = << >>
  BY <1>2 DEF FInv, Viewed, Stored, IInv, Control
<1>5. D \subseteq DOMAIN mIndexList /\ D # {}
  BY <1>1
<1>6. /\ Without(D) \in Made3
      /\ Len(Without(D).mbi.recs) < Len(mIndexList)
      /\ Remaining(D) \subseteq Range(Without(D).mbx)
  BY <1>4, <1>5, WithoutTypes DEF FInv
<1>7. kept' \subseteq kept
  BY <1>1 DEF Remaining
<1>8. mIndexList[1].start \in Nat /\ DOMAIN mIndexList = 1..Len(mIndexList)
  <2>1. mIndexList \in Seq(Record)
    BY Quoted
  <2>2. DOMAIN mIndexList = 1..Len(mIndexList) /\ Len(mIndexList) \in Nat
    BY <2>1, LenProperties
  <2>3. Len(mIndexList) # 0
    BY <1>5, <2>2
  <2>4. 1 \in 1..Len(mIndexList)
    BY <2>2, <2>3
  <2>5. mIndexList[1] \in Record
    BY <2>1, <2>4, ElementOfSeq
  <2> QED BY <2>2, <2>5 DEF Record
<1>9. ~trusted' =>
        Describes(Without(D).mbi.recs, Without(D).mbx, Without(D).mbc, kept')
  <2>1. ASSUME ~trusted' PROVE mIndexList[1].start = 0
    <3>1. ~(mIndexList[1].start > 0)
      BY <1>1, <2>1, Zenon
    <3>2. \A n \in Nat : ~(n > 0) => n = 0
      OBVIOUS
    <3> QED BY <1>8, <3>1, <3>2
  <2> QED BY <1>1, <1>4, <1>5, <2>1, WithoutDescribes DEF FInv
<1>10. FileTypes'
  BY <1>2, <1>3, <1>6 DEF FInv, FileTypes, Rebuilding
<1>11. StateTypes'
  <2>1. trusted' \in BOOLEAN /\ astray' \in BOOLEAN
    BY <1>1 DEF FInv, StateTypes
  <2> QED BY <1>2, <1>7, <2>1 DEF FInv, StateTypes
<1>12. Stored'
  <2>1. Holds(Texts)'
    BY <1>2, <1>3, <1>4, <1>7 DEF FInv, Stored, Holds, Texts
  <2> QED BY <1>2, <1>4, <2>1 DEF Stored, Rebuilding, Unflushed, Flushed
<1>13. Moved'
  <2>1. Holds(fs.new.mbx)'
    BY <1>1, <1>2, <1>3, <1>4, <1>6 DEF Holds
  <2>2. moves' = Left7
    BY <1>2, ReplacingThree DEF Left7
  <2>3. ("mbi" \notin fs'.there => fs'.mbi = NoIndex)
    BY <1>3 DEF FInv, Moved
  <2> QED BY <1>2, <1>3, <1>4, <1>6, <2>1, <2>2, <2>3 DEF Moved
<1>14. Older'
  BY <1>2 DEF Older, Unflushed, Flushed
<1>15. Viewed'
  <2>1. ~trusted /\ AsOld /\ Readable /\ Whole(fs.mbi) =>
          Describes(fs.mbi.recs, fs.mbx, fs.mbc, kept)
    BY <1>4 DEF FInv, Viewed
  <2>2. ~trusted /\ AsOld /\ Readable /\ Whole(fs.mbi) =>
          Describes(fs.mbi.recs, fs.mbx, fs.mbc, kept')
    BY <1>7, <2>1, DescribesFewer
  <2>3. (AsOld' <=> AsOld) /\ (Readable' <=> Readable) /\ (Whole(fs.mbi)' <=> Whole(fs.mbi))
    BY <1>2, <1>3 DEF AsOld, Readable, Whole
  <2> QED BY <1>2, <1>3, <1>9, <2>2, <2>3 DEF Viewed, Rebuilding, Unflushed, Flushed
<1> QED BY <1>10, <1>11, <1>12, <1>13, <1>14, <1>15 DEF FInv

(* What each rename does to the files and their times.                     *)
LEMMA AwayIs ==
    ASSUME IInv, FInv, RenameFile, NEW f \in Files, Head(moves) = Out(f)
    PROVE  /\ fs'.there = fs.there \ {f} /\ fs'.new = fs.new
           /\ fs'.old = IF f = "mbx" THEN fs.mbx ELSE fs.old
           /\ fs'.mbx = IF f = "mbx" THEN << >> ELSE fs.mbx
           /\ fs'.mbc = IF f = "mbc" THEN << >> ELSE fs.mbc
           /\ fs'.mbi = IF f = "mbi" THEN NoIndex ELSE fs.mbi
           /\ newer' = newer /\ hidden' = hidden
<1>1. Head(moves)[1] = "out" /\ Head(moves)[2] = f
  BY DEF Out
<1>2. Away(f)
  BY <1>1 DEF RenameFile
<1>3. f \in {"mbx", "mbc", "mbi"} /\ Disk
  BY DEF Files, IInv
<1>4. CASE f = "mbx"
  BY <1>2, <1>3, <1>4 DEF Away, Disk, timeVars
<1>5. CASE f = "mbc"
  BY <1>2, <1>3, <1>5 DEF Away, Disk, timeVars
<1>6. CASE f = "mbi"
  BY <1>2, <1>3, <1>6 DEF Away, Disk, timeVars
<1> QED BY <1>3, <1>4, <1>5, <1>6

LEMMA ArrivesIs ==
    ASSUME IInv, FInv, RenameFile, NEW f \in Files, Head(moves) = In(f)
    PROVE  /\ fs'.there = fs.there \cup {f} /\ fs'.new = fs.new
           /\ fs'.old = IF f = "mbx" THEN << >> ELSE fs.old
           /\ fs'.mbx = IF f = "mbx" THEN fs.new.mbx ELSE fs.mbx
           /\ fs'.mbc = IF f = "mbc" THEN fs.new.mbc ELSE fs.mbc
           /\ fs'.mbi = IF f = "mbi" THEN fs.new.mbi ELSE fs.mbi
           /\ newer' \subseteq {"mbx", "mbc"} /\ hidden' \subseteq {"mbx", "mbc"}
           /\ newer' \cap hidden' = {}
           /\ f # "mbi" => ~AsOld'
<1>1. Head(moves)[1] = "in" /\ Head(moves)[2] = f
  BY DEF In
<1>2. Arrives(f)
  BY <1>1 DEF RenameFile
<1>3. f \in {"mbx", "mbc", "mbi"} /\ Disk
  BY DEF Files, IInv
<1>4. /\ fs'.there = fs.there \cup {f} /\ fs'.new = fs.new
      /\ fs'.old = IF f = "mbx" THEN << >> ELSE fs.old
      /\ fs'.mbx = IF f = "mbx" THEN fs.new.mbx ELSE fs.mbx
      /\ fs'.mbc = IF f = "mbc" THEN fs.new.mbc ELSE fs.mbc
      /\ fs'.mbi = IF f = "mbi" THEN fs.new.mbi ELSE fs.mbi
  <2>1. CASE f = "mbx"
    BY <1>2, <1>3, <2>1 DEF Arrives, Disk
  <2>2. CASE f = "mbc"
    BY <1>2, <1>3, <2>2 DEF Arrives, Disk
  <2>3. CASE f = "mbi"
    BY <1>2, <1>3, <2>3 DEF Arrives, Disk
  <2> QED BY <1>3, <2>1, <2>2, <2>3
<1>5. {f} \subseteq Files /\ {f} # {} /\ ("mbi" \in {f} <=> f = "mbi")
  OBVIOUS
<1>6. /\ newer' \subseteq {"mbx", "mbc"} /\ hidden' \subseteq {"mbx", "mbc"}
      /\ newer' \cap hidden' = {}
      /\ f # "mbi" => ~AsOld'
  BY <1>2, <1>5, Timed DEF Arrives, FInv
<1> QED BY <1>4, <1>6

LEMMA DropIs ==
    ASSUME IInv, RenameFile, Head(moves) = Drop
    PROVE  /\ fs'.there = fs.there /\ fs'.new = fs.new /\ fs'.old = << >>
           /\ fs'.mbx = fs.mbx /\ fs'.mbc = fs.mbc /\ fs'.mbi = fs.mbi
           /\ newer' = newer /\ hidden' = hidden
<1>1. Head(moves)[1] = "drop"
  BY DEF Drop
<1> QED BY <1>1 DEF RenameFile, IInv, Disk, timeVars

LEMMA RollbackMoves == ASSUME IInv, FInv, RenameFile, pc = "rollback" PROVE FInv'
<1>1. /\ pc' = pc /\ moves' = Tail(moves) /\ goal' = goal /\ faults' = faults
      /\ mIndexList' = mIndexList /\ late' = late /\ kept' = kept
      /\ trusted' = trusted /\ astray' = astray /\ moves # << >>
  BY DEF RenameFile, memVars, auxVars
<1>2. /\ newer \subseteq {"mbx", "mbc"} /\ hidden \subseteq {"mbx", "mbc"}
      /\ newer \cap hidden = {} /\ ~AsOld
  BY DEF FInv, StateTypes, Older
<1>3. /\ fs.new.mbx \in Seq(Text) /\ fs.mbx \in Seq(Text) /\ fs.old \in Seq(Text)
      /\ fs.there \subseteq Files /\ "mbx" \in Files
  BY DEF FInv, FileTypes, Made1, Files
<1>4. Holds(Texts) /\ Holds(fs.new.mbx)
  BY DEF FInv, Stored, Unflushed, Indexed
<1> DEFINE Goal ==
      /\ fs'.new = fs.new /\ fs'.mbc = fs.mbc /\ fs'.mbi = fs.mbi
      /\ fs'.there \subseteq Files /\ fs.there \ {"mbx"} \subseteq fs'.there
      /\ fs'.there \subseteq fs.there \cup {"mbx"}
      /\ fs'.old \in Seq(Text) /\ fs'.mbx \in Seq(Text)
      /\ newer' \subseteq {"mbx", "mbc"} /\ hidden' \subseteq {"mbx", "mbc"}
      /\ newer' \cap hidden' = {} /\ ~AsOld'
      /\ Texts' = Texts \/ Texts' = fs.new.mbx
      /\ "mbx" \notin fs'.there => fs'.mbx = << >>
      /\ \/ moves' = <<In("mbx"), Drop>> /\ "mbx" \notin fs'.there
         \/ moves' \in {<<Drop>>, << >>} /\ "mbx" \in fs'.there /\ fs'.mbx = fs.new.mbx
<1>5. Goal
  <2>1. CASE moves = <<Out("mbx"), In("mbx"), Drop>> /\ "mbx" \in fs.there
    <3>1. Head(moves) = Out("mbx") /\ Tail(moves) = <<In("mbx"), Drop>>
      BY <2>1
    <3>2. /\ fs'.there = fs.there \ {"mbx"} /\ fs'.new = fs.new
          /\ fs'.old = fs.mbx /\ fs'.mbx = << >> /\ fs'.mbc = fs.mbc /\ fs'.mbi = fs.mbi
          /\ newer' = newer /\ hidden' = hidden
      BY <1>3, <3>1, AwayIs
    <3>3. Texts' = Texts
      BY <2>1, <3>2 DEF Texts
    <3> QED BY <1>1, <1>2, <1>3, <3>1, <3>2, <3>3, EmptySeq DEF AsOld
  <2>2. CASE moves = <<In("mbx"), Drop>> /\ "mbx" \notin fs.there
    <3>1. Head(moves) = In("mbx") /\ Tail(moves) = <<Drop>>
      BY <2>2
    <3>2. /\ fs'.there = fs.there \cup {"mbx"} /\ fs'.new = fs.new
          /\ fs'.old = << >> /\ fs'.mbx = fs.new.mbx
          /\ fs'.mbc = fs.mbc /\ fs'.mbi = fs.mbi
          /\ newer' \subseteq {"mbx", "mbc"} /\ hidden' \subseteq {"mbx", "mbc"}
          /\ newer' \cap hidden' = {} /\ ~AsOld'
      BY <1>3, <3>1, ArrivesIs
    <3>3. Texts' = fs.new.mbx
      BY <3>2 DEF Texts
    <3> QED BY <1>1, <1>3, <3>1, <3>2, <3>3, EmptySeq
  <2>3. CASE moves = <<Drop>> /\ "mbx" \in fs.there /\ fs.mbx = fs.new.mbx
    <3>1. Head(moves) = Drop /\ Tail(moves) = << >>
      BY <2>3
    <3>2. /\ fs'.there = fs.there /\ fs'.new = fs.new /\ fs'.old = << >>
          /\ fs'.mbx = fs.mbx /\ fs'.mbc = fs.mbc /\ fs'.mbi = fs.mbi
          /\ newer' = newer /\ hidden' = hidden
      BY <3>1, DropIs
    <3>3. Texts' = Texts
      BY <2>3, <3>2 DEF Texts
    <3> QED BY <1>1, <1>2, <1>3, <2>3, <3>1, <3>2, <3>3, EmptySeq DEF AsOld
  <2> QED BY <1>1, <2>1, <2>2, <2>3 DEF FInv, Moved
<1>6. Indexed = fs.new.mbx /\ Indexed' = fs.new.mbx
  BY <1>1, <1>5 DEF Indexed
<1>7. FileTypes'
  BY <1>1, <1>5 DEF FInv, FileTypes, Rebuilding
<1>8. StateTypes'
  BY <1>1, <1>5 DEF FInv, StateTypes
<1>9. Stored'
  <2>1. Holds(Texts)' /\ Holds(Indexed)'
    BY <1>1, <1>4, <1>5, <1>6 DEF Holds
  <2> QED BY <1>1, <1>5, <2>1 DEF FInv, Stored
<1>10. Moved'
  BY <1>1, <1>5 DEF FInv, Moved
<1>11. Older'
  BY <1>1, <1>5 DEF FInv, Older, Unflushed, Flushed, Readable
<1>12. Viewed'
  <2>1. WithLate' = WithLate /\ (Counted' <=> Counted) /\ Cached' = Cached
    BY <1>1, <1>5, <1>6 DEF WithLate, Counted, Cached
  <2>2. ~trusted /\ Counted => Describes(WithLate, fs.new.mbx, Cached, kept)
    BY <1>6 DEF FInv, Viewed, Unflushed
  <2> QED BY <1>1, <1>5, <1>6, <2>1, <2>2 DEF Viewed, Rebuilding
<1> QED BY <1>7, <1>8, <1>9, <1>10, <1>11, <1>12 DEF FInv

LEMMA ExpungeMoves == ASSUME IInv, FInv, RenameFile, pc = "expunge" PROVE FInv'
<1>1. /\ pc' = pc /\ moves' = Tail(moves) /\ goal' = goal /\ faults' = faults
      /\ mIndexList' = mIndexList /\ late' = late /\ kept' = kept
      /\ trusted' = trusted /\ astray' = astray /\ moves # << >>
  BY DEF RenameFile, memVars, auxVars
<1>2. /\ newer \subseteq {"mbx", "mbc"} /\ hidden \subseteq {"mbx", "mbc"}
      /\ newer \cap hidden = {} /\ late = << >>
  BY DEF FInv, StateTypes, IInv, Control
<1>3. /\ fs.new.mbx \in Seq(Text) /\ fs.new.mbc \in Seq(Entry) /\ fs.new.mbi \in MbxIndex
      /\ fs.mbx \in Seq(Text) /\ fs.old \in Seq(Text)
      /\ fs.mbc \in Seq(Entry) /\ fs.mbi \in MbxIndex /\ NoIndex \in MbxIndex
      /\ ~NoIndex.valid
      /\ fs.there \subseteq Files /\ "mbx" \in Files /\ "mbc" \in Files /\ "mbi" \in Files
      /\ << >> \in Seq(Text) /\ << >> \in Seq(Entry)
  BY NoIndexType, EmptySeq DEF FInv, FileTypes, Made3, Files
<1>4. /\ Holds(Texts) /\ Holds(fs.new.mbx)
      /\ Len(fs.new.mbi.recs) < Len(mIndexList)
  BY DEF FInv, Stored, Moved
<1>5. ~Whole(fs.new.mbi)
  <2>1. fs.new.mbi.size = Len(mIndexList)
    BY DEF IInv, Renames
  <2>2. Len(fs.new.mbi.recs) \in Nat /\ Len(mIndexList) \in Nat
    BY <1>3, IndexTypes, Quoted
  <2> QED BY <1>4, <2>1, <2>2 DEF Whole
<1> DEFINE Goal ==
      /\ fs'.new = fs.new /\ fs'.there \subseteq Files
      /\ fs'.old \in Seq(Text) /\ fs'.mbx \in Seq(Text)
      /\ fs'.mbc \in Seq(Entry) /\ fs'.mbi \in MbxIndex
      /\ newer' \subseteq {"mbx", "mbc"} /\ hidden' \subseteq {"mbx", "mbc"}
      /\ newer' \cap hidden' = {}
      /\ Texts' = Texts \/ Texts' = fs.new.mbx
      /\ "mbx" \notin fs'.there => fs'.mbx = << >>
      /\ "mbi" \notin fs'.there => fs'.mbi = NoIndex
      /\ "mbx" \notin fs'.there \/ ~Readable' \/ ~Whole(fs'.mbi)
      /\ \/ moves' = Left6 /\ "mbx" \notin fs'.there
         \/ moves' = Left5 /\ {"mbx", "mbc"} \cap fs'.there = {}
         \/ moves' = Left4 /\ Files \cap fs'.there = {}
         \/ moves' = Left3 /\ {"mbc", "mbi"} \cap fs'.there = {}
            /\ "mbx" \in fs'.there /\ fs'.mbx = fs.new.mbx
         \/ moves' = Left2 /\ "mbi" \notin fs'.there
            /\ "mbx" \in fs'.there /\ fs'.mbx = fs.new.mbx /\ fs'.mbc = fs.new.mbc
         \/ moves' \in {<<Drop>>, << >>}
            /\ "mbx" \in fs'.there /\ fs'.mbx = fs.new.mbx /\ fs'.mbc = fs.new.mbc
<1>6. ("mbx" \notin fs.there => fs.mbx = << >>) /\ ("mbi" \notin fs.there => fs.mbi = NoIndex)
  BY DEF FInv, Moved
<1>7. Goal
  <2>1. CASE moves = Left7 /\ "mbx" \in fs.there
    <3>1. Head(moves) = Out("mbx") /\ Tail(moves) = Left6
      BY <2>1 DEF Left7, Left6
    <3>2. /\ fs'.there = fs.there \ {"mbx"} /\ fs'.new = fs.new
          /\ fs'.old = fs.mbx /\ fs'.mbx = << >> /\ fs'.mbc = fs.mbc /\ fs'.mbi = fs.mbi
          /\ newer' = newer /\ hidden' = hidden
      BY <1>3, <3>1, AwayIs
    <3>3. Texts' = Texts
      BY <2>1, <3>2 DEF Texts
    <3> QED BY <1>1, <1>2, <1>3, <1>6, <3>1, <3>2, <3>3
  <2>2. CASE moves = Left6 /\ "mbx" \notin fs.there
    <3>1. Head(moves) = Out("mbc") /\ Tail(moves) = Left5
      BY <2>2 DEF Left6, Left5
    <3>2. /\ fs'.there = fs.there \ {"mbc"} /\ fs'.new = fs.new
          /\ fs'.old = fs.old /\ fs'.mbx = fs.mbx /\ fs'.mbc = << >> /\ fs'.mbi = fs.mbi
          /\ newer' = newer /\ hidden' = hidden
      BY <1>3, <3>1, AwayIs
    <3>3. Texts' = Texts
      BY <2>2, <3>2 DEF Texts
    <3> QED BY <1>1, <1>2, <1>3, <1>6, <2>2, <3>1, <3>2, <3>3
  <2>3. CASE moves = Left5 /\ {"mbx", "mbc"} \cap fs.there = {}
    <3>1. Head(moves) = Out("mbi") /\ Tail(moves) = Left4
      BY <2>3 DEF Left5, Left4
    <3>2. /\ fs'.there = fs.there \ {"mbi"} /\ fs'.new = fs.new
          /\ fs'.old = fs.old /\ fs'.mbx = fs.mbx /\ fs'.mbc = fs.mbc /\ fs'.mbi = NoIndex
          /\ newer' = newer /\ hidden' = hidden
      BY <1>3, <3>1, AwayIs
    <3>3. Texts' = Texts
      BY <2>3, <3>2 DEF Texts
    <3>4. Files \cap fs'.there = {}
      BY <2>3, <3>2 DEF Files
    <3> QED BY <1>1, <1>2, <1>3, <1>6, <2>3, <3>1, <3>2, <3>3, <3>4
  <2>4. CASE moves = Left4 /\ Files \cap fs.there = {}
    <3>1. Head(moves) = In("mbx") /\ Tail(moves) = Left3
      BY <2>4 DEF Left4, Left3
    <3>2. /\ fs'.there = fs.there \cup {"mbx"} /\ fs'.new = fs.new
          /\ fs'.old = << >> /\ fs'.mbx = fs.new.mbx
          /\ fs'.mbc = fs.mbc /\ fs'.mbi = fs.mbi
          /\ newer' \subseteq {"mbx", "mbc"} /\ hidden' \subseteq {"mbx", "mbc"}
          /\ newer' \cap hidden' = {}
      BY <1>3, <3>1, ArrivesIs
    <3>3. Texts' = fs.new.mbx
      BY <3>2 DEF Texts
    <3>4. {"mbc", "mbi"} \cap fs'.there = {} /\ ~Readable' /\ fs'.there \subseteq Files
      BY <1>3, <2>4, <3>2 DEF Files, Readable
    <3> QED BY <1>1, <1>3, <1>6, <3>1, <3>2, <3>3, <3>4
  <2>5. CASE /\ moves = Left3 /\ {"mbc", "mbi"} \cap fs.there = {}
             /\ "mbx" \in fs.there /\ fs.mbx = fs.new.mbx
    <3>1. Head(moves) = In("mbc") /\ Tail(moves) = Left2
      BY <2>5 DEF Left3, Left2
    <3>2. /\ fs'.there = fs.there \cup {"mbc"} /\ fs'.new = fs.new
          /\ fs'.old = fs.old /\ fs'.mbx = fs.mbx
          /\ fs'.mbc = fs.new.mbc /\ fs'.mbi = fs.mbi
          /\ newer' \subseteq {"mbx", "mbc"} /\ hidden' \subseteq {"mbx", "mbc"}
          /\ newer' \cap hidden' = {}
      BY <1>3, <3>1, ArrivesIs
    <3>3. Texts' = Texts
      BY <2>5, <3>2 DEF Texts
    <3>4. "mbi" \notin fs'.there /\ ~Readable'
      BY <2>5, <3>2 DEF Readable
    <3> QED BY <1>1, <1>3, <1>6, <2>5, <3>1, <3>2, <3>3, <3>4
  <2>6. CASE /\ moves = Left2 /\ "mbi" \notin fs.there
             /\ "mbx" \in fs.there /\ fs.mbx = fs.new.mbx /\ fs.mbc = fs.new.mbc
    <3>1. Head(moves) = In("mbi") /\ Tail(moves) = <<Drop>>
      BY <2>6 DEF Left2
    <3>2. /\ fs'.there = fs.there \cup {"mbi"} /\ fs'.new = fs.new
          /\ fs'.old = fs.old /\ fs'.mbx = fs.mbx
          /\ fs'.mbc = fs.mbc /\ fs'.mbi = fs.new.mbi
          /\ newer' \subseteq {"mbx", "mbc"} /\ hidden' \subseteq {"mbx", "mbc"}
          /\ newer' \cap hidden' = {}
      BY <1>3, <3>1, ArrivesIs
    <3>3. Texts' = Texts
      BY <2>6, <3>2 DEF Texts
    <3> QED BY <1>1, <1>3, <1>5, <1>6, <2>6, <3>1, <3>2, <3>3
  <2>7. CASE /\ moves = <<Drop>> /\ "mbx" \in fs.there
             /\ fs.mbx = fs.new.mbx /\ fs.mbc = fs.new.mbc
    <3>1. Head(moves) = Drop /\ Tail(moves) = << >>
      BY <2>7
    <3>2. /\ fs'.there = fs.there /\ fs'.new = fs.new /\ fs'.old = << >>
          /\ fs'.mbx = fs.mbx /\ fs'.mbc = fs.mbc /\ fs'.mbi = fs.mbi
          /\ newer' = newer /\ hidden' = hidden
      BY <3>1, DropIs
    <3>3. Texts' = Texts
      BY <2>7, <3>2 DEF Texts
    <3>4. fs.mbi = fs.new.mbi
      <4> HIDE DEF Goal
      <4>1. /\ moves # Left7 /\ moves # Left6 /\ moves # Left5
            /\ moves # Left4 /\ moves # Left3 /\ moves # Left2
        <5>1. Len(moves) = 1
          BY <2>7
        <5> QED BY <5>1 DEF Left7, Left6, Left5, Left4, Left3, Left2
      <4>2. \/ moves \in {Left7, Left6, Left5, Left4, Left3}
            \/ moves = Left2
            \/ fs.mbi = fs.new.mbi
        BY Zenon DEF IInv, Renames, Left7, Left6, Left5, Left4, Left3, Left2
      <4> QED BY <4>1, <4>2
    <3> QED BY <1>1, <1>2, <1>3, <1>5, <1>6, <2>7, <3>1, <3>2, <3>3, <3>4
  <2> QED BY <1>1, <2>1, <2>2, <2>3, <2>4, <2>5, <2>6, <2>7 DEF FInv, Moved
<1>8. FileTypes'
  BY <1>1, <1>7 DEF FInv, FileTypes, Rebuilding
<1>9. StateTypes'
  BY <1>1, <1>7 DEF FInv, StateTypes
<1>10. Stored'
  <2>1. Holds(Texts)'
    BY <1>1, <1>4, <1>7 DEF Holds
  <2> QED BY <1>1, <1>2, <2>1 DEF Stored, Rebuilding, Unflushed, Flushed
<1>11. Moved'
  <2>1. Holds(fs.new.mbx)'
    BY <1>1, <1>4, <1>7 DEF Holds
  <2> QED BY <1>1, <1>4, <1>7, <2>1 DEF Moved
<1>12. Older'
  BY <1>1 DEF Older, Unflushed, Flushed
<1>13. Viewed'
  <2>1. ~trusted => Describes(fs.new.mbi.recs, fs.new.mbx, fs.new.mbc, kept)
    BY DEF FInv, Viewed
  <2> QED BY <1>1, <1>7, <2>1 DEF Viewed, Rebuilding, Unflushed, Flushed
<1> QED BY <1>8, <1>9, <1>10, <1>11, <1>12, <1>13 DEF FInv

LEMMA RenameFileFiles == ASSUME IInv, FInv, RenameFile PROVE FInv'
BY RollbackMoves, ExpungeMoves DEF RenameFile

LEMMA ExpungedFiles == ASSUME IInv, FInv, Expunged PROVE FInv'
<1>1. /\ pc = "expunge" /\ moves = << >> /\ pc' = "idle" /\ goal' = goal
      /\ faults' = faults /\ newer' = {} /\ hidden' = {}
      /\ mIndexList' = fs.mbi.recs /\ late' = late /\ kept' = kept
      /\ trusted' = trusted /\ astray' = astray
  BY DEF Expunged, Modified
<1>2. Readable /\ fs.mbi = fs.new.mbi /\ fs.mbi.size = Len(mIndexList)
  BY <1>1 DEF IInv, Renames
<1>3. "mbx" \in fs.there /\ fs.mbx = fs.new.mbx /\ fs.mbc = fs.new.mbc
  <2>1. /\ moves # Left7 /\ moves # Left6 /\ moves # Left5
        /\ moves # Left4 /\ moves # Left3 /\ moves # Left2
    <3>1. Len(moves) = 0
      BY <1>1
    <3> QED BY <3>1 DEF Left7, Left6, Left5, Left4, Left3, Left2
  <2> QED BY <1>1, <2>1 DEF FInv, Moved
<1>4. fs.mbi \in MbxIndex /\ fs.mbi.recs \in Seq(Record) /\ Len(fs.mbi.recs) \in Nat
      /\ Len(mIndexList) \in Nat
  BY Quoted, IndexTypes
<1>5. /\ fs'.there = fs.there /\ fs'.old = fs.old /\ fs'.new = << >>
      /\ fs'.mbx = fs.mbx /\ fs'.mbc = fs.mbc
      /\ fs'.mbi = [fs.mbi EXCEPT !.size = Len(fs.mbi.recs)]
  <2>1. fs.mbi.size - (Len(mIndexList) - Len(fs.mbi.recs)) = Len(fs.mbi.recs)
    BY <1>2, <1>4
  <2> DEFINE size == fs.mbi.size - (Len(mIndexList) - Len(fs.mbi.recs))
             i == [fs.mbi EXCEPT !.size = size]
  <2>2. fs' = [there |-> fs.there, old |-> fs.old, new |-> << >>,
               mbx |-> fs.mbx, mbc |-> fs.mbc, mbi |-> i]
    BY DEF Expunged, IInv, Disk
  <2>3. size = Len(fs.mbi.recs)
    BY <2>1
  <2> HIDE DEF size
  <2> QED BY <2>2, <2>3
<1>6. fs'.mbi \in MbxIndex /\ fs'.mbi.recs = fs.mbi.recs
  <2>1. \A n \in Nat : /\ [fs.mbi EXCEPT !.size = n] \in MbxIndex
                       /\ [fs.mbi EXCEPT !.size = n].recs = fs.mbi.recs
    BY <1>4, IndexTypes
  <2> QED BY <1>4, <1>5, <2>1
<1>7. ~trusted => Describes(fs.mbi.recs, fs.mbx, fs.mbc, kept)
  BY <1>1, <1>2, <1>3 DEF FInv, Viewed
<1>8. late = << >> /\ "mbi" \in fs.there
  BY <1>1, <1>2 DEF IInv, Control, Readable
<1>9. FileTypes'
  BY <1>1, <1>5, <1>6 DEF FInv, FileTypes, Rebuilding
<1>10. StateTypes'
  BY <1>1, <1>4 DEF FInv, StateTypes
<1>11. Stored'
  <2>1. Holds(Texts)'
    BY <1>1, <1>3, <1>5 DEF FInv, Stored, Holds, Texts
  <2> QED BY <1>1, <1>3, <1>5, <1>8, <2>1 DEF Stored, Unflushed, Flushed
<1>12. Moved'
  BY <1>1, <1>3, <1>5, <1>8 DEF Moved
<1>13. Older'
  BY <1>1 DEF Older, Unflushed, Flushed
<1>14. Viewed'
  BY <1>1, <1>5, <1>6, <1>7 DEF Viewed, Rebuilding, Unflushed, Flushed
<1> QED BY <1>9, <1>10, <1>11, <1>12, <1>13, <1>14 DEF FInv

LEMMA CreateMboxFiles == ASSUME IInv, FInv, CreateMbox PROVE FInv'
<1>1. pc = "created" /\ Reconstruct(goal)
  BY DEF CreateMbox
<1>2. "mbx" \in fs.there /\ goal \in {"none", "select", "append"}
  BY <1>1 DEF FInv, Stored, StateTypes
<1> QED BY <1>1, <1>2, ReconstructFiles

LEMMA SelectMboxFiles == ASSUME IInv, FInv, SelectMbox PROVE FInv'
BY TouchMboxFiles, ValidateCacheFiles DEF SelectMbox

LEMMA InitFInv == Init => FInv
<1> SUFFICES ASSUME Init PROVE FInv
  OBVIOUS
<1> DEFINE n == Len(StartMsgs)
           flag == [k \in 1..n |-> FALSE]
           uid == [k \in 1..n |-> k]
<1>1. /\ pc = "closed" /\ goal = "none" /\ mIndexList = << >> /\ late = << >>
      /\ newer = {} /\ hidden = {} /\ kept = Range(StartMsgs)
      /\ trusted = FALSE /\ astray = FALSE /\ faults = 0
      /\ fs.there = Files /\ fs.old = << >> /\ fs.new = << >>
      /\ fs.mbx = StartMsgs /\ fs.mbc = StartMsgs /\ fs.mbi = FreshIndex(n)
  BY DEF Init
<1>2. StartMsgs \in Seq(Msgs) /\ MaxFaults \in Nat
  BY LocalMailboxAssumption
<1>3. n \in Nat /\ DOMAIN StartMsgs = 1..n /\ StartMsgs \in [1..n -> Msgs]
  BY <1>2, LenProperties, ElementOfSeq
<1>4. Msgs \subseteq Text /\ Text \subseteq Entry
  BY DEF Text, Entry
<1>5. StartMsgs \in [1..n -> Text] /\ StartMsgs \in [1..n -> Entry]
  BY <1>3, <1>4
<1> HIDE DEF n
<1>6. StartMsgs \in Seq(Text) /\ StartMsgs \in Seq(Entry)
  BY <1>3, <1>5, SeqDef
<1>7. Range(StartMsgs) \subseteq Msgs
  BY <1>3 DEF Range
<1>8. FreshIndex(n) \in MbxIndex /\ FreshIndex(n).recs = InOrder(n, flag, uid)
  BY <1>3, FreshTypes DEF FreshIndex, Index
<1>9. Describes(fs.mbi.recs, fs.mbx, fs.mbc, kept)
  <2> HIDE DEF flag, uid
  <2>1. Describes(InOrder(n, flag, uid), StartMsgs, StartMsgs, Range(StartMsgs))
    BY <1>6, DescribesInOrder DEF n
  <2> QED BY <1>1, <1>8, <2>1
<1>10. FileTypes
  BY <1>1, <1>6, <1>8, EmptySeq DEF FileTypes, Rebuilding
<1>11. StateTypes
  <2>1. << >> \in Seq(Record) /\ Len(<< >>) <= 1
    BY EmptySeq
  <2>2. 0 \in 0..MaxFaults
    BY <1>2
  <2> HIDE DEF flag, uid
  <2> QED BY <1>1, <1>7, <2>1, <2>2 DEF StateTypes
<1>12. "mbx" \in Files /\ "mbi" \in Files
  BY DEF Files
<1>13. Stored
  <2>1. Holds(Texts)
    BY <1>1, <1>12 DEF Holds, Texts
  <2> QED BY <1>1, <2>1 DEF Stored, Rebuilding, Unflushed, Flushed
<1>14. Moved /\ Older
  BY <1>1, <1>12 DEF Moved, Older, Unflushed, Flushed
<1>15. Viewed
  BY <1>1, <1>9 DEF Viewed, Rebuilding, Unflushed, Flushed
<1> QED BY <1>10, <1>11, <1>13, <1>14, <1>15 DEF FInv

LEMMA StutterFiles == ASSUME FInv, UNCHANGED vars PROVE FInv'
<1>1. /\ fs' = fs /\ newer' = newer /\ hidden' = hidden /\ pc' = pc /\ goal' = goal
      /\ mIndexList' = mIndexList /\ late' = late /\ moves' = moves /\ kept' = kept
      /\ known' = known /\ trusted' = trusted /\ astray' = astray /\ faults' = faults
  BY DEF vars, timeVars, memVars, auxVars
<1>2. /\ Texts' = Texts /\ Indexed' = Indexed /\ WithLate' = WithLate
      /\ Cached' = Cached /\ AsOld' = AsOld /\ Readable' = Readable
      /\ FlushedCache' = FlushedCache /\ Unused' = Unused
  BY <1>1 DEF Texts, Indexed, WithLate, Cached, AsOld, Readable, FlushedCache, Unused
<1>3. (Counted' <=> Counted) /\ \A s : Holds(s)' <=> Holds(s)
  BY <1>1, <1>2 DEF Counted, Holds
<1>4. FileTypes' /\ StateTypes'
  BY <1>1 DEF FInv, FileTypes, StateTypes
<1>5. Stored'
  <2>1. Holds(Texts)' /\ (pc \in Unflushed \cup Flushed => Holds(Indexed)')
    BY <1>1, <1>2 DEF FInv, Stored, Holds
  <2> QED BY <1>1, <1>2, <2>1 DEF FInv, Stored
<1>6. Moved'
  BY <1>1 DEF FInv, Moved, Holds
<1>7. Older'
  BY <1>1, <1>2 DEF FInv, Older
<1>8. Viewed'
  BY <1>1, <1>2, <1>3 DEF FInv, Viewed
<1> QED BY <1>4, <1>5, <1>6, <1>7, <1>8 DEF FInv

-----------------------------------------------------------------------------
(* The files and what is kept of them are consistent in every state: every *)
(* step of an append, an expunge and a reconstruction leaves what the next *)
(* needs, wherever the program dies.                                       *)
THEOREM FilesInductive == Spec => [](IInv /\ FInv)
<1>1. Init => FInv
  BY InitFInv
<1>2. ASSUME IInv, FInv, [Next]_vars PROVE FInv'
  <2>1. CASE Next
    BY <1>2, <2>1, SelectMboxFiles, CreateMboxFiles, RebuildMboxFiles, CloseMboxFiles,
       RewriteCacheFiles, TruncateIndexFiles, RewriteHeaderFiles, RewriteRecordsFiles,
       StartAppendFiles, WriteTextFiles, WriteRestFiles, ReadIndexHeaderFiles,
       WriteEntryFiles, WriteLocalUIDNextFiles, WriteIndexSizeFiles, NextAppendFiles,
       StopAppendFiles, SyncAppendFiles, RollbackAppendFiles, RolledBackFiles,
       SetFlagFiles, ExpungeMessageFiles, RenameFileFiles, ExpungedFiles, CrashFiles
    DEF Next
  <2>2. CASE UNCHANGED vars
    BY <1>2, <2>2, StutterFiles
  <2> QED BY <1>2, <2>1, <2>2
<1> QED BY <1>1, <1>2, Inductive, PTL DEF Spec

(* Whatever crash there is, no file, offset, size or local UID is anything *)
(* but what its type is (all the operations of CLocalClient on the files). *)
THEOREM TypeCorrect == Spec => []TypeOK
<1>1. ASSUME IInv, FInv PROVE TypeOK
  <2>1. DOMAIN fs = Files \cup {"there", "old", "new"}
    BY <1>1 DEF IInv, Disk, Files
  <2>2. Made
    BY <1>1 DEF FInv, FileTypes, Made, Made1, Made2, Made3, Entry
  <2>3. open \in BOOLEAN /\ clean \in BOOLEAN
    BY <1>1 DEF IInv, Control
  <2> QED BY <1>1, <2>1, <2>2, <2>3 DEF FInv, FileTypes, StateTypes, TypeOK, Entry
<1> QED BY <1>1, FilesInductive, PTL

(* No crash loses a message: what was appended and not expunged is in the  *)
(* mailbox file, or in the one it was renamed to (AppendMessage, Expunge-  *)
(* Message, RollbackAppend, Reconstruct).                                  *)
THEOREM NothingIsLost == Spec => []NothingLost
<1>1. ASSUME FInv PROVE NothingLost
  BY <1>1 DEF FInv, Stored, Holds, Texts, NothingLost
<1> QED BY <1>1, FilesInductive, PTL

(* An open mailbox shows of each message what the mailbox file has of it,  *)
(* unless an index is in use that is not what the files are: an expunge    *)
(* moves the offsets as it moves the messages, an append counts a record   *)
(* only with all that it stands for, a reconstruction makes all anew.      *)
THEOREM ViewsAreSound == Spec => []ViewSound
<1>1. ASSUME FInv PROVE ViewSound
  <2> SUFFICES ASSUME pc = "idle", ~trusted, NEW k \in DOMAIN mIndexList
               PROVE  /\ mIndexList[k].start < Len(fs.mbx)
                      /\ Shown(mIndexList[k]) = fs.mbx[mIndexList[k].start + 1]
    BY DEF ViewSound
  <2>1. Describes(mIndexList, fs.mbx, fs.mbc, kept)
    BY <1>1 DEF FInv, Viewed
  <2>2. mIndexList[k].start < Len(fs.mbx)
    BY <2>1 DEF Describes
  <2>3. Shown(mIndexList[k]) = fs.mbx[mIndexList[k].start + 1]
    BY <1>1, <2>1, DescribedOffsets DEF FInv
  <2> QED BY <2>2, <2>3
<1> QED BY <1>1, FilesInductive, PTL
=============================================================================
