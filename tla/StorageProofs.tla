--------------------------- MODULE StorageProofs ---------------------------
(***************************************************************************)
(* The log store, for any keys, batches, faults and number of records: it  *)
(* implements a map that a crash may set back, and what it keeps in memory *)
(* is what replay would find.                                              *)
(***************************************************************************)
EXTENDS FileDB, FiniteSetTheorems, SequenceTheorems, WellFoundedInduction, TLAPS

-----------------------------------------------------------------------------
(* Induction, in the form of least and greatest elements.                  *)

LessThan == {p \in Nat \X Nat : p[1] < p[2]}

(* A set of natural numbers has a least element. *)
LEMMA LeastNat ==
    ASSUME NEW T \in SUBSET Nat, T # {}
    PROVE  \E x \in T : \A y \in T : x <= y
  <1>1. IsWellFoundedOn(LessThan, Nat)
    BY NatLessThanWellFounded, Zenon DEF OpToRel, LessThan
  <1>2. PICK x \in T : \A y \in T : <<y, x>> \notin LessThan
    BY <1>1, WFMin, Zenon
  <1>3. \A y \in T : ~(y < x)
    BY <1>2, Zenon DEF LessThan
  <1> QED BY <1>3

(* Three pieces of a log make it in either order. *)
LEMMA ThreePieces ==
    ASSUME NEW s \in Seq(Record), NEW t \in Seq(Record), NEW u \in Seq(Record)
    PROVE  (s \o t) \o u = s \o (t \o u)
  BY ConcatAssociative

(* A bounded one has a greatest. *)
LEMMA MaxExists ==
    ASSUME NEW n \in Nat, NEW S \in SUBSET (0..n), S # {}
    PROVE  Max(S) \in S /\ \A y \in S : y <= Max(S)
  <1> DEFINE T == {m \in Nat : \A y \in S : y <= m}
  <1>1. n \in T /\ T \in SUBSET Nat
    OBVIOUS
  <1>2. PICK m \in T : \A k \in T : m <= k
    BY <1>1, LeastNat, Zenon
  <1>3. m \in S
    <2> SUFFICES ASSUME m \notin S PROVE FALSE
      OBVIOUS
    <2>1. \A y \in S : y \in Nat /\ y <= m /\ y # m
      OBVIOUS
    <2>2. m # 0
      <3>1. PICK y \in S : TRUE
        BY Zenon
      <3> QED BY <2>1, <3>1
    <2>3. m - 1 \in Nat /\ \A y \in S : y <= m - 1
      BY <2>1, <2>2
    <2> QED BY <1>2, <2>3
  <1>4. \E x \in S : \A y \in S : x >= y
    BY <1>3
  <1>5. Max(S) \in S /\ \A y \in S : Max(S) >= y
    BY <1>4, Zenon DEF Max
  <1> QED BY <1>5

(* The greatest element is the one that is above the others. *)
LEMMA MaxIs ==
    ASSUME NEW S \in SUBSET Int, NEW m \in S, \A y \in S : y <= m
    PROVE  Max(S) = m
  <1>1. Max(S) \in S /\ \A y \in S : Max(S) >= y
    BY Zenon DEF Max
  <1>2. Max(S) \in Int /\ m \in Int /\ Max(S) >= m /\ Max(S) <= m
    BY <1>1, Zenon
  <1> QED BY <1>2

-----------------------------------------------------------------------------
(* What a log stands for.                                                  *)

(* The offsets of a key, and the last of them. *)
LEMMA OffsetsFacts ==
    ASSUME NEW log \in Seq(Record), NEW k
    PROVE  /\ Len(log) \in Nat /\ Offsets(log, k) \in SUBSET (1..Len(log))
           /\ IsFiniteSet(Offsets(log, k))
           /\ Offsets(log, k) # {} =>
                 /\ Max(Offsets(log, k)) \in Offsets(log, k)
                 /\ \A i \in Offsets(log, k) : i <= Max(Offsets(log, k))
  <1>1. Len(log) \in Nat
    OBVIOUS
  <1>2. Offsets(log, k) \in SUBSET (1..Len(log)) /\ Offsets(log, k) \in SUBSET (0..Len(log))
    BY <1>1 DEF Offsets
  <1>3. IsFiniteSet(Offsets(log, k))
    <2>1. IsFiniteSet(1..Len(log))
      BY <1>1, FS_Interval
    <2> QED BY <1>2, <2>1, FS_Subset
  <1> QED BY <1>1, <1>2, <1>3, MaxExists, Zenon

(* A record is written behind the others ... *)
LEMMA OffsetsAppend ==
    ASSUME NEW log \in Seq(Record), NEW r \in Record, NEW k
    PROVE  Offsets(Append(log, r), k)
             = IF k = r.key THEN Offsets(log, k) \cup {Len(log) + 1} ELSE Offsets(log, k)
  <1>1. Len(log) \in Nat /\ Len(Append(log, r)) = Len(log) + 1 /\ Append(log, r)[Len(log) + 1] = r
    OBVIOUS
  <1>2. \A i \in 1..Len(log) : Append(log, r)[i] = log[i]
    OBVIOUS
  <1>3. 1..(Len(log) + 1) = 1..Len(log) \cup {Len(log) + 1}
    BY <1>1
  <1> HIDE DEF Record
  <1> QED BY <1>1, <1>2, <1>3 DEF Offsets

(* ... and counts from then on. *)
LEMMA ContentsAppend ==
    ASSUME NEW log \in Seq(Record), NEW r \in Record
    PROVE  /\ Contents(Append(log, r)) = [Contents(log) EXCEPT ![r.key] = r.val]
           /\ ReplayIndex(Append(log, r))
                = [ReplayIndex(log) EXCEPT ![r.key] = IF r.val = Absent THEN 0 ELSE Len(log) + 1]
  <1> DEFINE n == Len(log) + 1
             new == Append(log, r)
  <1>0. n \in Nat /\ new \in Seq(Record) /\ Len(new) = n /\ new[n] = r /\ r.key \in Keys
    BY DEF Record
  <1>1. \A i \in 1..Len(log) : new[i] = log[i]
    OBVIOUS
  <1> HIDE DEF new
  <1>2. Offsets(new, r.key) = Offsets(log, r.key) \cup {n}
    BY OffsetsAppend DEF new
  <1>3. Max(Offsets(new, r.key)) = n
    <2>1. Offsets(log, r.key) \in SUBSET (1..Len(log)) /\ Len(log) \in Nat
      BY OffsetsFacts
    <2>2. Offsets(new, r.key) \in SUBSET Int /\ n \in Offsets(new, r.key)
          /\ \A y \in Offsets(new, r.key) : y <= n
      BY <1>2, <2>1
    <2> QED BY <2>2, MaxIs
  <1>4. Contents(new)[r.key] = r.val
    BY <1>0, <1>2, <1>3, Zenon DEF Contents
  <1>5. ASSUME NEW k \in Keys, k # r.key
        PROVE  Contents(new)[k] = Contents(log)[k] /\ Offsets(new, k) = Offsets(log, k)
    <2>1. Offsets(new, k) = Offsets(log, k)
      BY <1>5, OffsetsAppend DEF new
    <2>2. Offsets(log, k) # {} => Max(Offsets(log, k)) \in 1..Len(log)
      BY OffsetsFacts
    <2>3. Offsets(log, k) # {} => new[Max(Offsets(log, k))] = log[Max(Offsets(log, k))]
      BY <1>1, <2>2
    <2> QED BY <2>1, <2>3 DEF Contents
  <1>6. Contents(new) = [Contents(log) EXCEPT ![r.key] = r.val]
    BY <1>0, <1>4, <1>5, Zenon DEF Contents
  <1>7. ReplayIndex(new)[r.key] = IF r.val = Absent THEN 0 ELSE n
    BY <1>0, <1>3, <1>4 DEF ReplayIndex
  <1>8. ASSUME NEW k \in Keys, k # r.key PROVE ReplayIndex(new)[k] = ReplayIndex(log)[k]
    BY <1>5, <1>8 DEF ReplayIndex
  <1>9. ReplayIndex(new) = [ReplayIndex(log) EXCEPT ![r.key] = IF r.val = Absent THEN 0 ELSE n]
    BY <1>0, <1>7, <1>8, Zenon DEF ReplayIndex
  <1> QED BY <1>6, <1>9 DEF new

(* A record makes one more dead if its key had a value. *)
LEMMA DeadAppend ==
    ASSUME NEW log \in Seq(Record), NEW r \in Record
    PROVE  /\ ReplayDead(log) \in Nat
           /\ ReplayDead(Append(log, r))
                = ReplayDead(log) + (IF ReplayIndex(log)[r.key] # 0 THEN 1 ELSE 0)
  <1> DEFINE n == Len(log) + 1
             new == Append(log, r)
             Comes(l, i) == \E j \in 1..(i-1) : /\ l[j].key = l[i].key /\ l[j].val # Absent
                                                /\ \A m \in (j+1)..(i-1) : l[m].key # l[i].key
             D == {i \in 1..Len(log) : Comes(log, i)}
             E == {i \in 1..Len(new) : Comes(new, i)}
             O == Offsets(log, r.key)
  <1>1. n \in Nat /\ Len(log) \in Nat /\ Len(new) = n /\ new[n] = r /\ r.key \in Keys
    BY DEF Record
  <1>2. \A i \in 1..Len(log) : new[i] = log[i]
    OBVIOUS
  <1>3. ReplayDead(log) = Cardinality(D) /\ ReplayDead(new) = Cardinality(E)
    BY DEF ReplayDead
  <1>4. IsFiniteSet(D) /\ Cardinality(D) \in Nat
    <2>1. IsFiniteSet(1..Len(log)) /\ D \subseteq 1..Len(log)
      BY <1>1, FS_Interval
    <2> HIDE DEF D
    <2> QED BY <2>1, FS_Subset, FS_CardinalityType, Zenon
  <1> HIDE DEF new
  <1>5. \A i \in 1..Len(log) : Comes(new, i) <=> Comes(log, i)
    <2> TAKE i \in 1..Len(log)
    <2>1. \A j \in 1..(i-1) : j \in 1..Len(log) /\ new[j] = log[j]
      BY <1>1, <1>2
    <2>2. \A j \in 1..(i-1) : \A m \in (j+1)..(i-1) : m \in 1..(i-1)
      BY <1>1
    <2>3. new[i] = log[i]
      BY <1>2
    <2> QED BY <2>1, <2>2, <2>3
  <1>6. Comes(new, n) <=> ReplayIndex(log)[r.key] # 0
    <2>1. O \in SUBSET (1..Len(log)) /\ (O # {} => Max(O) \in O /\ \A i \in O : i <= Max(O))
      BY OffsetsFacts
    <2>2. \A j \in 1..(n-1) : j \in 1..Len(log) /\ new[j] = log[j]
      BY <1>1, <1>2
    <2>3. \A j \in 1..Len(log) : j \in O <=> log[j].key = r.key
      BY DEF Offsets
    <2>4. ReplayIndex(log)[r.key] # 0 <=> O # {} /\ log[Max(O)].val # Absent
      BY <1>1, <2>1 DEF ReplayIndex, Contents
    <2>5. ASSUME O # {}, log[Max(O)].val # Absent PROVE Comes(new, n)
      <3>1. Max(O) \in 1..(n-1) /\ new[Max(O)] = log[Max(O)] /\ log[Max(O)].key = r.key
        BY <1>1, <2>1, <2>2, <2>3, <2>5
      <3>2. \A m \in (Max(O)+1)..(n-1) : m \in 1..Len(log) /\ m \notin O
        BY <1>1, <2>1, <2>5, <3>1
      <3> HIDE DEF O
      <3> QED BY <1>1, <2>2, <2>3, <2>5, <3>1, <3>2
    <2>6. ASSUME Comes(new, n) PROVE O # {} /\ log[Max(O)].val # Absent
      <3>1. PICK j \in 1..(n-1) : /\ new[j].key = r.key /\ new[j].val # Absent
                                  /\ \A m \in (j+1)..(n-1) : new[m].key # r.key
        BY <1>1, <2>6
      <3>2. j \in 1..Len(log) /\ new[j] = log[j] /\ j \in O
        BY <1>1, <2>2, <2>3, <3>1
      <3>3. \A m \in O : m <= j
        BY <1>1, <2>1, <2>2, <2>3, <3>1, <3>2
      <3>4. Max(O) = j
        BY <2>1, <3>2, <3>3, MaxIs
      <3> QED BY <3>1, <3>2, <3>4
    <2> QED BY <2>4, <2>5, <2>6
  <1>7. E = IF ReplayIndex(log)[r.key] # 0 THEN D \cup {n} ELSE D
    <2>1. 1..n = 1..Len(log) \cup {n}
      BY <1>1
    <2> HIDE DEF Comes
    <2> QED BY <1>1, <1>5, <1>6, <2>1
  <1>8. n \notin D
    BY <1>1
  <1> HIDE DEF D, E, n
  <1>9. Cardinality(D \cup {n}) = Cardinality(D) + 1
    BY <1>4, <1>8, FS_AddElement, Zenon
  <1>10. CASE ReplayIndex(log)[r.key] # 0
    BY <1>3, <1>4, <1>7, <1>9, <1>10 DEF new
  <1>11. CASE ReplayIndex(log)[r.key] = 0
    BY <1>3, <1>4, <1>7, <1>11 DEF new
  <1> QED BY <1>10, <1>11

-----------------------------------------------------------------------------
(* Compaction.                                                             *)

(* s lists keys in order. *)
Rising(s, keys) ==
    s \in [1..Cardinality(keys) -> keys] /\ \A i, j \in 1..Cardinality(keys) : i < j => s[i] < s[j]

(* A finite set of numbers can be listed in order, by induction on its size: *)
(* the least first, then the others.                                        *)
LEMMA RisingExists ==
    ASSUME NEW K \in SUBSET Nat, IsFiniteSet(K)
    PROVE  \E s : Rising(s, K)
  <1> DEFINE Bad == {n \in Nat : \E S \in SUBSET Nat :
                        IsFiniteSet(S) /\ Cardinality(S) = n /\ ~\E s : Rising(s, S)}
  <1>1. SUFFICES Bad = {}
    <2>1. Cardinality(K) \in Nat
      BY FS_CardinalityType
    <2> QED BY <1>1, <2>1
  <1> SUFFICES ASSUME Bad # {} PROVE FALSE
    OBVIOUS
  <1>2. PICK n \in Bad : \A m \in Bad : n <= m
    BY LeastNat, Zenon
  <1>3. PICK S \in SUBSET Nat : IsFiniteSet(S) /\ Cardinality(S) = n /\ ~\E s : Rising(s, S)
    BY <1>2
  <1>4. n \in Nat
    BY <1>2
  <1>5. S # {}
    <2> SUFFICES ASSUME S = {} PROVE FALSE
      OBVIOUS
    <2>1. n = 0
      BY <1>3, FS_EmptySet
    <2>2. Rising([i \in 1..0 |-> 0], S)
      BY <1>3, <2>1 DEF Rising
    <2> QED BY <1>3, <2>2
  <1>6. PICK x \in S : \A y \in S : x <= y
    BY <1>5, LeastNat
  <1> DEFINE T == S \ {x}
  <1>7. T \in SUBSET Nat /\ IsFiniteSet(T) /\ Cardinality(T) = n - 1 /\ n - 1 \in Nat
    <2>1. IsFiniteSet(T) /\ Cardinality(T) = n - 1
      BY <1>3, <1>6, FS_RemoveElement
    <2>2. Cardinality(T) \in Nat
      BY <2>1, FS_CardinalityType
    <2> QED BY <2>1, <2>2
  <1>8. n - 1 \notin Bad
    BY <1>2, <1>4, <1>7
  <1>9. PICK t : Rising(t, T)
    BY <1>7, <1>8
  <1> HIDE DEF Bad
  <1> DEFINE s == [i \in 1..n |-> IF i = 1 THEN x ELSE t[i - 1]]
  <1>10. \A i \in 1..(n-1) : t[i] \in T
    BY <1>7, <1>9, Zenon DEF Rising
  <1>11. \A i \in 1..n : i # 1 => i - 1 \in 1..(n-1)
    BY <1>4
  <1>12. s \in [1..n -> S]
    BY <1>6, <1>10, <1>11
  <1>13. \A y \in T : y \in Nat /\ x \in Nat /\ x < y
    BY <1>6, <1>7
  <1>14. ASSUME NEW i \in 1..n, NEW j \in 1..n, i < j PROVE s[i] < s[j]
    <2>1. j # 1 /\ s[j] = t[j-1] /\ j - 1 \in 1..(n-1)
      BY <1>4, <1>11, <1>14
    <2>2. CASE i = 1
      BY <1>10, <1>13, <2>1, <2>2, Zenon
    <2>3. CASE i # 1
      <3>1. i - 1 \in 1..(n-1) /\ i - 1 < j - 1
        BY <1>4, <1>11, <1>14, <2>3
      <3> QED BY <1>7, <1>9, <2>1, <2>3, <3>1, Zenon DEF Rising
    <2> QED BY <2>2, <2>3
  <1>15. Rising(s, S)
    <2> HIDE DEF s
    <2> QED BY <1>3, <1>12, <1>14 DEF Rising
  <1> QED BY <1>3, <1>15

(* InOrder lists every key once. *)
LEMMA InOrderLists ==
    ASSUME NEW K \in SUBSET Nat, IsFiniteSet(K)
    PROVE  /\ Cardinality(K) \in Nat /\ InOrder(K) \in [1..Cardinality(K) -> K]
           /\ \A i, j \in 1..Cardinality(K) : i # j => InOrder(K)[i] # InOrder(K)[j]
           /\ \A k \in K : \E i \in 1..Cardinality(K) : InOrder(K)[i] = k
  <1> DEFINE n == Cardinality(K)
             s == InOrder(K)
  <1>1. n \in Nat
    BY FS_CardinalityType
  <1>2. s \in [1..n -> K] /\ \A i, j \in 1..n : i < j => s[i] < s[j]
    <2>1. PICK t : Rising(t, K)
      BY RisingExists
    <2> QED BY <2>1, Zenon DEF InOrder, Rising
  <1> HIDE DEF s
  <1>3. \A i, j \in 1..n : i # j => s[i] # s[j]
    <2> SUFFICES ASSUME NEW i \in 1..n, NEW j \in 1..n, i # j PROVE s[i] # s[j]
      OBVIOUS
    <2> HIDE DEF n
    <2>1. s[i] \in Nat /\ s[j] \in Nat
      BY <1>2, Zenon
    <2>2. i < j \/ j < i
      BY <1>1
    <2> QED BY <1>2, <2>1, <2>2
  <1>4. IsFiniteSet(1..n) /\ Cardinality(1..n) = n
    <2>1. Cardinality(1..n) = IF 1 > n THEN 0 ELSE n - 1 + 1
      BY <1>1, FS_Interval
    <2>2. IsFiniteSet(1..n)
      BY <1>1, FS_Interval
    <2> QED BY <1>1, <2>1, <2>2
  <1>5. s \in Injection(1..n, K)
    BY <1>2, <1>3 DEF Injection, IsInjective
  <1>6. s \in Surjection(1..n, K)
    BY <1>4, <1>5, FS_Injection
  <1>7. \A k \in K : \E i \in 1..n : s[i] = k
    BY <1>6 DEF Surjection
  <1> QED BY <1>1, <1>2, <1>3, <1>7 DEF s

(* What a compacted log is like: one record for a key, and none deletes. *)
Compacted(log) ==
    /\ \A i, j \in 1..Len(log) : log[i].key = log[j].key => i = j
    /\ \A i \in 1..Len(log) : log[i].val # Absent

(* The records that Compact reads through the index stand for the same map. *)
LEMMA LiveRecordsSuffice ==
    ASSUME Log \in Seq(Record), index = ReplayIndex(Log)
    PROVE  LiveRecords \in Seq(Record) /\ Compacted(LiveRecords) /\ Contents(LiveRecords) = Contents(Log)
  <1> DEFINE K == LiveKeys
             n == Cardinality(K)
             o == InOrder(K)
             live == [i \in 1..n |-> Log[index[o[i]]]]
             M == Contents(Log)
  <1>1. K \in SUBSET Nat /\ IsFiniteSet(K) /\ K \subseteq Keys
    <2>1. K \subseteq Keys /\ IsFiniteSet(Keys) /\ Keys \subseteq Nat
      BY LogAssumption DEF LiveKeys
    <2> HIDE DEF K
    <2> QED BY <2>1, FS_Subset, Zenon
  <1>2. ASSUME NEW k \in Keys
        PROVE  /\ k \notin K => M[k] = Absent
               /\ k \in K => /\ index[k] \in 1..Len(Log) /\ Log[index[k]].key = k
                             /\ Log[index[k]].val = M[k] /\ M[k] # Absent
    <2> DEFINE O == Offsets(Log, k)
    <2>1. Len(Log) \in Nat /\ O \in SUBSET (1..Len(Log)) /\ (O # {} => Max(O) \in O)
      BY OffsetsFacts
    <2>2. \A i \in O : Log[i].key = k
      BY DEF Offsets
    <2>3. M[k] = IF O = {} THEN Absent ELSE Log[Max(O)].val
      BY DEF Contents
    <2>4. index[k] = IF M[k] = Absent THEN 0 ELSE Max(O)
      BY DEF ReplayIndex
    <2>5. k \in K <=> index[k] # 0
      BY DEF LiveKeys
    <2> HIDE DEF O, M, K
    <2>6. M[k] # Absent => O # {} /\ index[k] = Max(O) /\ index[k] \in O /\ Log[index[k]].val = M[k]
      BY <2>1, <2>3, <2>4
    <2>7. \A i \in O : i \in 1..Len(Log) /\ i # 0
      BY <2>1
    <2>8. M[k] = Absent => index[k] = 0
      BY <2>4
    <2> QED BY <2>2, <2>5, <2>6, <2>7, <2>8
  <1>3. /\ n \in Nat /\ \A i \in 1..n : o[i] \in K
        /\ \A i, j \in 1..n : i # j => o[i] # o[j]
        /\ \A k \in K : \E i \in 1..n : o[i] = k
    <2> HIDE DEF K
    <2> QED BY <1>1, InOrderLists
  <1>4. LiveRecords = live
    BY DEF LiveRecords
  <1> HIDE DEF K, n, o, M
  <1>5. \A i \in 1..n : live[i] \in Record /\ live[i].key = o[i] /\ live[i].val = M[o[i]] /\ live[i].val # Absent
    <2> TAKE i \in 1..n
    <2>1. o[i] \in K /\ o[i] \in Keys
      BY <1>1, <1>3, Zenon
    <2>2. index[o[i]] \in 1..Len(Log) /\ Log[index[o[i]]].key = o[i]
          /\ Log[index[o[i]]].val = M[o[i]] /\ M[o[i]] # Absent
      BY <1>2, <2>1
    <2>3. Log[index[o[i]]] \in Record
      BY <2>2
    <2> QED BY <2>2, <2>3
  <1>6. live \in Seq(Record) /\ Len(live) = n
    BY <1>3, <1>5
  <1>7. DOMAIN live = 1..n
    OBVIOUS
  <1> HIDE DEF live
  <1>8. Compacted(live)
    BY <1>3, <1>5, <1>6 DEF Compacted
  <1>9. ASSUME NEW k \in Keys PROVE Contents(live)[k] = M[k]
    <2>1. CASE k \in K
      <3>1. PICK i \in 1..n : o[i] = k
        BY <1>3, <2>1
      <3>2. Offsets(live, k) = {i}
        BY <1>3, <1>5, <1>6, <3>1 DEF Offsets
      <3>3. Max(Offsets(live, k)) = i
        <4>1. {i} \in SUBSET Int /\ i \in {i} /\ \A y \in {i} : y <= i
          BY <1>3
        <4> QED BY <3>2, <4>1, MaxIs, Zenon
      <3> QED BY <1>5, <3>1, <3>2, <3>3, Zenon DEF Contents
    <2>2. CASE k \notin K
      <3>1. Offsets(live, k) = {}
        BY <1>3, <1>5, <1>6, <2>2 DEF Offsets
      <3> QED BY <1>2, <2>2, <3>1 DEF Contents
    <2> QED BY <2>1, <2>2
  <1>10. Contents(live) = M
    BY <1>9 DEF Contents, M
  <1> QED BY <1>4, <1>6, <1>8, <1>10 DEF M

(* ... and the index made from them is the one that replay makes. *)
LEMMA CompactedReplay ==
    ASSUME NEW log \in Seq(Record), Compacted(log)
    PROVE  /\ ReplayIndex(log) = [k \in Keys |-> Max({0} \cup Offsets(log, k))]
           /\ ReplayDead(log) = 0
  <1>1. ASSUME NEW k \in Keys PROVE ReplayIndex(log)[k] = Max({0} \cup Offsets(log, k))
    <2> DEFINE O == Offsets(log, k)
    <2>1. Len(log) \in Nat /\ O \in SUBSET (1..Len(log))
          /\ (O # {} => Max(O) \in O /\ \A i \in O : i <= Max(O))
      BY OffsetsFacts
    <2>2. ReplayIndex(log)[k] = IF Contents(log)[k] = Absent THEN 0 ELSE Max(O)
      BY DEF ReplayIndex
    <2>3. Contents(log)[k] = IF O = {} THEN Absent ELSE log[Max(O)].val
      BY DEF Contents
    <2> HIDE DEF O
    <2>4. CASE O = {}
      <3>1. Max({0}) = 0
        <4>1. {0} \in SUBSET Int /\ 0 \in {0} /\ \A y \in {0} : y <= 0
          OBVIOUS
        <4> QED BY <4>1, MaxIs, Zenon
      <3>2. {0} \cup O = {0}
        BY <2>4
      <3> QED BY <2>2, <2>3, <2>4, <3>1, <3>2 DEF O
    <2>5. CASE O # {}
      <3>1. Max(O) \in 1..Len(log)
        BY <2>1, <2>5, Zenon
      <3>2. Contents(log)[k] # Absent
        BY <2>3, <2>5, <3>1 DEF Compacted
      <3>3. /\ {0} \cup O \in SUBSET Int /\ Max(O) \in {0} \cup O
            /\ \A y \in {0} \cup O : y <= Max(O)
        BY <2>1, <2>5, <3>1
      <3>4. Max({0} \cup O) = Max(O)
        BY <3>3, MaxIs, Zenon
      <3> QED BY <2>2, <3>2, <3>4 DEF O
    <2> QED BY <2>4, <2>5
  <1>2. ReplayIndex(log) = [k \in Keys |-> Max({0} \cup Offsets(log, k))]
    BY <1>1 DEF ReplayIndex
  <1>3. ReplayDead(log) = 0
    <2>1. {i \in 1..Len(log) :
              \E j \in 1..(i-1) : /\ log[j].key = log[i].key /\ log[j].val # Absent
                                  /\ \A n \in (j+1)..(i-1) : log[n].key # log[i].key} = {}
      BY DEF Compacted
    <2> QED BY <2>1, FS_EmptySet, Zenon DEF ReplayDead
  <1> QED BY <1>2, <1>3

-----------------------------------------------------------------------------
(* The maps a power loss may leave.                                        *)

(* The maps, and the maps that log may be set back to when s records are synced. *)
Maps == [Keys -> Vals \cup {Absent}]
Out(log, s) == [i \in 1..(Len(log) - s + 1) |-> Contents(SubSeq(log, 1, s + i - 1))]

(* A log stands for a map. *)
LEMMA ContentsIsMap ==
    ASSUME NEW log \in Seq(Record)
    PROVE  Contents(log) \in Maps
  <1> SUFFICES ASSUME NEW k \in Keys PROVE Contents(log)[k] \in Vals \cup {Absent}
    BY DEF Contents, Maps
  <1>1. Offsets(log, k) # {} => Max(Offsets(log, k)) \in 1..Len(log)
    BY OffsetsFacts
  <1>2. Offsets(log, k) # {} => log[Max(Offsets(log, k))] \in Record
    BY <1>1
  <1>3. Offsets(log, k) # {} => log[Max(Offsets(log, k))].val \in Vals \cup {Absent}
    BY <1>2 DEF Record
  <1> QED BY <1>3 DEF Contents

(* The beginnings of a log. *)
LEMMA Beginnings ==
    ASSUME NEW log \in Seq(Record)
    PROVE  /\ Len(log) \in Nat /\ SubSeq(log, 1, Len(log)) = log
           /\ \A n \in 0..Len(log) :
                 /\ SubSeq(log, 1, n) \in Seq(Record) /\ Len(SubSeq(log, 1, n)) = n
                 /\ \A m \in 0..n : SubSeq(SubSeq(log, 1, n), 1, m) = SubSeq(log, 1, m)
           /\ \A b \in Seq(Record) :
                 /\ log \o b \in Seq(Record) /\ Len(log \o b) = Len(log) + Len(b)
                 /\ \A m \in 0..Len(log) : SubSeq(log \o b, 1, m) = SubSeq(log, 1, m)
  <1>1. Len(log) \in Nat
    OBVIOUS
  <1>2. SubSeq(log, 1, Len(log)) = log
    OBVIOUS
  <1>3. ASSUME NEW n \in 0..Len(log)
        PROVE  SubSeq(log, 1, n) \in Seq(Record) /\ Len(SubSeq(log, 1, n)) = n
               /\ \A i \in 1..n : SubSeq(log, 1, n)[i] = log[i]
    <2>1. \A i \in 1..n : i \in 1..Len(log) /\ i + 1 - 1 = i
      BY <1>1
    <2> QED BY <1>1, <2>1
  <1>4. ASSUME NEW n \in 0..Len(log), NEW m \in 0..n
        PROVE  SubSeq(SubSeq(log, 1, n), 1, m) = SubSeq(log, 1, m)
    <2> DEFINE p == SubSeq(log, 1, n)
    <2>1. p \in Seq(Record) /\ Len(p) = n /\ \A i \in 1..n : p[i] = log[i]
      BY <1>3
    <2> HIDE DEF p
    <2>2. SubSeq(p, 1, m) = [i \in 1..m |-> p[i]] /\ SubSeq(log, 1, m) = [i \in 1..m |-> log[i]]
      BY <1>1, <2>1
    <2>3. \A i \in 1..m : p[i] = log[i]
      BY <1>1, <2>1
    <2> QED BY <2>2, <2>3 DEF p
  <1>5. ASSUME NEW b \in Seq(Record)
        PROVE  /\ log \o b \in Seq(Record) /\ Len(log \o b) = Len(log) + Len(b)
               /\ \A m \in 0..Len(log) : SubSeq(log \o b, 1, m) = SubSeq(log, 1, m)
    <2>1. log \o b \in Seq(Record) /\ Len(log \o b) = Len(log) + Len(b)
          /\ \A i \in 1..Len(log) : (log \o b)[i] = log[i]
      BY ConcatProperties
    <2> DEFINE p == log \o b
    <2> HIDE DEF p
    <2>2. ASSUME NEW m \in 0..Len(log) PROVE SubSeq(p, 1, m) = SubSeq(log, 1, m)
      <3>1. p \in Seq(Record) /\ Len(p) = Len(log) + Len(b) /\ Len(b) \in Nat
        BY <2>1 DEF p
      <3>2. SubSeq(p, 1, m) = [i \in 1..m |-> p[i]] /\ SubSeq(log, 1, m) = [i \in 1..m |-> log[i]]
        BY <1>1, <3>1
      <3>3. \A i \in 1..m : p[i] = log[i]
        BY <1>1, <2>1 DEF p
      <3> QED BY <3>2, <3>3
    <2> QED BY <2>1, <2>2 DEF p
  <1> QED BY <1>1, <1>2, <1>3, <1>4, <1>5

(* One map for each record that is not synced, and the last is the whole log's. *)
LEMMA OutFacts ==
    ASSUME NEW log \in Seq(Record), NEW s \in 0..Len(log)
    PROVE  /\ Len(log) \in Nat /\ Out(log, s) \in Seq(Maps) /\ Len(Out(log, s)) = Len(log) - s + 1
           /\ \A i \in 1..(Len(log) - s + 1) : Out(log, s)[i] = Contents(SubSeq(log, 1, s + i - 1))
           /\ Out(log, s)[Len(log) - s + 1] = Contents(log)
  <1> DEFINE n == Len(log) - s + 1
  <1>1. Len(log) \in Nat /\ n \in Nat /\ n >= 1
    OBVIOUS
  <1>2. \A i \in 1..n : s + i - 1 \in 0..Len(log)
    BY <1>1
  <1>3. \A i \in 1..n : Contents(SubSeq(log, 1, s + i - 1)) \in Maps
    BY <1>2, Beginnings, ContentsIsMap, Zenon
  <1>4. Out(log, s) \in Seq(Maps) /\ Len(Out(log, s)) = n
    BY <1>1, <1>3 DEF Out
  <1>5. \A i \in 1..n : Out(log, s)[i] = Contents(SubSeq(log, 1, s + i - 1))
    BY DEF Out
  <1>6. s + n - 1 = Len(log) /\ n \in 1..n
    BY <1>1
  <1> HIDE DEF n
  <1>7. Out(log, s)[n] = Contents(log)
    <2>1. Out(log, s)[n] = Contents(SubSeq(log, 1, s + n - 1))
      BY <1>5, <1>6
    <2>2. SubSeq(log, 1, Len(log)) = log
      BY Beginnings
    <2> QED BY <1>6, <2>1, <2>2, Zenon
  <1> QED BY <1>1, <1>4, <1>5, <1>7 DEF n

(* The end of the log is lost: so are the maps it made. *)
LEMMA OutPrefix ==
    ASSUME NEW log \in Seq(Record), NEW b \in Seq(Record), NEW s \in 0..Len(log)
    PROVE  /\ Out(log, s) = SubSeq(Out(log \o b, s), 1, Len(log) - s + 1)
           /\ Len(Out(log \o b, s)) = Len(Out(log, s)) + Len(b)
  <1> DEFINE all == log \o b
             h == Out(all, s)
             m == Len(log) - s + 1
  <1>1. /\ Len(log) \in Nat /\ Len(b) \in Nat /\ all \in Seq(Record) /\ Len(all) = Len(log) + Len(b)
        /\ \A i \in 0..Len(log) : SubSeq(all, 1, i) = SubSeq(log, 1, i)
    BY Beginnings
  <1> HIDE DEF all
  <1>2. /\ h \in Seq(Maps) /\ Len(h) = Len(all) - s + 1
        /\ \A i \in 1..(Len(all) - s + 1) : h[i] = Contents(SubSeq(all, 1, s + i - 1))
    <2>1. s \in 0..Len(all)
      BY <1>1
    <2> QED BY <1>1, <2>1, OutFacts, Zenon
  <1> HIDE DEF h
  <1>3. m \in Nat /\ m <= Len(h) /\ Len(h) = m + Len(b)
    BY <1>1, <1>2
  <1>4. SubSeq(h, 1, m) = [i \in 1..m |-> h[i]]
    BY <1>2, <1>3
  <1>5. \A i \in 1..m : h[i] = Contents(SubSeq(log, 1, s + i - 1))
    <2> TAKE i \in 1..m
    <2>1. i \in 1..(Len(all) - s + 1) /\ s + i - 1 \in 0..Len(log)
      BY <1>1
    <2> QED BY <1>1, <1>2, <2>1, Zenon
  <1>6. Out(log, s) = [i \in 1..m |-> Contents(SubSeq(log, 1, s + i - 1))] /\ Len(Out(log, s)) = m
    BY OutFacts DEF Out
  <1> QED BY <1>3, <1>4, <1>5, <1>6 DEF h, all

(* One map is left when all that is left is synced. *)
LEMMA OutSynced ==
    ASSUME NEW log \in Seq(Record)
    PROVE  Out(log, Len(log)) = <<Contents(log)>>
  <1>1. Len(log) \in Nat /\ Len(log) \in 0..Len(log) /\ Len(log) - Len(log) + 1 = 1
    OBVIOUS
  <1>2. /\ Out(log, Len(log)) \in Seq(Maps) /\ Len(Out(log, Len(log))) = 1
        /\ Out(log, Len(log))[1] = Contents(log)
    BY <1>1, OutFacts, Zenon
  <1> QED BY <1>2

(* A beginning that is synced leaves one of the maps there were. *)
LEMMA OutLoss ==
    ASSUME NEW log \in Seq(Record), NEW s \in 0..Len(log), NEW n \in s..Len(log)
    PROVE  /\ n - s + 1 \in 1..Len(Out(log, s))
           /\ Out(SubSeq(log, 1, n), n) = <<Out(log, s)[n - s + 1]>>
  <1>1. Len(log) \in Nat /\ n \in 0..Len(log) /\ n - s + 1 \in 1..(Len(log) - s + 1) /\ s + (n - s + 1) - 1 = n
    OBVIOUS
  <1>2. SubSeq(log, 1, n) \in Seq(Record) /\ Len(SubSeq(log, 1, n)) = n
    BY <1>1, Beginnings
  <1>3. Out(SubSeq(log, 1, n), n) = <<Contents(SubSeq(log, 1, n))>>
    BY <1>2, OutSynced, Zenon
  <1>4. Len(Out(log, s)) = Len(log) - s + 1 /\ Out(log, s)[n - s + 1] = Contents(SubSeq(log, 1, n))
    BY <1>1, OutFacts
  <1> QED BY <1>1, <1>3, <1>4

-----------------------------------------------------------------------------
(* The invariant.                                                          *)

(* What is synced was acknowledged, and what was acknowledged is in the    *)
(* file.                                                                   *)
SeqsOK ==
    /\ file \in Seq(Record) /\ buffer \in Seq(Record) /\ ops \in Seq(Record)
    /\ synced \in Nat /\ acked \in Nat /\ synced <= acked /\ acked <= Len(file)

(* Whoever gives d.mu back has flushed, or the writer has failed; Compact  *)
(* starts only after a flush, and what it renames is compacted.            *)
LockOK ==
    /\ ~opened => buffer = <<>> /\ lock = "free" /\ ~werr
    /\ ~werr /\ lock # "batch" => buffer = <<>>
    /\ lock \in {"compact", "renamed"} => ~werr /\ opened
    /\ lock = "renamed" => Compacted(file)

LogInv == SeqsOK /\ LockOK /\ IndexIsReplay

(* The abstract variables, and a step of the abstract specification. *)
Place == acked - synced + 1
AbstractStep == Abstract!Next \/ UNCHANGED <<Outcomes, Place>>

(* What the abstract variables are in a state of the store. *)
LEMMA Mapped ==
    ASSUME SeqsOK
    PROVE  /\ Log \in Seq(Record) /\ Len(Log) = Len(file) + Len(buffer) /\ Len(file) \in Nat /\ Len(buffer) \in Nat
           /\ synced \in 0..Len(file) /\ synced \in 0..Len(Log)
           /\ Outcomes = Out(Log, synced) /\ Outcomes \in Seq(Maps) /\ Len(Outcomes) = Len(Log) - synced + 1
           /\ Place = acked - synced + 1 /\ Place \in 1..Len(Outcomes)
  <1>1. Log \in Seq(Record) /\ Len(Log) = Len(file) + Len(buffer) /\ Len(file) \in Nat /\ Len(buffer) \in Nat
    BY Beginnings DEF SeqsOK, Log
  <1>2. synced \in 0..Len(file) /\ synced \in 0..Len(Log)
    BY <1>1 DEF SeqsOK
  <1>3. Outcomes = Out(Log, synced)
    BY DEF Outcomes, Out
  <1>4. Outcomes \in Seq(Maps) /\ Len(Outcomes) = Len(Log) - synced + 1
    BY <1>1, <1>2, <1>3, OutFacts, Zenon
  <1>5. Place = acked - synced + 1 /\ Place \in 1..(Len(Log) - synced + 1)
    BY <1>1 DEF SeqsOK, Place
  <1> QED BY <1>1, <1>2, <1>3, <1>4, <1>5

(* Where the log, what of it is synced and what is acknowledged stay as    *)
(* they are, the map does.                                                 *)
LEMMA SameOutcomes ==
    ASSUME Log' = Log, UNCHANGED <<synced, acked>>
    PROVE  AbstractStep
  BY DEF AbstractStep, Outcomes, Place

(* Records that land leave the log as it is. *)
LEMMA LandKeeps ==
    ASSUME SeqsOK, NEW n \in 0..Len(buffer), NEW piece, Land(n, piece)
    PROVE  /\ file' \in Seq(Record) /\ buffer' \in Seq(Record) /\ Log' = Log
           /\ Len(file') = Len(file) + n
           /\ n = Len(buffer) => file' = Log /\ buffer' = <<>>
  <1> DEFINE b1 == SubSeq(buffer, 1, n)
             b2 == SubSeq(buffer, n + 1, Len(buffer))
  <1>1. file \in Seq(Record) /\ buffer \in Seq(Record) /\ Len(buffer) \in Nat /\ Len(file) \in Nat
    BY DEF SeqsOK
  <1>2. /\ b1 \in Seq(Record) /\ Len(b1) = n
        /\ b2 \in Seq(Record) /\ Len(b2) = Len(buffer) - n
    BY <1>1
  <1>3. b1 \o b2 = buffer
    <2>1. 1 \in 1..Len(buffer)+1 /\ n \in (1-1)..Len(buffer) /\ Len(buffer) \in n..Len(buffer)
      BY <1>1
    <2>2. b1 \o b2 = SubSeq(buffer, 1, Len(buffer))
      BY <1>1, <2>1, ConcatAdjacentSubSeq, Zenon
    <2> HIDE DEF b1, b2
    <2> QED BY <1>1, <2>2, SubSeqFull
  <1>4. file' = file \o b1 /\ buffer' = b2
    BY DEF Land
  <1>5. n = Len(buffer) => b1 = buffer /\ b2 = <<>>
    BY <1>1, <1>2
  <1> HIDE DEF b1, b2
  <1>6. (file \o b1) \o b2 = file \o (b1 \o b2)
    <2>1. file \in Seq(Record) /\ b1 \in Seq(Record) /\ b2 \in Seq(Record)
      BY <1>1, <1>2
    <2> QED BY <2>1, ThreePieces, Zenon
  <1>7. file' \in Seq(Record) /\ Len(file') = Len(file) + n
    BY <1>1, <1>2, <1>4, ConcatProperties, Zenon
  <1> QED BY <1>2, <1>3, <1>4, <1>5, <1>6, <1>7, Zenon DEF Log

-----------------------------------------------------------------------------
(* One operation at a time.                                                *)

(* A write takes the lock, a compaction does or gives it back: nothing is  *)
(* written yet.                                                            *)
LEMMA QuietOK ==
    ASSUME LogInv,
           (\E batch \in Batches : BeginWrite(batch)) \/ CompactBegin \/ CompactGivesUp \/ RenameFails
    PROVE  LogInv' /\ AbstractStep
  <1>1. /\ UNCHANGED <<file, synced, buffer, acked, index, deadKeys, opened, werr>> /\ opened
        /\ ops' \in Seq(Record)
    BY LogAssumption DEF BeginWrite, CompactBegin, CompactGivesUp, RenameFails, disk, LogInv, SeqsOK
  <1>2. lock' \in {"batch", "free"} \/ (lock' = "compact" /\ ~werr)
    BY Zenon DEF BeginWrite, CompactBegin, CompactGivesUp, RenameFails
  <1>3. lock' # "batch" => (~werr => buffer = <<>>)
    BY Zenon DEF BeginWrite, CompactBegin, CompactGivesUp, RenameFails, LogInv, LockOK
  <1>4. lock # "renamed" /\ lock' # "renamed"
    BY DEF BeginWrite, CompactBegin, CompactGivesUp, RenameFails
  <1>5. SeqsOK'
    BY <1>1 DEF LogInv, SeqsOK
  <1>6. LockOK'
    BY <1>1, <1>2, <1>3, <1>4 DEF LockOK
  <1>7. IndexIsReplay'
    BY <1>1, <1>4 DEF LogInv, IndexIsReplay, Log
  <1>8. AbstractStep
    BY <1>1, SameOutcomes DEF Log
  <1> QED BY <1>5, <1>6, <1>7, <1>8 DEF LogInv

(* appendRecord: one more record, one more map; or the writer has failed   *)
(* and nothing changes.                                                    *)
LEMMA AppendRecordOK ==
    ASSUME LogInv, AppendRecord
    PROVE  LogInv' /\ AbstractStep
  <1> DEFINE r == Head(ops)
  <1>1. /\ opened /\ lock = "batch" /\ ops # <<>>
        /\ UNCHANGED <<file, synced, werr, opened, acked>>
    BY DEF AppendRecord, disk
  <1>2. r \in Record /\ Tail(ops) \in Seq(Record) /\ SeqsOK
    BY <1>1, HeadTailProperties DEF LogInv, SeqsOK
  <1>3. index = ReplayIndex(Log) /\ deadKeys = ReplayDead(Log)
    BY <1>1 DEF LogInv, IndexIsReplay
  <1>4. CASE werr
    <2>1. ops' = <<>> /\ lock' = "free" /\ UNCHANGED <<buffer, index, deadKeys>>
      BY <1>4 DEF AppendRecord
    <2>2. SeqsOK'
      BY <1>1, <1>2, <2>1 DEF SeqsOK
    <2>3. LockOK'
      BY <1>1, <1>4, <2>1 DEF LockOK
    <2>4. IndexIsReplay'
      BY <1>1, <1>3, <2>1 DEF IndexIsReplay, Log
    <2> QED BY <1>1, <2>1, <2>2, <2>3, <2>4, SameOutcomes DEF LogInv, Log
  <1>5. CASE ~werr
    <2>1. /\ buffer' = Append(buffer, r) /\ ops' = Tail(ops) /\ lock' = lock
          /\ deadKeys' = deadKeys + (IF index[r.key] # 0 THEN 1 ELSE 0)
          /\ index' = [index EXCEPT ![r.key] = IF r.val = Absent THEN 0 ELSE Len(Log) + 1]
      BY <1>5 DEF AppendRecord
    <2> HIDE DEF r
    <2>2. Log \in Seq(Record) /\ Len(Log) \in Nat /\ file \in Seq(Record) /\ buffer \in Seq(Record)
          /\ synced \in 0..Len(Log)
      BY <1>2, Mapped DEF SeqsOK
    <2>3. Log' = Append(Log, r)
      <3>1. Append(buffer, r) = buffer \o <<r>> /\ Append(Log, r) = Log \o <<r>> /\ <<r>> \in Seq(Record)
        BY <1>2, <2>2, AppendIsConcat
      <3>2. file \o (buffer \o <<r>>) = (file \o buffer) \o <<r>>
        BY <2>2, <3>1, ThreePieces, Zenon
      <3> QED BY <1>1, <2>1, <3>1, <3>2 DEF Log
    <2>4. SeqsOK'
      BY <1>1, <1>2, <2>1, <2>2, AppendProperties DEF SeqsOK
    <2>5. LockOK'
      BY <1>1, <2>1 DEF LockOK
    <2>6. index' = ReplayIndex(Log') /\ deadKeys' = ReplayDead(Log')
      BY <1>2, <1>3, <2>1, <2>2, <2>3, ContentsAppend, DeadAppend
    <2>7. IndexIsReplay'
      BY <2>6 DEF IndexIsReplay
    <2>8. Outcomes = Out(Log, synced) /\ Outcomes' = Out(Append(Log, r), synced) /\ Place' = Place
      BY <1>1, <2>3 DEF Outcomes, Out, Place
    <2>9. /\ Len(Outcomes') = Len(Outcomes) + 1
          /\ SubSeq(Outcomes', 1, Len(Outcomes)) = Outcomes
          /\ Outcomes[Len(Outcomes)] = Contents(Log)
          /\ Outcomes'[Len(Outcomes')] = Contents(Append(Log, r))
      <3> DEFINE new == Append(Log, r)
                 one == <<r>>
      <3>1. new = Log \o one /\ one \in Seq(Record)
        BY <1>2, <2>2, AppendIsConcat
      <3>2. new \in Seq(Record) /\ Len(new) = Len(Log) + 1
        BY <1>2, <2>2, AppendProperties
      <3>3. Outcomes' = Out(new, synced)
        BY <2>8
      <3> HIDE DEF new, one
      <3>4. Len(Outcomes) = Len(Log) - synced + 1 /\ Outcomes[Len(Outcomes)] = Contents(Log)
        BY <2>2, <2>8, OutFacts, Zenon
      <3>5. Len(Outcomes') = Len(Log) + 1 - synced + 1 /\ Outcomes'[Len(Outcomes')] = Contents(new)
        <4>1. synced \in 0..Len(new)
          BY <2>2, <3>2
        <4> QED BY <3>2, <3>3, <4>1, OutFacts
      <3>6. SubSeq(Outcomes', 1, Len(Log) - synced + 1) = Outcomes
        <4>1. Out(Log, synced) = SubSeq(Out(Log \o one, synced), 1, Len(Log) - synced + 1)
          BY <2>2, <3>1, OutPrefix
        <4> QED BY <2>8, <3>1, <3>3, <4>1
      <3> QED BY <2>2, <3>4, <3>5, <3>6 DEF new
    <2>10. r.key \in Keys /\ \A j \in Keys \ {r.key} : Contents(Append(Log, r))[j] = Contents(Log)[j]
      <3>1. Contents(Append(Log, r)) = [Contents(Log) EXCEPT ![r.key] = r.val]
        BY <1>2, <2>2, ContentsAppend
      <3>2. DOMAIN Contents(Log) = Keys
        BY DEF Contents
      <3> QED BY <1>2, <3>1, <3>2 DEF Record
    <2>11. Abstract!Write
      BY <2>8, <2>9, <2>10 DEF Abstract!Write, Abstract!Now, Place
    <2> QED BY <2>4, <2>5, <2>7, <2>11 DEF LogInv, AbstractStep, Abstract!Next
  <1> QED BY <1>4, <1>5

(* bufio writes a part of the buffer out, a sync fails after a complete    *)
(* flush, or a write fails part of the way: the log in file and buffer     *)
(* together is the same.                                                   *)
LEMMA LandingOK ==
    ASSUME LogInv, Spill \/ SyncFails \/ WriteFails
    PROVE  LogInv' /\ AbstractStep
  <1>0. SeqsOK /\ opened /\ lock = "batch" /\ ~werr
    BY Zenon DEF LogInv, Spill, SyncFails, WriteFails
  <1>1. /\ \/ \E n \in 0..Len(buffer), piece \in BOOLEAN : Land(n, piece)
           \/ UNCHANGED <<file, buffer>>
        /\ UNCHANGED <<synced, acked, index, deadKeys, opened>>
    <2>1. Len(buffer) \in Nat
      BY <1>0 DEF SeqsOK
    <2>2. CASE Spill
      <3>1. PICK n \in 0..(Len(buffer) - 1) : Land(n, TRUE)
        BY <2>2, Zenon DEF Spill
      <3>2. n \in 0..Len(buffer)
        BY <2>1
      <3> QED BY <2>2, <3>1, <3>2, Zenon DEF Spill
    <2>3. CASE SyncFails
      <3>1. Len(buffer) \in 0..Len(buffer)
        BY <2>1
      <3>2. Land(Len(buffer), FALSE)
        BY <2>3, Zenon DEF SyncFails
      <3>3. UNCHANGED <<synced, acked, index, deadKeys, opened>>
        BY <2>3 DEF SyncFails
      <3> QED BY <3>1, <3>2, <3>3, Zenon
    <2>4. CASE WriteFails
      <3>1. CASE handle
        <4>1. PICK n \in 0..(Len(buffer) - 1), piece \in BOOLEAN : Land(n, piece)
          BY <2>4, <3>1 DEF WriteFails
        <4>2. n \in 0..Len(buffer)
          BY <2>1
        <4> QED BY <2>4, <4>1, <4>2 DEF WriteFails
      <3>2. CASE ~handle
        BY <2>4, <3>2 DEF WriteFails
      <3> QED BY <3>1, <3>2
    <2> QED BY <2>2, <2>3, <2>4
  <1>2. /\ file' \in Seq(Record) /\ buffer' \in Seq(Record) /\ Log' = Log
        /\ Len(file) \in Nat /\ Len(file') \in Nat /\ Len(file') >= Len(file)
    <2>1. Len(file) \in Nat /\ Len(buffer) \in Nat
      BY <1>0 DEF SeqsOK
    <2>2. CASE UNCHANGED <<file, buffer>>
      BY <1>0, <2>1, <2>2 DEF SeqsOK, Log
    <2>3. ASSUME NEW n \in 0..Len(buffer), NEW piece \in BOOLEAN, Land(n, piece)
          PROVE  /\ file' \in Seq(Record) /\ buffer' \in Seq(Record) /\ Log' = Log
                 /\ Len(file') = Len(file) + n
      BY <1>0, <2>3, LandKeeps
    <2> QED BY <1>1, <2>1, <2>2, <2>3
  <1>3. /\ ops' \in Seq(Record)
        /\ \/ lock' = "batch"
           \/ lock' = "free" /\ (werr' \/ buffer' = <<>>)
    <2>1. CASE Spill
      BY <1>0, <2>1 DEF Spill, SeqsOK
    <2>2. CASE SyncFails
      <3>1. Len(buffer) \in 0..Len(buffer)
        BY <1>0 DEF SeqsOK
      <3>2. Land(Len(buffer), FALSE)
        BY <2>2, Zenon DEF SyncFails
      <3>3. buffer' = <<>>
        BY <1>0, <3>1, <3>2, LandKeeps, Zenon
      <3> QED BY <1>0, <2>2, <3>3 DEF SyncFails, SeqsOK
    <2>3. CASE WriteFails
      BY <2>3 DEF WriteFails
    <2> QED BY <2>1, <2>2, <2>3
  <1>4. SeqsOK'
    BY <1>0, <1>1, <1>2, <1>3 DEF SeqsOK
  <1>5. LockOK'
    BY <1>0, <1>1, <1>3 DEF LockOK
  <1>6. IndexIsReplay'
    BY <1>0, <1>1, <1>2 DEF LogInv, IndexIsReplay
  <1>7. AbstractStep
    BY <1>1, <1>2, SameOutcomes
  <1> QED BY <1>4, <1>5, <1>6, <1>7 DEF LogInv

(* One map is left, the last: everything is hardened and acknowledged.     *)
LEMMA HardenAll ==
    ASSUME SeqsOK, SeqsOK', Contents(Log') = Contents(Log), synced' = Len(Log'), acked' = Len(Log')
    PROVE  AbstractStep
  <1> DEFINE n == Len(Outcomes)
  <1>1. /\ Log \in Seq(Record) /\ Outcomes = Out(Log, synced) /\ synced \in 0..Len(Log)
        /\ Outcomes \in Seq(Maps) /\ n = Len(Log) - synced + 1 /\ n \in 1..n
    <2>1. /\ Log \in Seq(Record) /\ Outcomes = Out(Log, synced) /\ synced \in 0..Len(Log)
          /\ Outcomes \in Seq(Maps) /\ n = Len(Log) - synced + 1 /\ Len(Log) \in Nat
      BY Mapped
    <2> HIDE DEF n
    <2>2. n \in 1..n
      BY <2>1
    <2> QED BY <2>1, <2>2
  <1>2. Outcomes[n] = Contents(Log)
    BY <1>1, OutFacts
  <1>3. Log' \in Seq(Record) /\ Len(Log') \in Nat
    BY Beginnings DEF SeqsOK, Log
  <1>4. Outcomes' = Out(Log', Len(Log'))
    BY DEF Outcomes, Out
  <1>5. Outcomes' = <<Contents(Log)>>
    BY <1>3, <1>4, OutSynced
  <1>6. Place' = 1
    BY <1>3 DEF Place
  <1>7. SubSeq(Outcomes, n, n) = <<Outcomes[n]>>
    <2> HIDE DEF n
    <2>1. n \in Int /\ \A i \in n..n : Outcomes[i] \in Maps
      BY <1>1 DEF n
    <2> DEFINE one == SubSeq(Outcomes, n, n)
    <2>2. /\ one \in Seq(Maps) /\ Len(one) = (IF n <= n THEN n - n + 1 ELSE 0)
          /\ \A i \in 1..(n - n + 1) : one[i] = Outcomes[n + i - 1]
      BY <2>1, SubSeqProperties
    <2> HIDE DEF one
    <2>3. Len(one) = 1 /\ one[1] = Outcomes[n]
      BY <2>1, <2>2
    <2>4. one = <<Outcomes[n]>>
      BY <2>2, <2>3
    <2> QED BY <2>4 DEF one
  <1>8. Abstract!Harden(n)
    BY <1>1, <1>2, <1>5, <1>6, <1>7 DEF Abstract!Harden, Place
  <1> QED BY <1>1, <1>8 DEF AbstractStep, Abstract!Next

(* flushLocked: the write is acknowledged, and in sync mode hardened. *)
LEMMA FlushOK ==
    ASSUME LogInv, Flush
    PROVE  LogInv' /\ AbstractStep
  <1>1. SeqsOK /\ opened /\ lock = "batch" /\ ~werr /\ ops = <<>>
    BY DEF LogInv, Flush
  <1>2. /\ UNCHANGED <<werr, index, deadKeys, opened, ops>> /\ lock' = "free"
        /\ synced' = (IF syncMode THEN Len(file') ELSE synced) /\ acked' = Len(file')
    BY DEF Flush
  <1>3. file' = Log /\ buffer' = <<>> /\ Log' = Log /\ Log \in Seq(Record)
    <2>1. Len(buffer) \in 0..Len(buffer) /\ Log \in Seq(Record)
      BY <1>1, Mapped
    <2>2. Land(Len(buffer), FALSE)
      BY Zenon DEF Flush
    <2> QED BY <1>1, <2>1, <2>2, LandKeeps, Zenon
  <1>4. Len(Log) \in Nat /\ synced \in 0..Len(Log)
    BY <1>1, Mapped
  <1>5. synced' \in Nat /\ synced' <= Len(Log) /\ (synced' = Len(Log) \/ synced' = synced)
    BY <1>2, <1>3, <1>4
  <1>6. SeqsOK'
    BY <1>1, <1>2, <1>3, <1>4, <1>5 DEF SeqsOK
  <1>7. LockOK'
    BY <1>1, <1>2, <1>3 DEF LockOK
  <1>8. IndexIsReplay'
    BY <1>1, <1>2, <1>3 DEF LogInv, IndexIsReplay
  <1>9. ASSUME synced' = Len(Log) PROVE AbstractStep
    <2>1. Contents(Log') = Contents(Log) /\ synced' = Len(Log') /\ acked' = Len(Log')
      BY <1>2, <1>3, <1>9
    <2> QED BY <1>1, <1>6, <2>1, HardenAll
  <1>10. ASSUME synced' = synced PROVE AbstractStep
    <2>1. Outcomes' = Outcomes
      BY <1>3, <1>10 DEF Outcomes
    <2>2. Len(Outcomes) = Len(Log) - synced + 1
      BY <1>1, Mapped
    <2>3. Place' = Len(Outcomes)
      <3>1. acked' = Len(Log) /\ acked' >= synced'
        BY <1>2, <1>3, <1>4, <1>10
      <3> QED BY <1>10, <2>2, <3>1 DEF Place
    <2>4. Abstract!Acknowledge
      BY <2>1, <2>3 DEF Abstract!Acknowledge, Place
    <2> QED BY <2>4 DEF AbstractStep, Abstract!Next
  <1> QED BY <1>5, <1>6, <1>7, <1>8, <1>9, <1>10 DEF LogInv

(* Compact: the renamed file stands for the same map, in one record a key. *)
LEMMA CompactRenameOK ==
    ASSUME LogInv, CompactRename
    PROVE  LogInv' /\ AbstractStep
  <1>1. SeqsOK /\ opened /\ lock = "compact" /\ ~werr /\ buffer = <<>>
    BY DEF LogInv, LockOK, CompactRename
  <1>2. /\ file' = LiveRecords /\ synced' = Len(file') /\ acked' = Len(file') /\ lock' = "renamed"
        /\ UNCHANGED <<buffer, werr, index, deadKeys, opened, ops>>
    BY DEF CompactRename
  <1>3. Log \in Seq(Record)
    BY <1>1, Mapped
  <1>4. index = ReplayIndex(Log)
    BY <1>1 DEF LogInv, IndexIsReplay
  <1>5. file' \in Seq(Record) /\ Compacted(file') /\ Contents(file') = Contents(Log)
    BY <1>2, <1>3, <1>4, LiveRecordsSuffice
  <1>6. Log' = file'
    BY <1>1, <1>2, <1>5, ConcatEmptySeq DEF Log
  <1>7. SeqsOK'
    BY <1>1, <1>2, <1>5 DEF SeqsOK
  <1>8. LockOK'
    BY <1>1, <1>2, <1>5 DEF LockOK
  <1>9. IndexIsReplay'
    BY <1>2 DEF IndexIsReplay
  <1>10. AbstractStep
    BY <1>1, <1>2, <1>5, <1>6, <1>7, HardenAll
  <1> QED BY <1>7, <1>8, <1>9, <1>10 DEF LogInv

(* ... and the index follows. *)
LEMMA CompactReopenOK ==
    ASSUME LogInv, CompactReopen
    PROVE  LogInv' /\ AbstractStep
  <1>1. SeqsOK /\ opened /\ lock = "renamed" /\ ~werr /\ buffer = <<>> /\ Compacted(file)
    BY DEF LogInv, LockOK, CompactReopen
  <1>2. /\ index' = [k \in Keys |-> Max({0} \cup Offsets(file, k))] /\ deadKeys' = 0 /\ lock' = "free"
        /\ UNCHANGED <<file, synced, buffer, werr, opened, ops, acked>>
    BY DEF CompactReopen, disk
  <1>3. Log' = Log /\ Log = file
    BY <1>1, <1>2, ConcatEmptySeq DEF Log, SeqsOK
  <1>4. SeqsOK'
    BY <1>1, <1>2 DEF SeqsOK
  <1>5. LockOK'
    BY <1>1, <1>2 DEF LockOK
  <1>6. index' = ReplayIndex(Log') /\ deadKeys' = ReplayDead(Log')
    BY <1>1, <1>2, <1>3, CompactedReplay DEF SeqsOK
  <1>7. IndexIsReplay'
    BY <1>6 DEF IndexIsReplay
  <1> QED BY <1>2, <1>3, <1>4, <1>5, <1>7, SameOutcomes DEF LogInv

(* The process is gone: of the log there is what had reached the file. *)
LEMMA DownOK ==
    ASSUME SeqsOK, Down, UNCHANGED <<file, synced>>, acked' = Len(file)
    PROVE  SeqsOK' /\ LockOK' /\ IndexIsReplay' /\ AbstractStep
  <1>1. /\ opened' = FALSE /\ werr' = FALSE /\ lock' = "free"
        /\ buffer' = <<>> /\ ops' = <<>>
    BY DEF Down
  <1>2. ~opened' /\ ~werr'
    BY <1>1, Zenon
  <1>3. file \in Seq(Record) /\ buffer \in Seq(Record) /\ Len(file) \in Nat /\ synced \in 0..Len(file)
    BY Mapped DEF SeqsOK
  <1>4. SeqsOK'
    BY <1>1, <1>3 DEF SeqsOK
  <1>5. LockOK'
    BY <1>1, <1>2 DEF LockOK
  <1>6. IndexIsReplay'
    BY <1>2 DEF IndexIsReplay
  <1>7. Log' = file /\ Log = file \o buffer
    BY <1>1, <1>3, ConcatEmptySeq DEF Log
  <1> DEFINE n == Len(file) - synced + 1
  <1>8. Outcomes = Out(file \o buffer, synced) /\ Outcomes' = Out(file, synced)
    BY <1>7 DEF Outcomes, Out
  <1>9. Outcomes' = SubSeq(Outcomes, 1, n) /\ Len(Outcomes) = n + Len(buffer) /\ Len(buffer) \in Nat /\ n \in Nat
    <2>1. Len(Out(file, synced)) = n
      BY <1>3, OutFacts, Zenon
    <2>2. /\ Out(file, synced) = SubSeq(Out(file \o buffer, synced), 1, n)
          /\ Len(Out(file \o buffer, synced)) = Len(Out(file, synced)) + Len(buffer)
      BY <1>3, OutPrefix, Zenon
    <2>3. Len(buffer) \in Nat /\ n \in Nat
      BY <1>3
    <2> QED BY <1>8, <2>1, <2>2, <2>3, Zenon
  <1>10. Place \in 1..n /\ Place' = n
    <2>1. Place = acked - synced + 1 /\ acked <= Len(file) /\ synced <= acked /\ acked \in Nat
      BY Mapped DEF SeqsOK
    <2> QED BY <1>3, <2>1 DEF Place
  <1>11. n \in Place..Len(Outcomes)
    BY <1>9, <1>10
  <1> HIDE DEF n
  <1>12. Abstract!Crash
    BY <1>9, <1>10, <1>11 DEF Abstract!Crash, Place
  <1> QED BY <1>4, <1>5, <1>6, <1>12 DEF AbstractStep, Abstract!Next

(* Close flushes and syncs if it can; if not, it is a crash. *)
LEMMA CloseOK ==
    ASSUME LogInv, Close
    PROVE  LogInv' /\ AbstractStep
  <1>1. SeqsOK /\ Down /\ acked' = Len(file')
    BY DEF LogInv, Close
  <1>2. CASE handle /\ ~werr
    <2>1. file' = Log /\ synced' = Len(file')
      BY <1>2 DEF Close
    <2>2. opened' = FALSE /\ werr' = FALSE /\ lock' = "free" /\ buffer' = <<>> /\ ops' = <<>>
      BY <1>1 DEF Down
    <2>3. ~opened' /\ ~werr'
      BY <2>2, Zenon
    <2>4. Log \in Seq(Record) /\ Len(Log) \in Nat
      BY <1>1, Mapped
    <2>5. Log' = Log
      BY <2>1, <2>2, <2>4, ConcatEmptySeq DEF Log
    <2>6. SeqsOK'
      BY <1>1, <2>1, <2>2, <2>4 DEF SeqsOK
    <2>7. LockOK'
      BY <2>2, <2>3 DEF LockOK
    <2>8. IndexIsReplay'
      BY <2>3 DEF IndexIsReplay
    <2>9. AbstractStep
      <3>1. Contents(Log') = Contents(Log) /\ synced' = Len(Log') /\ acked' = Len(Log')
        BY <1>1, <2>1, <2>5
      <3> QED BY <1>1, <2>6, <3>1, HardenAll
    <2> QED BY <2>6, <2>7, <2>8, <2>9 DEF LogInv
  <1>3. CASE ~(handle /\ ~werr)
    <2>1. UNCHANGED <<file, synced>>
      BY <1>3 DEF Close
    <2> QED BY <1>1, <2>1, DownOK DEF LogInv
  <1> QED BY <1>2, <1>3

(* The process is gone: the file has what reached it. *)
LEMMA CrashOK ==
    ASSUME LogInv, LogCrash
    PROVE  LogInv' /\ AbstractStep
  <1>1. SeqsOK /\ Down /\ acked' = Len(file) /\ UNCHANGED <<file, synced>>
    BY DEF LogInv, LogCrash, disk
  <1> QED BY <1>1, DownOK DEF LogInv

(* The machine is gone: of the log there is what was synced, and perhaps   *)
(* more.                                                                   *)
LEMMA PowerLossOK ==
    ASSUME LogInv, PowerLoss
    PROVE  LogInv' /\ AbstractStep
  <1>1. SeqsOK /\ Down
    BY DEF LogInv, PowerLoss
  <1>2. PICK n \in synced..Len(file) : file' = SubSeq(file, 1, n) /\ synced' = n /\ acked' = n
    BY DEF PowerLoss
  <1>3. opened' = FALSE /\ werr' = FALSE /\ lock' = "free" /\ buffer' = <<>> /\ ops' = <<>>
    BY <1>1 DEF Down
  <1>4. ~opened' /\ ~werr'
    BY <1>3, Zenon
  <1>5. /\ file \in Seq(Record) /\ buffer \in Seq(Record) /\ Log \in Seq(Record) /\ Log = file \o buffer
        /\ Len(file) \in Nat /\ synced \in 0..Len(file) /\ synced \in 0..Len(Log)
        /\ n \in 0..Len(file) /\ n \in synced..Len(Log) /\ n \in Nat
    BY <1>1, Mapped DEF SeqsOK, Log
  <1>6. file' \in Seq(Record) /\ Len(file') = n /\ SubSeq(Log, 1, n) = file'
    BY <1>2, <1>5, Beginnings
  <1>7. Log' = file'
    BY <1>3, <1>6, ConcatEmptySeq DEF Log
  <1>8. SeqsOK'
    BY <1>2, <1>3, <1>5, <1>6 DEF SeqsOK
  <1>9. LockOK'
    BY <1>3, <1>4 DEF LockOK
  <1>10. IndexIsReplay'
    BY <1>4 DEF IndexIsReplay
  <1>11. Outcomes = Out(Log, synced) /\ Outcomes' = Out(SubSeq(Log, 1, n), n)
    BY <1>2, <1>6, <1>7, Zenon DEF Outcomes, Out
  <1>12. n - synced + 1 \in 1..Len(Outcomes) /\ Outcomes' = <<Outcomes[n - synced + 1]>>
    BY <1>5, <1>11, OutLoss, Zenon
  <1>13. Place' = 1
    BY <1>2, <1>5 DEF Place
  <1>14. Abstract!PowerLoss
    BY <1>12, <1>13 DEF Abstract!PowerLoss, Place
  <1> QED BY <1>8, <1>9, <1>10, <1>14 DEF LogInv, AbstractStep, Abstract!Next

(* OpenFile replays the file: the store reads what it read before. *)
LEMMA OpenOK ==
    ASSUME LogInv, OpenFile
    PROVE  LogInv' /\ AbstractStep
  <1>1. SeqsOK /\ buffer = <<>> /\ lock = "free" /\ ~werr
    BY DEF LogInv, LockOK, OpenFile
  <1>2. /\ UNCHANGED <<file, synced, buffer, werr, ops, lock, acked>>
        /\ index' = ReplayIndex(file) /\ deadKeys' = ReplayDead(file)
    BY DEF OpenFile
  <1>3. Log' = Log /\ Log = file
    BY <1>1, <1>2, ConcatEmptySeq DEF Log, SeqsOK
  <1>4. SeqsOK'
    BY <1>1, <1>2 DEF SeqsOK
  <1>5. LockOK'
    BY <1>1, <1>2 DEF LockOK
  <1>6. IndexIsReplay'
    BY <1>2, <1>3 DEF IndexIsReplay
  <1> QED BY <1>2, <1>3, <1>4, <1>5, <1>6, SameOutcomes DEF LogInv

(* A new store is an empty log, and stands for the empty map. *)
LEMMA LogInitOK ==
    ASSUME LogInit
    PROVE  LogInv /\ Abstract!Init
  <1>1. /\ file = <<>> /\ buffer = <<>> /\ ops = <<>> /\ synced = 0 /\ acked = 0
        /\ lock = "free" /\ index = [k \in Keys |-> 0] /\ deadKeys = 0
    BY DEF LogInit
  <1>2. opened /\ ~werr
    BY Zenon DEF LogInit
  <1>3. Log = <<>> /\ <<>> \in Seq(Record) /\ Len(<<>>) = 0
    BY <1>1 DEF Log
  <1>4. \A k : Offsets(<<>>, k) = {}
    BY DEF Offsets
  <1>5. Contents(<<>>) = [k \in Keys |-> Absent] /\ ReplayIndex(<<>>) = [k \in Keys |-> 0]
    BY <1>4 DEF Contents, ReplayIndex
  <1>6. ReplayDead(<<>>) = 0
    <2>1. Compacted(<<>>)
      BY DEF Compacted
    <2> QED BY <1>3, <2>1, CompactedReplay, Zenon
  <1>7. SeqsOK
    BY <1>1, <1>3 DEF SeqsOK
  <1>8. LockOK
    BY <1>1, <1>2 DEF LockOK
  <1>9. IndexIsReplay
    BY <1>1, <1>3, <1>5, <1>6 DEF IndexIsReplay
  <1>10. Outcomes = <<[k \in Keys |-> Absent]>>
    <2>1. Outcomes = Out(<<>>, Len(<<>>))
      BY <1>1, <1>3 DEF Outcomes, Out
    <2> QED BY <1>3, <1>5, <2>1, OutSynced, Zenon
  <1>11. Place = 1
    BY <1>1 DEF Place
  <1> QED BY <1>7, <1>8, <1>9, <1>10, <1>11 DEF LogInv, Abstract!Init, Place

(* Every step keeps the invariant and is a step of the map, or none. *)
LEMMA LogStep == LogInv /\ [LogNext]_logVars => LogInv' /\ AbstractStep
  <1> SUFFICES ASSUME LogInv, [LogNext]_logVars PROVE LogInv' /\ AbstractStep
    OBVIOUS
  <1>1. CASE UNCHANGED logVars
    <2>1. UNCHANGED <<file, synced, buffer, werr, index, deadKeys, ops, lock, opened, acked>>
      BY <1>1 DEF logVars, disk, memory
    <2>2. SeqsOK' /\ LockOK' /\ IndexIsReplay'
      BY <2>1 DEF LogInv, SeqsOK, LockOK, IndexIsReplay, Log
    <2> QED BY <2>1, <2>2, SameOutcomes DEF LogInv, Log
  <1>2. CASE LogNext
    BY <1>2, QuietOK, AppendRecordOK, LandingOK, FlushOK, CompactRenameOK, CompactReopenOK, CloseOK,
       CrashOK, PowerLossOK, OpenOK DEF LogNext
  <1> QED BY <1>1, <1>2

-----------------------------------------------------------------------------
(* appendRecord, Compact and OpenFile keep in memory what replay of the    *)
(* log finds, offsets and dead records alike, whatever is written, fails   *)
(* or is cut off in between.                                               *)
THEOREM IndexAlwaysReplays == LogSpec => []IndexIsReplay
  <1>1. LogInit => LogInv
    BY LogInitOK
  <1>2. LogInv /\ [LogNext]_logVars => LogInv'
    BY LogStep
  <1>3. LogInv => IndexIsReplay
    BY DEF LogInv
  <1> QED BY <1>1, <1>2, <1>3, PTL DEF LogSpec

(* The log store implements a map that a crash sets back: a write adds one *)
(* map, a flush acknowledges, a sync, a close or a compaction hardens, the *)
(* end of the process loses nothing acknowledged and the end of the        *)
(* machine nothing hardened, and all else changes nothing that can be read.*)
THEOREM LogImplementsCrashMap == LogSpec => ImplementsCrashMap
  <1>1. LogInit => LogInv /\ Abstract!Init
    BY LogInitOK
  <1>2. LogInv /\ [LogNext]_logVars =>
          LogInv' /\ [Abstract!Next]_<<Outcomes, acked - synced + 1>>
    BY LogStep DEF AbstractStep, Place
  <1> QED BY <1>1, <1>2, PTL DEF LogSpec, ImplementsCrashMap, Abstract!Spec
=============================================================================
