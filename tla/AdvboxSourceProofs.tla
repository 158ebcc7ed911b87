------------------------- MODULE AdvboxSourceProofs -------------------------
(* What the readers of Advbox may rely on: pages are consecutive parts of a  *)
(* list of records with different IDs, whatever the office does to the list. *)
EXTENDS AdvboxSource, SequenceTheorems, FiniteSetTheorems, TLAPS

Distinct == \A i, j \in DOMAIN source : source[i].id = source[j].id => i = j

SourceInv == source \in Seq(Records) /\ Distinct /\ changes \in Nat

LEMMA SourceStarts == SourceInit => SourceInv
  <1> SUFFICES ASSUME SourceInit PROVE SourceInv
    OBVIOUS
  <1>1. PICK v \in Versions : \A w \in Versions : v <= w
    BY SourceAssumption
  <1> DEFINE first == CHOOSE x \in Versions : \A w \in Versions : x <= w
  <1>2. first \in Versions
    BY <1>1
  <1> HIDE DEF first
  <1>3. PICK S \in SUBSET Ids :
          source \in [1 .. Cardinality(S) -> [id : S, v : {first}]] /\ IdsIn(source) = S
    BY DEF SourceInit, first
  <1> DEFINE n == Cardinality(S)
  <1>4. IsFiniteSet(S) /\ n \in Nat
    BY FS_Subset, FS_CardinalityType, SourceAssumption
  <1>5. source \in Seq(Records)
    <2>1. [id : S, v : {first}] \subseteq Records
      BY <1>2 DEF Records
    <2> QED
      BY <1>3, <1>4, <2>1
  <1>6. Distinct
    <2> DEFINE f == [i \in 1 .. n |-> source[i].id]
    <2>1. DOMAIN source = 1 .. n /\ \A i \in 1 .. n : source[i].id \in S
      BY <1>3
    <2>2. \A x \in S : \E i \in 1 .. n : source[i].id = x
      BY <1>3, <2>1 DEF IdsIn
    <2>3. f \in Surjection(1 .. n, S)
      BY <2>1, <2>2 DEF Surjection
    <2>4. IsFiniteSet(1 .. n) /\ Cardinality(1 .. n) = n
      BY <1>4, FS_Interval
    <2>5. f \in Injection(1 .. n, S)
      <3> HIDE DEF f
      <3> QED
        BY <2>3, <2>4, FS_Surjection
    <2>6. \A i, j \in 1 .. n : source[i].id = source[j].id => i = j
      BY <2>5 DEF Injection, IsInjective
    <2> QED
      BY <2>1, <2>6 DEF Distinct
  <1> QED
    BY <1>5, <1>6 DEF SourceInv, SourceInit

LEMMA EditKeeps ==
  ASSUME SourceInv, NEW i \in DOMAIN source, NEW v \in Versions,
         source' = [source EXCEPT ![i].v = v]
  PROVE  source' \in Seq(Records) /\ Distinct'
  <1>1. source \in Seq(Records) /\ source[i] \in Records
    BY ElementOfSeq DEF SourceInv
  <1> DEFINE r == [source[i] EXCEPT !.v = v]
  <1>2. r \in Records /\ r.id = source[i].id
    BY <1>1 DEF Records
  <1>3. source' = [source EXCEPT ![i] = r]
    OBVIOUS
  <1> HIDE DEF r
  <1>4. source' \in Seq(Records) /\ DOMAIN source' = DOMAIN source
    BY <1>1, <1>2, <1>3, ExceptSeq
  <1>5. \A j \in DOMAIN source : source'[j].id = source[j].id
    BY <1>2, <1>3
  <1> QED
    BY <1>4, <1>5 DEF SourceInv, Distinct

LEMMA JoinedLen == \A S : \A a, b \in Seq(S) : a \o b \in Seq(S) /\ Len(a \o b) = Len(a) + Len(b)
  BY ConcatProperties

LEMMA JoinedLeft == \A S : \A a, b \in Seq(S) : \A k \in 1 .. Len(a) : (a \o b)[k] = a[k]
  BY ConcatProperties

LEMMA JoinedRight == \A S : \A a, b \in Seq(S) : \A k \in 1 .. Len(b) : (a \o b)[Len(a) + k] = b[k]
  BY ConcatProperties

LEMMA Inserted ==
  ASSUME NEW S, NEW s \in Seq(S), NEW p \in 1 .. Len(s) + 1, NEW r \in S
  PROVE  /\ InsertAt(s, p, r) \in Seq(S)
         /\ Len(InsertAt(s, p, r)) = Len(s) + 1
         /\ InsertAt(s, p, r)[p] = r
         /\ \A k \in 1 .. p - 1 : InsertAt(s, p, r)[k] = s[k]
         /\ \A k \in p .. Len(s) : InsertAt(s, p, r)[k + 1] = s[k]
  <1> DEFINE a == SubSeq(s, 1, p - 1)
             b == SubSeq(s, p, Len(s))
             one == <<r>>
             c == a \o one
             t == c \o b
  <1>1. a \in Seq(S) /\ Len(a) = p - 1 /\ \A k \in 1 .. p - 1 : a[k] = s[k]
    OBVIOUS
  <1>2. b \in Seq(S) /\ Len(b) = Len(s) + 1 - p /\ \A k \in 1 .. Len(s) + 1 - p : b[k] = s[p + k - 1]
    OBVIOUS
  <1>3. one \in Seq(S) /\ Len(one) = 1 /\ one[1] = r
    OBVIOUS
  <1> HIDE DEF a, b, one
  <1>4. c \in Seq(S) /\ Len(c) = p
    <2>1. c \in Seq(S) /\ Len(c) = Len(a) + Len(one)
      BY <1>1, <1>3, JoinedLen, Zenon
    <2> HIDE DEF c
    <2> QED
      BY <1>1, <1>3, <2>1
  <1>5. \A k \in 1 .. p - 1 : c[k] = a[k]
    BY <1>1, <1>3, JoinedLeft
  <1>6. c[p] = r
    <2>1. c[Len(a) + 1] = one[1]
      <3>1. a \in Seq(S) /\ one \in Seq(S) /\ 1 \in 1 .. Len(one)
        BY <1>1, <1>3
      <3> QED
        BY <3>1, JoinedRight
    <2>2. Len(a) + 1 = p
      BY <1>1
    <2> QED
      BY <1>3, <2>1, <2>2
  <1> HIDE DEF c
  <1>7. t \in Seq(S) /\ Len(t) = Len(s) + 1
    <2>1. t \in Seq(S) /\ Len(t) = Len(c) + Len(b)
      BY <1>2, <1>4, JoinedLen, Zenon
    <2> HIDE DEF t
    <2> QED
      BY <1>2, <1>4, <2>1
  <1>8. \A k \in 1 .. p : t[k] = c[k]
    BY <1>2, <1>4, JoinedLeft
  <1>9. \A k \in 1 .. Len(s) + 1 - p : t[p + k] = b[k]
    BY <1>2, <1>4, JoinedRight
  <1> HIDE DEF t
  <1>10. ASSUME NEW k \in p .. Len(s) PROVE t[k + 1] = s[k]
    <2>1. k + 1 - p \in 1 .. Len(s) + 1 - p /\ p + (k + 1 - p) = k + 1 /\ p + (k + 1 - p) - 1 = k
      OBVIOUS
    <2>2. t[p + (k + 1 - p)] = b[k + 1 - p]
      BY <1>9, <2>1
    <2>3. b[k + 1 - p] = s[p + (k + 1 - p) - 1]
      BY <1>2, <2>1
    <2> QED
      BY <2>1, <2>2, <2>3
  <1>11. t[p] = r /\ \A k \in 1 .. p - 1 : t[k] = s[k]
    BY <1>1, <1>5, <1>6, <1>8
  <1>12. InsertAt(s, p, r) = t
    BY DEF InsertAt, t, c, one, a, b
  <1> QED
    BY <1>7, <1>10, <1>11, <1>12

LEMMA Removed ==
  ASSUME NEW S, NEW s \in Seq(S), NEW i \in 1 .. Len(s)
  PROVE  /\ RemoveAt(s, i) \in Seq(S)
         /\ Len(RemoveAt(s, i)) = Len(s) - 1
         /\ \A k \in 1 .. i - 1 : RemoveAt(s, i)[k] = s[k]
         /\ \A k \in i .. Len(s) - 1 : RemoveAt(s, i)[k] = s[k + 1]
  <1> DEFINE a == SubSeq(s, 1, i - 1)
             b == SubSeq(s, i + 1, Len(s))
             t == a \o b
  <1>1. a \in Seq(S) /\ Len(a) = i - 1 /\ \A k \in 1 .. i - 1 : a[k] = s[k]
    OBVIOUS
  <1>2. b \in Seq(S) /\ Len(b) = Len(s) - i /\ \A k \in 1 .. Len(s) - i : b[k] = s[i + k]
    OBVIOUS
  <1> HIDE DEF a, b
  <1>3. t \in Seq(S) /\ Len(t) = Len(s) - 1
    <2>1. t \in Seq(S) /\ Len(t) = Len(a) + Len(b)
      BY <1>1, <1>2, JoinedLen, Zenon
    <2> HIDE DEF t
    <2> QED
      BY <1>1, <1>2, <2>1
  <1>4. \A k \in 1 .. i - 1 : t[k] = a[k]
    BY <1>1, <1>2, JoinedLeft
  <1>5. \A k \in 1 .. Len(s) - i : t[i - 1 + k] = b[k]
    BY <1>1, <1>2, JoinedRight
  <1> HIDE DEF t
  <1>6. ASSUME NEW k \in i .. Len(s) - 1 PROVE t[k] = s[k + 1]
    <2>1. k - i + 1 \in 1 .. Len(s) - i /\ i - 1 + (k - i + 1) = k /\ i + (k - i + 1) = k + 1
      OBVIOUS
    <2>2. t[i - 1 + (k - i + 1)] = b[k - i + 1]
      BY <1>5, <2>1
    <2>3. b[k - i + 1] = s[i + (k - i + 1)]
      BY <1>2, <2>1
    <2> QED
      BY <2>1, <2>2, <2>3
  <1>7. RemoveAt(s, i) = t
    BY DEF RemoveAt, t, a, b
  <1> QED
    BY <1>1, <1>3, <1>4, <1>6, <1>7

LEMMA InsertKeeps ==
  ASSUME SourceInv, NEW p \in 1 .. Len(source) + 1, NEW r \in Records, r.id \notin IdsIn(source),
         source' = InsertAt(source, p, r)
  PROVE  source' \in Seq(Records) /\ Distinct'
  <1>1. source \in Seq(Records) /\ Len(source) \in Nat /\ DOMAIN source = 1 .. Len(source)
    BY LenProperties DEF SourceInv
  <1>2. /\ source' \in Seq(Records) /\ Len(source') = Len(source) + 1 /\ source'[p] = r
        /\ \A k \in 1 .. p - 1 : source'[k] = source[k]
        /\ \A k \in p .. Len(source) : source'[k + 1] = source[k]
    <2>1. /\ InsertAt(source, p, r) \in Seq(Records)
          /\ Len(InsertAt(source, p, r)) = Len(source) + 1
          /\ InsertAt(source, p, r)[p] = r
          /\ \A k \in 1 .. p - 1 : InsertAt(source, p, r)[k] = source[k]
          /\ \A k \in p .. Len(source) : InsertAt(source, p, r)[k + 1] = source[k]
      BY <1>1, Inserted
    <2> QED
      BY <2>1
  <1>3. DOMAIN source' = 1 .. Len(source) + 1
    BY <1>2, LenProperties
  <1>4. \A k \in DOMAIN source : source[k].id # r.id
    BY DEF IdsIn
  <1>5. ASSUME NEW k \in DOMAIN source'
        PROVE  \/ k < p /\ k \in DOMAIN source /\ source'[k] = source[k]
               \/ k = p /\ source'[k] = r
               \/ k > p /\ k - 1 \in DOMAIN source /\ source'[k] = source[k - 1]
    <2>1. k > p => k - 1 \in p .. Len(source) /\ k - 1 + 1 = k
      BY <1>1, <1>3
    <2>2. k > p => source'[k] = source[k - 1]
      BY <1>2, <2>1
    <2> QED
      BY <1>1, <1>2, <1>3, <2>2
  <1>6. Distinct'
    <2> SUFFICES ASSUME NEW i \in DOMAIN source', NEW j \in DOMAIN source',
                        source'[i].id = source'[j].id
                 PROVE  i = j
      BY DEF Distinct
    <2>1. i \in Nat /\ j \in Nat
      BY <1>1, <1>3
    <2> QED
      BY <1>1, <1>4, <1>5, <2>1 DEF SourceInv, Distinct
  <1> QED
    BY <1>2, <1>6

LEMMA RemoveKeeps ==
  ASSUME SourceInv, NEW i \in DOMAIN source, source' = RemoveAt(source, i)
  PROVE  source' \in Seq(Records) /\ Distinct'
  <1>1. source \in Seq(Records) /\ Len(source) \in Nat /\ DOMAIN source = 1 .. Len(source)
    BY LenProperties DEF SourceInv
  <1>2. /\ source' \in Seq(Records) /\ Len(source') = Len(source) - 1
        /\ \A k \in 1 .. i - 1 : source'[k] = source[k]
        /\ \A k \in i .. Len(source) - 1 : source'[k] = source[k + 1]
    <2>1. i \in 1 .. Len(source)
      BY <1>1
    <2> QED
      BY <1>1, <2>1, Removed, Zenon
  <1>3. DOMAIN source' = 1 .. Len(source) - 1
    BY <1>2, LenProperties
  <1>4. ASSUME NEW k \in DOMAIN source'
        PROVE  \/ k < i /\ k \in DOMAIN source /\ source'[k] = source[k]
               \/ k >= i /\ k + 1 \in DOMAIN source /\ source'[k] = source[k + 1]
    BY <1>1, <1>2, <1>3
  <1>5. Distinct'
    <2> SUFFICES ASSUME NEW j \in DOMAIN source', NEW k \in DOMAIN source',
                        source'[j].id = source'[k].id
                 PROVE  j = k
      BY DEF Distinct
    <2>1. j \in Nat /\ k \in Nat
      BY <1>1, <1>3
    <2> QED
      BY <1>1, <1>4, <2>1 DEF SourceInv, Distinct
  <1> QED
    BY <1>2, <1>5

LEMMA OfficeKeeps == SourceInv /\ SourceChanges => SourceInv' /\ changes' = changes + 1
  <1> SUFFICES ASSUME SourceInv, SourceChanges PROVE SourceInv' /\ changes' = changes + 1
    OBVIOUS
  <1>1. changes' = changes + 1 /\ changes' \in Nat
    BY DEF SourceInv, SourceChanges
  <1>2. source' \in Seq(Records) /\ Distinct'
    BY EditKeeps, InsertKeeps, RemoveKeeps DEF SourceChanges
  <1> QED
    BY <1>1, <1>2 DEF SourceInv

LEMMA SourceStays == SourceInv /\ UNCHANGED sourceVars => SourceInv'
  BY DEF SourceInv, Distinct, sourceVars

(* There are at most as many records as IDs.                                 *)
LEMMA CountOf ==
  ASSUME NEW s \in Seq(Records), \A i, j \in DOMAIN s : s[i].id = s[j].id => i = j
  PROVE  Len(s) \in 0 .. Cardinality(Ids) /\ Cardinality(IdsIn(s)) = Len(s)
  <1> DEFINE n == Len(s)
             f == [i \in 1 .. n |-> s[i].id]
  <1>1. n \in Nat /\ DOMAIN s = 1 .. n /\ \A i \in 1 .. n : s[i] \in Records
    BY LenProperties, ElementOfSeq
  <1>2. \A i \in 1 .. n : f[i] = s[i].id /\ s[i].id \in Ids
    BY <1>1 DEF Records
  <1>3. IdsIn(s) = {f[i] : i \in 1 .. n}
    BY <1>1, <1>2 DEF IdsIn
  <1>4. IdsIn(s) \subseteq Ids
    BY <1>1, <1>2 DEF IdsIn
  <1>5. IsFiniteSet(1 .. n) /\ Cardinality(1 .. n) = n
    BY <1>1, FS_Interval
  <1>6. f \in Surjection(1 .. n, IdsIn(s)) /\ f \in Injection(1 .. n, IdsIn(s))
    <2>1. f \in [1 .. n -> IdsIn(s)]
      BY <1>1 DEF IdsIn
    <2>2. \A i, j \in 1 .. n : f[i] = f[j] => i = j
      BY <1>1, <1>2
    <2>3. \A x \in IdsIn(s) : \E i \in 1 .. n : f[i] = x
      BY <1>3
    <2> HIDE DEF f
    <2> QED
      BY <2>1, <2>2, <2>3 DEF Injection, Surjection, IsInjective
  <1>7. Cardinality(IdsIn(s)) = n
    <2> HIDE DEF f, n
    <2> QED
      BY <1>5, <1>6, FS_Surjection
  <1>8. Cardinality(IdsIn(s)) <= Cardinality(Ids) /\ Cardinality(Ids) \in Nat
    BY <1>4, FS_Subset, FS_CardinalityType, SourceAssumption
  <1> QED
    BY <1>1, <1>7, <1>8

LEMMA SourceCount ==
  SourceInv => Len(source) \in 0 .. Cardinality(Ids) /\ Cardinality(IdsIn(source)) = Len(source)
  BY CountOf DEF SourceInv, Distinct

LEMMA SourceTypesStart == SourceInit => SourceTypeOK
  BY SourceStarts, SourceCount, SourceAssumption DEF SourceTypeOK, SourceInv, SourceInit

LEMMA SourceTypesStay ==
  SourceInv /\ SourceTypeOK /\ (SourceChanges \/ UNCHANGED sourceVars) => SourceTypeOK'
  <1> SUFFICES ASSUME SourceInv, SourceTypeOK, SourceChanges \/ UNCHANGED sourceVars
               PROVE  SourceTypeOK'
    OBVIOUS
  <1>1. SourceInv'
    BY OfficeKeeps, SourceStays
  <1>2. /\ source' \in Seq(Records)
        /\ Cardinality(IdsIn(source')) = Len(source')
    BY <1>1, CountOf DEF SourceInv, Distinct
  <1>3. changes' \in 0 .. MaxChanges
    BY SourceAssumption DEF SourceTypeOK, SourceChanges, sourceVars
  <1> QED
    BY <1>2, <1>3 DEF SourceTypeOK, IdsIn

(* A page that is not refused holds the records that follow its offset.      *)
LEMMA PageParts ==
  ASSUME source \in Seq(Records), NEW o \in Nat, o <= Len(source)
  PROVE  LET last == IF o + Limit < Len(source) THEN o + Limit ELSE Len(source) IN
         /\ last \in Nat /\ o <= last /\ last <= Len(source)
         /\ Page(o) \in Seq(Records) /\ Len(Page(o)) = last - o
         /\ DOMAIN Page(o) = 1 .. last - o
         /\ \A k \in 1 .. last - o : Page(o)[k] = source[o + k]
  <1> DEFINE last == IF o + Limit < Len(source) THEN o + Limit ELSE Len(source)
  <1>1. Len(source) \in Nat
    BY LenProperties
  <1>2. last \in Nat /\ o <= last /\ last <= Len(source)
    BY <1>1, SourceAssumption
  <1>3. Page(o) = SubSeq(source, o + 1, last)
    BY DEF Page
  <1> HIDE DEF last
  <1>4. /\ Page(o) \in Seq(Records) /\ Len(Page(o)) = last - o
        /\ DOMAIN Page(o) = 1 .. last - o
        /\ \A k \in 1 .. last - o : Page(o)[k] = source[o + k]
    BY <1>1, <1>2, <1>3
  <1> QED
    BY <1>2, <1>4 DEF last
=============================================================================
