---------------------------- MODULE AdvboxProofs ----------------------------
(* The snapshot a manifest is reconciled with, for collections, pages and    *)
(* manifests of any length, also while a synchronisation runs.  The argument *)
(* has two halves: matching depends only on lawsuits that share an identifier*)
(* with an item, and a read during which nothing changed has seen, at every  *)
(* page, all there is up to there.                                           *)
EXTENDS Advbox, AdvboxSyncProofs

-----------------------------------------------------------------------------
(* Matching *)

LEMMA SameDesignated ==
  ASSUME NEW items, NEW cands, NEW i \in DOMAIN items, ~Unidentified(items[i])
  PROVE  Designated(items[i], Relevant(items, cands)) = Designated(items[i], cands)
  <1> DEFINE item == items[i]
  <1>1. ASSUME NEW c \in cands, Designates(item, c) PROVE c \in Relevant(items, cands)
    <2>1. CASE Normal(item.number) # NoText
      <3>1. item.number = Normal(item.number) /\ item.number # NoText
        BY <2>1 DEF Normal
      <3> QED
        BY <1>1, <2>1, <3>1 DEF Designates, Relevant
    <2>2. CASE Normal(item.number) = NoText
      <3>1. item.folder # NoText
        BY <2>2 DEF Unidentified
      <3> QED
        BY <1>1, <2>2, <3>1 DEF Designates, Relevant
    <2> QED
      BY <2>1, <2>2
  <1>2. Relevant(items, cands) \subseteq cands
    BY DEF Relevant
  <1> QED
    BY <1>1, <1>2 DEF Designated

LEMMA SameCandidate ==
  ASSUME NEW items, NEW cands, NEW i \in DOMAIN items
  PROVE  Candidate(items, i, Relevant(items, cands)) = Candidate(items, i, cands)
  BY SameDesignated DEF Candidate

LEMMA SameStatus ==
  ASSUME NEW items, NEW cands, NEW i \in DOMAIN items
  PROVE  MatchStatus(items, i, Relevant(items, cands)) = MatchStatus(items, i, cands)
  <1>1. Taken(items, i, Relevant(items, cands)) = Taken(items, i, cands)
    BY SameCandidate DEF Taken
  <1>2. CASE RepeatedInSource(items, i) \/ Unidentified(items[i])
    BY <1>2 DEF MatchStatus
  <1>3. CASE ~RepeatedInSource(items, i) /\ ~Unidentified(items[i])
    BY <1>1, <1>3, SameDesignated, SameCandidate DEF MatchStatus
  <1> QED
    BY <1>2, <1>3

(* reconcile_items gives the same answer from the lawsuits RelevantKeys      *)
(* selects as from all of them, whatever the manifest and the collection.    *)
THEOREM RelevantSuffices ==
  ASSUME NEW items, NEW cands
  PROVE  Reconcile(items, Relevant(items, cands)) = Reconcile(items, cands)
  <1>1. \A i \in DOMAIN items :
          /\ MatchStatus(items, i, Relevant(items, cands)) = MatchStatus(items, i, cands)
          /\ Candidate(items, i, Relevant(items, cands)) = Candidate(items, i, cands)
    BY SameStatus, SameCandidate
  <1> QED
    BY <1>1 DEF Reconcile

(* A lawsuit goes to one item, and only to one that designates it.           *)
LEMMA ReconcileInjective ==
  ASSUME NEW items, NEW cands, NEW i \in DOMAIN items,
         NEW id \in Reconcile(items, cands)[i].ids
  PROVE  /\ \A j \in DOMAIN items \ {i} : id \notin Reconcile(items, cands)[j].ids
         /\ \E c \in cands : c.id = id /\ Designates(items[i], c)
  <1>1. ASSUME NEW j \in DOMAIN items, id \in Reconcile(items, cands)[j].ids
        PROVE  /\ MatchStatus(items, j, cands) = "matched"
               /\ \E c \in Candidate(items, j, cands) : c.id = id
    BY <1>1 DEF Reconcile
  <1>2. MatchStatus(items, i, cands) = "matched" /\ \E c \in Candidate(items, i, cands) : c.id = id
    BY <1>1
  <1>3. ~Taken(items, i, cands)
    BY <1>2 DEF MatchStatus
  <1>4. ASSUME NEW j \in DOMAIN items \ {i}, id \in Reconcile(items, cands)[j].ids PROVE FALSE
    <2>1. \E c \in Candidate(items, j, cands) : c.id = id
      BY <1>1, <1>4
    <2> QED
      BY <1>2, <1>3, <2>1 DEF Taken
  <1>5. Candidate(items, i, cands) \subseteq {c \in cands : Designates(items[i], c)}
    BY DEF Candidate, Designated
  <1> QED
    BY <1>2, <1>4, <1>5

-----------------------------------------------------------------------------
(* Pages *)

LEMMA ProjectedPart ==
  ASSUME NEW s \in Seq(Records), NEW a \in Nat \ {0}, NEW b \in Nat, a <= b + 1, b <= Len(s)
  PROVE  Projected(SubSeq(s, a, b)) = {Project(s[i]) : i \in a .. b} /\ Len(SubSeq(s, a, b)) = b + 1 - a
  <1> DEFINE t == SubSeq(s, a, b)
  <1>1. Len(t) = b + 1 - a /\ DOMAIN t = 1 .. (b + 1 - a)
    OBVIOUS
  <1>2. \A i \in 1 .. (b + 1 - a) : t[i] = s[a + i - 1]
    OBVIOUS
  <1> HIDE DEF t
  <1>3. \A i \in DOMAIN t : t[i] = s[a + i - 1] /\ a + i - 1 \in a .. b
    BY <1>1, <1>2
  <1>4. \A j \in a .. b : j - a + 1 \in DOMAIN t /\ t[j - a + 1] = s[j]
    BY <1>1, <1>2
  <1>5. \A x : x \in Projected(t) <=> \E i \in DOMAIN t : x = Project(t[i])
    BY DEF Projected
  <1>6. \A x : x \in {Project(s[i]) : i \in a .. b} <=> \E j \in a .. b : x = Project(s[j])
    OBVIOUS
  <1>7. ASSUME NEW x PROVE (\E i \in DOMAIN t : x = Project(t[i])) <=> (\E j \in a .. b : x = Project(s[j]))
    BY <1>3, <1>4
  <1> QED
    BY <1>1, <1>5, <1>6, <1>7 DEF t

-----------------------------------------------------------------------------
(* The two reads *)

Scans == [next : Nat, total : Nat \cup {Unread}, cands : SUBSET Cand]
Read(n) == scans[n].total # Unread /\ scans[n].next = scans[n].total

ReadTypes ==
    /\ SourceInv
    /\ reading \in Reads \cup {"idle", "done", "failed"}
    /\ scans \in [Reads -> Scans]
    /\ photo \in [Reads -> Seq(Records)]
    /\ steady \in [Reads -> BOOLEAN]

(* What is being read has not changed since its photograph.                  *)
Current == reading \in Reads /\ steady[reading] => photo[reading] = source

(* A steady read has collected the beginning of its photograph.              *)
Prefix == \A n \in Reads : steady[n] =>
    /\ scans[n].next <= Len(photo[n])
    /\ scans[n].cands = {Project(photo[n][i]) : i \in 1 .. scans[n].next}
    /\ scans[n].total \in {Unread, Len(photo[n])}

(* How far the reads have come.                                              *)
Progress ==
    /\ reading \in {"idle", "first"} => scans["second"] = NoScan /\ ~steady["second"]
    /\ reading \in {"second", "done"} => Read("first")
    /\ reading = "done" => Read("second") /\ Agree

ReadInv == ReadTypes /\ Current /\ Prefix /\ Progress

LEMMA ReadStarts == SourceInit /\ ReadInit => ReadInv
  <1> SUFFICES ASSUME SourceInit, ReadInit PROVE ReadInv
    OBVIOUS
  <1>1. SourceInv /\ source \in Seq(Records)
    BY SourceStarts DEF SourceInv
  <1>2. scans = [n \in Reads |-> NoScan] /\ NoScan \in Scans
    BY DEF ReadInit, NoScan, Scans
  <1>3. photo = [n \in Reads |-> source] /\ steady = [n \in Reads |-> n = "first"]
    BY DEF ReadInit
  <1>4. ReadTypes
    BY <1>1, <1>2, <1>3 DEF ReadTypes, ReadInit, Reads
  <1>5. Prefix
    BY <1>1, <1>2, <1>3, LenProperties DEF Prefix, NoScan
  <1>6. Current /\ Progress
    BY <1>2, <1>3 DEF ReadInit, Current, Progress, Reads
  <1> QED
    BY <1>4, <1>5, <1>6 DEF ReadInv

LEMMA ProjectTypes == \A s \in Seq(Records) : Projected(s) \subseteq Cand
  <1>1. \A r \in Records : Project(r) \in Cand
    BY DEF Records, Project, Cand, Normal
  <1> QED
    BY <1>1, ElementOfSeq DEF Projected

LEMMA AdvanceInv == ReadInv /\ AdvanceScan => ReadInv'
  <1> SUFFICES ASSUME ReadInv, AdvanceScan PROVE ReadInv'
    OBVIOUS
  <1> DEFINE m == scans[reading].next
             last == IF m + Limit < Len(source) THEN m + Limit ELSE Len(source)
             page == SubSeq(source, m + 1, last)
             new == [next |-> m + Len(page), total |-> Len(source),
                     cands |-> scans[reading].cands \cup Projected(page)]
  <1>1. /\ source \in Seq(Records) /\ reading \in Reads /\ m \in Nat /\ m <= Len(source)
        /\ scans[reading] \in Scans /\ Len(source) \in Nat
    BY LenProperties DEF ReadInv, ReadTypes, SourceInv, Scans, AdvanceScan, Refused, Scan
  <1>2. /\ last \in Nat /\ m <= last /\ last <= Len(source)
        /\ Projected(page) = {Project(source[i]) : i \in m + 1 .. last} /\ Len(page) = last - m
        /\ page \in Seq(Records)
    <2>1. last \in Nat /\ m <= last /\ last <= Len(source)
      BY <1>1, SourceAssumption
    <2> HIDE DEF last
    <2>2. Projected(page) = {Project(source[i]) : i \in m + 1 .. last} /\ Len(page) = last + 1 - (m + 1)
      <3> HIDE DEF m
      <3>1. m + 1 \in Nat \ {0} /\ m + 1 <= last + 1
        BY <1>1, <2>1
      <3> QED
        BY <1>1, <2>1, <3>1, ProjectedPart
    <2>3. page \in Seq(Records)
      BY <1>1, <2>1
    <2> QED
      BY <1>1, <2>1, <2>2, <2>3
  <1>3. scans' = [scans EXCEPT ![reading] = new]
    BY DEF AdvanceScan, Scan, Page
  <1>4. UNCHANGED <<source, reading, photo, steady>> /\ SourceInv'
    BY SourceStays DEF AdvanceScan, sourceVars, ReadInv, ReadTypes
  <1>5. /\ new.next = last /\ new.total = Len(source)
        /\ new.cands = scans[reading].cands \cup Projected(page)
    BY <1>1, <1>2
  <1>6. new \in Scans
    <2>1. new.next \in Nat /\ new.total \in Nat
      BY <1>1, <1>2, <1>5
    <2>2. new.cands \subseteq Cand
      <3>1. Projected(page) \subseteq Cand
        BY <1>2, ProjectTypes
      <3> HIDE DEF page
      <3> QED
        BY <1>1, <3>1 DEF Scans
    <2>3. new = [next |-> new.next, total |-> new.total, cands |-> new.cands]
      OBVIOUS
    <2> HIDE DEF new
    <2> QED
      BY <2>1, <2>2, <2>3 DEF Scans
  <1> HIDE DEF new, page, last
  <1>7. ReadTypes'
    BY <1>3, <1>4, <1>6 DEF ReadInv, ReadTypes
  <1>8. ASSUME steady[reading]
        PROVE  /\ new.next <= Len(photo[reading])
               /\ new.cands = {Project(photo[reading][i]) : i \in 1 .. new.next}
               /\ new.total \in {Unread, Len(photo[reading])}
    <2>1. photo[reading] = source /\ scans[reading].cands = {Project(source[i]) : i \in 1 .. m}
      BY <1>1, <1>8 DEF ReadInv, Current, Prefix
    <2>2. 1 .. last = (1 .. m) \cup (m + 1 .. last)
      BY <1>1, <1>2
    <2>3. new.cands = {Project(source[i]) : i \in 1 .. last}
      BY <1>2, <1>5, <2>1, <2>2
    <2> QED
      BY <1>2, <1>5, <2>1, <2>3
  <1>9. Prefix'
    BY <1>1, <1>3, <1>4, <1>8 DEF ReadInv, ReadTypes, Prefix
  <1>10. Current'
    BY <1>4 DEF ReadInv, Current
  <1>11. Progress'
    <2>1. CASE reading = "first"
      BY <1>3, <1>4, <2>1 DEF ReadInv, ReadTypes, Progress, Reads
    <2>2. CASE reading = "second"
      BY <1>3, <1>4, <2>2 DEF ReadInv, ReadTypes, Progress, Reads, Read
    <2> QED
      BY <1>1, <2>1, <2>2 DEF Reads
  <1> QED
    BY <1>7, <1>9, <1>10, <1>11 DEF ReadInv

LEMMA ReadContinues == ReadInv /\ [ReadNext]_<<sourceVars, readVars>> => ReadInv'
  <1> SUFFICES ASSUME ReadInv, [ReadNext]_<<sourceVars, readVars>> PROVE ReadInv'
    OBVIOUS
  <1>1. CASE AdvanceScan
    BY <1>1, AdvanceInv
  <1>2. CASE RetryPage \/ UNCHANGED <<sourceVars, readVars>>
    <2>1. UNCHANGED <<sourceVars, reading, scans, photo, steady>>
      BY <1>2 DEF RetryPage, readVars
    <2>2. SourceInv' /\ UNCHANGED source
      BY <2>1, SourceStays DEF ReadInv, ReadTypes, sourceVars
    <2>3. ReadTypes' /\ Current' /\ Prefix'
      BY <2>1, <2>2 DEF ReadInv, ReadTypes, Current, Prefix
    <2>4. Progress'
      BY <2>1 DEF ReadInv, Progress, Read, Agree
    <2> QED
      BY <2>3, <2>4 DEF ReadInv
  <1>3. CASE FailScan
    BY <1>3, SourceStays DEF FailScan, sourceVars, ReadInv, ReadTypes, Current, Prefix, Progress, Reads
  <1>4. CASE BeginSecond
    <2>1. /\ reading = "first" /\ reading' = "second" /\ UNCHANGED <<source, scans>>
          /\ photo' = [photo EXCEPT !["second"] = source]
          /\ steady' = [steady EXCEPT !["second"] = TRUE]
          /\ Read("first") /\ SourceInv'
      BY <1>4, SourceStays DEF ReadInv, ReadTypes, BeginSecond, sourceVars, ScanComplete, Scan, Read
    <2>2. ReadTypes' /\ Current'
      BY <2>1 DEF ReadInv, ReadTypes, SourceInv, Current, Reads
    <2>3. scans["second"] = NoScan
      BY <2>1 DEF ReadInv, Progress
    <2>4. Prefix'
      <3>1. /\ photo'["second"] = source /\ photo'["first"] = photo["first"]
            /\ steady'["first"] = steady["first"]
        BY <2>1 DEF ReadInv, ReadTypes, Reads
      <3>2. NoScan.next = 0 /\ NoScan.cands = {} /\ NoScan.total = Unread
        BY DEF NoScan
      <3>3. 0 <= Len(source) /\ 1 .. 0 = {}
        BY LenProperties DEF ReadInv, ReadTypes, SourceInv
      <3> QED
        BY <2>1, <2>3, <3>1, <3>2, <3>3 DEF ReadInv, Prefix, Reads
    <2>5. Progress'
      BY <2>1 DEF Progress, Read
    <2> QED
      BY <2>2, <2>4, <2>5 DEF ReadInv
  <1>5. CASE Compare
    <2>1. /\ reading = "second" /\ reading' = (IF Agree THEN "done" ELSE "failed")
          /\ UNCHANGED <<source, scans, photo, steady>> /\ Read("second") /\ Read("first")
          /\ SourceInv'
      BY <1>5, SourceStays DEF ReadTypes, Compare, sourceVars, ScanComplete, Scan, Read, ReadInv, Progress
    <2>2. ReadTypes' /\ Current' /\ Prefix'
      BY <2>1 DEF ReadInv, ReadTypes, Current, Prefix, Reads
    <2>3. Progress'
      BY <2>1 DEF Progress, Read, Agree
    <2> QED
      BY <2>2, <2>3 DEF ReadInv
  <1>6. CASE OfficeEdits
    <2>1. /\ reading \in Reads /\ UNCHANGED <<reading, scans, photo>>
          /\ steady' = [steady EXCEPT ![reading] = FALSE]
          /\ SourceInv'
      BY <1>6, OfficeKeeps DEF OfficeEdits, ReadInv, ReadTypes
    <2>2. ReadTypes' /\ Current' /\ Prefix'
      BY <2>1 DEF ReadInv, ReadTypes, Current, Prefix, Reads
    <2>3. Progress'
      BY <2>1 DEF ReadInv, ReadTypes, Progress, Read, Agree, Reads
    <2> QED
      BY <2>2, <2>3 DEF ReadInv
  <1> QED
    BY <1>1, <1>2, <1>3, <1>4, <1>5, <1>6 DEF ReadNext

-----------------------------------------------------------------------------
(* Types of the reads, with their bounds *)

LEMMA ReadTypesStart == SourceTypeOK /\ ReadInit => ReadTypeOK
  <1> SUFFICES ASSUME SourceTypeOK, ReadInit PROVE ReadTypeOK
    OBVIOUS
  <1>1. NoScan \in [next : 0 .. Cardinality(Ids), total : {Unread} \cup 0 .. Cardinality(Ids),
                    cands : SUBSET Cand]
    BY FS_CardinalityType, SourceAssumption DEF NoScan
  <1> QED
    BY <1>1, SourceAssumption DEF ReadInit, ReadTypeOK, SourceTypeOK, Reads

LEMMA AdvanceTyped ==
  ASSUME ReadInv, ReadTypeOK, AdvanceScan PROVE ReadTypeOK'
  <1> DEFINE m == scans[reading].next
             page == Page(m)
             new == [next |-> m + Len(page), total |-> Len(source),
                     cands |-> scans[reading].cands \cup Projected(page)]
  <1>1. m \in Nat /\ m <= Len(source) /\ source \in Seq(Records) /\ reading \in Reads
    BY LenProperties DEF ReadInv, ReadTypes, SourceInv, Scans, AdvanceScan, Refused, Scan
  <1>2. page \in Seq(Records) /\ Len(page) \in Nat /\ m + Len(page) <= Len(source)
    <2> HIDE DEF m
    <2> QED
      BY <1>1, PageParts
  <1>3. Len(source) \in 0 .. Cardinality(Ids) /\ Cardinality(Ids) \in Nat
    BY SourceCount, FS_CardinalityType, SourceAssumption DEF ReadInv, ReadTypes
  <1>4. m + Len(page) \in 0 .. Cardinality(Ids)
    BY <1>1, <1>2, <1>3
  <1>5. Projected(page) \subseteq Cand /\ scans[reading].cands \subseteq Cand
    BY <1>1, <1>2, ProjectTypes DEF ReadTypeOK
  <1>6. scans' = [scans EXCEPT ![reading] = new]
    BY DEF AdvanceScan, Scan
  <1>7. UNCHANGED <<reading, photo, steady>> /\ tries' = 0
    BY DEF AdvanceScan
  <1>8. new \in [next : 0 .. Cardinality(Ids), total : {Unread} \cup 0 .. Cardinality(Ids),
                 cands : SUBSET Cand]
    <2> HIDE DEF page, m
    <2> QED
      BY <1>3, <1>4, <1>5
  <1> HIDE DEF new
  <1>9. scans' \in [Reads -> [next : 0 .. Cardinality(Ids), total : {Unread} \cup 0 .. Cardinality(Ids),
                             cands : SUBSET Cand]]
    BY <1>6, <1>8 DEF ReadTypeOK
  <1>10. tries' \in 0 .. MaxRetries
    BY <1>7, SourceAssumption
  <1> QED
    BY <1>7, <1>9, <1>10 DEF ReadTypeOK

LEMMA ReadTypesStay ==
  ReadInv /\ ReadTypeOK /\ (ReadNext \/ UNCHANGED readVars) => ReadTypeOK'
  <1> SUFFICES ASSUME ReadInv, ReadTypeOK, ReadNext \/ UNCHANGED readVars PROVE ReadTypeOK'
    OBVIOUS
  <1>1. CASE AdvanceScan
    BY <1>1, AdvanceTyped
  <1>2. CASE RetryPage
    BY <1>2, SourceAssumption DEF RetryPage, ReadTypeOK
  <1>3. CASE FailScan
    BY <1>3 DEF FailScan, ReadTypeOK
  <1>4. CASE BeginSecond
    <2>1. \A n \in Reads : photo'[n] \in Seq(Records)
      BY <1>4 DEF BeginSecond, ReadInv, ReadTypes, SourceInv
    <2> QED
      BY <1>4, <2>1 DEF BeginSecond, ReadTypeOK, Reads
  <1>5. CASE Compare
    BY <1>5 DEF Compare, ReadTypeOK
  <1>6. CASE OfficeEdits
    BY <1>6 DEF OfficeEdits, ReadTypeOK
  <1>7. CASE UNCHANGED readVars
    BY <1>7 DEF readVars, ReadTypeOK
  <1> QED
    BY <1>1, <1>2, <1>3, <1>4, <1>5, <1>6, <1>7 DEF ReadNext

-----------------------------------------------------------------------------
(* Both readers *)

(* To the synchronisation, a read is nothing, but for what the office does   *)
(* meanwhile.                                                                *)
LEMMA NextIsSync == Next => [SyncNext]_<<sourceVars, syncVars>>
  <1> SUFFICES ASSUME ReadNext, UNCHANGED syncVars PROVE [SyncNext]_<<sourceVars, syncVars>>
    BY DEF Next
  <1>1. CASE OfficeEdits
    BY <1>1 DEF OfficeEdits, SyncNext
  <1>2. CASE ~OfficeEdits
    <2>1. UNCHANGED sourceVars
      BY <1>2 DEF ReadNext, AdvanceScan, RetryPage, FailScan, BeginSecond, Compare
    <2> QED
      BY <2>1
  <1> QED
    BY <1>1, <1>2

(* And a synchronisation disturbs no read.                                   *)
LEMMA SyncKeepsReads ==
  ASSUME ReadInv, SyncNext, UNCHANGED readVars, reading \in Reads => UNCHANGED sourceVars
  PROVE  ReadInv'
  <1>1. UNCHANGED <<reading, scans, photo, steady>>
    BY DEF readVars
  <1>2. SourceInv'
    <2>1. SourceChanges \/ UNCHANGED sourceVars
      BY DEF SyncNext, Start, Reprocess, Begin, NewBatch, ReferenceArrives, ReadPage, Retry,
             FailPage, Finish, Crash
    <2> QED
      BY <2>1, OfficeKeeps, SourceStays DEF ReadInv, ReadTypes
  <1>3. ReadTypes' /\ Prefix'
    BY <1>1, <1>2 DEF ReadInv, ReadTypes, Prefix
  <1>4. Current'
    BY <1>1 DEF ReadInv, Current, sourceVars
  <1>5. Progress'
    BY <1>1 DEF ReadInv, Progress, Read, Agree
  <1> QED
    BY <1>3, <1>4, <1>5 DEF ReadInv

LEMMA BothRead == ReadInv /\ [Next]_vars => ReadInv'
  <1> SUFFICES ASSUME ReadInv, [Next]_vars PROVE ReadInv'
    OBVIOUS
  <1>1. CASE SyncNext /\ UNCHANGED readVars /\ (reading \in Reads => UNCHANGED sourceVars)
    BY <1>1, SyncKeepsReads
  <1>2. CASE ReadNext
    BY <1>2, ReadContinues
  <1>3. CASE UNCHANGED vars
    BY <1>3, ReadContinues DEF vars
  <1> QED
    BY <1>1, <1>2, <1>3 DEF Next

LEMMA StepOfBoth ==
  [Next]_vars => /\ [SyncNext]_<<sourceVars, syncVars>>
                 /\ SourceChanges \/ UNCHANGED sourceVars
                 /\ ReadNext \/ UNCHANGED readVars
  <1> SUFFICES ASSUME [Next]_vars
               PROVE  /\ [SyncNext]_<<sourceVars, syncVars>>
                      /\ SourceChanges \/ UNCHANGED sourceVars
                      /\ ReadNext \/ UNCHANGED readVars
    OBVIOUS
  <1>1. [SyncNext]_<<sourceVars, syncVars>>
    BY NextIsSync DEF vars
  <1>2. SourceChanges \/ UNCHANGED sourceVars
    BY <1>1 DEF SyncNext, Start, Reprocess, Begin, NewBatch, ReferenceArrives, ReadPage, Retry,
                FailPage, Finish, Crash
  <1>3. ReadNext \/ UNCHANGED readVars
    BY DEF Next, vars
  <1> QED
    BY <1>1, <1>2, <1>3

(* Advbox!TypeOK: no offset, total or error is ever beyond the records there *)
(* can be, and no page is tried more often than allowed, in either reader.   *)
THEOREM AdvboxTyped == Spec => []TypeOK
  <1>1. Init => SyncInv /\ ReadInv /\ TypeOK
    BY InitInv, ReadStarts, SourceTypesStart, SyncTypesStart, ReadTypesStart DEF Init, TypeOK
  <1>2. SyncInv /\ ReadInv /\ TypeOK /\ [Next]_vars => SyncInv' /\ ReadInv' /\ TypeOK'
    <2> SUFFICES ASSUME SyncInv, ReadInv, TypeOK, [Next]_vars
                 PROVE  SyncInv' /\ ReadInv' /\ TypeOK'
      OBVIOUS
    <2>1. SyncInv' /\ ReadInv'
      BY StepOfBoth, NextInv, BothRead
    <2>2. SourceTypeOK'
      BY StepOfBoth, SourceTypesStay DEF TypeOK, ReadInv, ReadTypes
    <2>3. SyncTypeOK'
      BY StepOfBoth, SyncTypesStay DEF TypeOK
    <2>4. ReadTypeOK'
      BY StepOfBoth, ReadTypesStay DEF TypeOK
    <2> QED
      BY <2>1, <2>2, <2>3, <2>4 DEF TypeOK
  <1> QED
    BY <1>1, <1>2, PTL DEF Spec

LEMMA SyncWithReads == Spec => SyncSpec
  <1>1. Init => SourceInit /\ SyncInit
    BY DEF Init
  <1>2. [Next]_vars => [SyncNext]_<<sourceVars, syncVars>>
    BY StepOfBoth
  <1> QED
    BY <1>1, <1>2, PTL DEF Spec, SyncSpec

(* AdvboxSync!SucceededComplete and ReprocessHeals: what the synchronisation *)
(* guarantees alone it guarantees while lawsuits are being read.             *)
THEOREM ReadsHarmless == Spec => []SucceededComplete /\ ReprocessHeals
  BY SyncWithReads, SyncsComplete, ReprocessingHeals, PTL

(* SnapshotRead!MatchedAsInSource: a read during which the office changed    *)
(* nothing stands behind every matching that is used, for collections,       *)
(* pages and manifests of any length and any number of changes.              *)
THEOREM ReadsTrustworthy == Spec => []MatchedAsInSource
  <1>1. ReadInv => MatchedAsInSource
    <2> SUFFICES ASSUME ReadInv, reading = "done", NEW n \in Reads, steady[n]
                 PROVE  Reconcile(Items, scans["first"].cands) = Reconcile(Items, Projected(photo[n]))
      BY DEF MatchedAsInSource
    <2>1. Read(n) /\ Agree
      BY DEF ReadInv, Progress, Reads
    <2>2. photo[n] \in Seq(Records) /\ scans[n].next = Len(photo[n])
      BY <2>1 DEF ReadInv, ReadTypes, Prefix, Read
    <2>3. scans[n].cands = {Project(photo[n][i]) : i \in 1 .. Len(photo[n])}
      BY <2>2 DEF ReadInv, Prefix
    <2>4. DOMAIN photo[n] = 1 .. Len(photo[n])
      BY <2>2, LenProperties
    <2>5. scans[n].cands = Projected(photo[n])
      BY <2>3, <2>4 DEF Projected
    <2>6. Relevant(Items, scans["first"].cands) = Relevant(Items, scans[n].cands)
      BY <2>1 DEF Agree, Reads
    <2> QED
      BY <2>5, <2>6, RelevantSuffices
  <1>2. Init => ReadInv
    BY ReadStarts DEF Init
  <1> QED
    BY <1>1, <1>2, BothRead, PTL DEF Spec

(* SnapshotRead!OneItemPerLawsuit: no lawsuit is given to two items, and an  *)
(* item gets only a lawsuit that was seen with its identifier.               *)
THEOREM LawsuitsGivenOnce == Spec => []OneItemPerLawsuit
  <1>1. OneItemPerLawsuit
    <2>1. DOMAIN Reconcile(Items, scans["first"].cands) = DOMAIN Items
      BY DEF Reconcile
    <2> QED
      BY <2>1, ReconcileInjective DEF OneItemPerLawsuit
  <1> QED
    BY <1>1, PTL
=============================================================================
