-------------------------- MODULE AdvboxSyncProofs --------------------------
(* The synchronisation, for collections, pages and references of any number  *)
(* and any number of failures, crashes and resumptions.  The argument is that*)
(* every record up to any place a run can go on from is either stored with   *)
(* all it refers to or on a page with an open error.                         *)
EXTENDS AdvboxSync, AdvboxSourceProofs, WellFoundedInduction

(* The source is the one the run began with.                                 *)
Same == run.status # "none" /\ changes = run.born

Full(r) == [id |-> r.id, v |-> r.v, links |-> RefersTo[r]]
InPage(i, e) == e.at < i /\ i <= e.at + Limit
Covered(i) == Full(source[i]) \in rows \/ \E e \in run.errors : InPage(i, e)

(* Where an execution is or may begin.                                       *)
Bases == {run.next, job.offset} \cup {e.at : e \in run.errors}

Statuses == {"none", "running", "partial", "failed", "succeeded"}
Errors == [at : Nat, code : Codes]

Types ==
    /\ SourceInv
    /\ run \in [status : Statuses, next : Nat, total : Nat \cup {Unread}, fetched : BOOLEAN,
                errors : SUBSET Errors, born : Nat]
    /\ job \in [on : BOOLEAN, offset : Nat, total : Nat \cup {Unread}, tries : Nat,
                read : BOOLEAN, heals : BOOLEAN]
    /\ run.status = "none" => run = NoRun
    /\ run.born <= changes
    /\ IF job.on THEN run.status = "running" /\ job.total = run.total ELSE job = NoJob

(* A row is linked to rows that are there.                                   *)
Linked == \A o \in rows : o.links \subseteq known

(* What has been passed is stored or noted.                                  *)
Reached == Same =>
    /\ run.total \in {Unread, Len(source)}
    /\ \A b \in Bases : \A i \in DOMAIN source : i <= b => Covered(i)

Succeeded == run.status = "succeeded" =>
    run.errors = {} /\ SucceededComplete

SyncInv == Types /\ Linked /\ Reached /\ Succeeded

-----------------------------------------------------------------------------
(* Rows *)

LEMMA StoredFull ==
  ASSUME NEW old, NEW records, NEW j \in DOMAIN records, RefersTo[records[j]] \subseteq known
  PROVE  Full(records[j]) \in Stored(old, records)
  <1>1. RefersTo[records[j]] \ known = {} /\ RefersTo[records[j]] \cap known = RefersTo[records[j]]
    OBVIOUS
  <1>2. Full(records[j]) \in Upserted(records[j])
    BY <1>1 DEF Upserted, Full
  <1> QED
    BY <1>2 DEF Stored

LEMMA StoredKeeps ==
  ASSUME NEW old, NEW records, NEW r, Full(r) \in old, RefersTo[r] \subseteq known,
         \A j \in DOMAIN records : records[j].id = r.id => records[j] = r
  PROVE  Full(r) \in Stored(old, records)
  <1>1. CASE \E j \in DOMAIN records : records[j] = r
    BY <1>1, StoredFull
  <1>2. CASE \A j \in DOMAIN records : records[j].id # r.id
    <2>1. \A j \in DOMAIN records : Full(r) \notin Replaced(records[j], old)
      BY <1>2 DEF Replaced, Full
    <2> QED
      BY <2>1 DEF Stored
  <1> QED
    BY <1>1, <1>2

LEMMA StoredLinked ==
  ASSUME NEW old, NEW records, \A o \in old : o.links \subseteq known
  PROVE  \A o \in Stored(old, records) : o.links \subseteq known
  <1>1. \A r : \A o \in Upserted(r) : o.links \subseteq known
    BY DEF Upserted
  <1> QED
    BY <1>1 DEF Stored

-----------------------------------------------------------------------------
(* The first page with an open error *)

LEMMA LeastOf ==
  ASSUME NEW S \in SUBSET Nat, S # {}
  PROVE  Least(S) \in S /\ \A m \in S : Least(S) <= m
  <1>1. PICK x \in S : \A y \in S : ~(<<y, x>> \in OpToRel(<, Nat))
    BY WFMin, NatLessThanWellFounded, Zenon
  <1>2. ASSUME NEW y \in S PROVE ~(y < x)
    <2>1. x \in Nat /\ y \in Nat
      OBVIOUS
    <2> QED
      BY <1>1, <2>1, Zenon DEF OpToRel
  <1>3. \A y \in S : x <= y
    BY <1>2
  <1> QED
    BY <1>3 DEF Least

-----------------------------------------------------------------------------
(* What every step keeps *)

LEMMA BeginInv ==
  ASSUME SyncInv, ~job.on, run.status # "succeeded",
         NEW offset \in Bases, NEW heals \in BOOLEAN, Begin(offset, heals)
  PROVE  SyncInv'
  <1>1. /\ job' = [on |-> TRUE, offset |-> offset, total |-> run.total, tries |-> 0,
                   read |-> FALSE, heals |-> heals]
        /\ run' = [run EXCEPT !.status = "running",
                              !.born = IF run.status = "none" THEN changes ELSE @]
        /\ UNCHANGED <<source, changes, known, rows>>
    BY DEF Begin, NoJob, sourceVars
  <1>2. offset \in Nat
    BY DEF SyncInv, Types, Bases, Errors
  <1>3. /\ run'.status = "running" /\ run'.next = run.next /\ run'.total = run.total
        /\ run'.errors = run.errors
        /\ run'.born = (IF run.status = "none" THEN changes ELSE run.born)
    BY <1>1 DEF SyncInv, Types
  <1>4. Types'
    <2>1. SourceInv' /\ changes \in Nat
      BY <1>1, SourceStays DEF SyncInv, Types, SourceInv, sourceVars
    <2>2. run' \in [status : Statuses, next : Nat, total : Nat \cup {Unread}, fetched : BOOLEAN,
                    errors : SUBSET Errors, born : Nat]
      BY <1>1, <2>1 DEF SyncInv, Types, Statuses
    <2>3. job' \in [on : BOOLEAN, offset : Nat, total : Nat \cup {Unread}, tries : Nat,
                    read : BOOLEAN, heals : BOOLEAN]
      BY <1>1, <1>2 DEF SyncInv, Types
    <2> QED
      BY <1>1, <1>3, <2>1, <2>2, <2>3 DEF SyncInv, Types
  <1>5. Reached'
    <2>1. CASE run.status = "none"
      <3>1. run.next = 0 /\ run.total = Unread /\ run.errors = {} /\ offset = 0
        BY <2>1 DEF SyncInv, Types, NoRun, NoJob, Bases
      <3>2. Bases' = {0}
        BY <1>1, <1>3, <3>1 DEF Bases
      <3>3. \A i \in DOMAIN source : ~(i <= 0)
        BY LenProperties DEF SyncInv, Types, SourceInv
      <3> QED
        BY <1>1, <1>3, <3>1, <3>2, <3>3 DEF Reached
    <2>2. CASE run.status # "none"
      <3>1. Same' => Same
        BY <1>1, <1>3, <2>2 DEF Same
      <3>2. Bases' \subseteq Bases
        BY <1>1, <1>3 DEF Bases
      <3>3. \A i \in DOMAIN source : Covered(i) => Covered(i)'
        BY <1>1, <1>3 DEF Covered
      <3> QED
        BY <1>1, <1>3, <3>1, <3>2, <3>3 DEF SyncInv, Reached
    <2> QED
      BY <2>1, <2>2
  <1>6. Linked' /\ Succeeded'
    BY <1>1, <1>3 DEF SyncInv, Linked, Succeeded
  <1> QED
    BY <1>4, <1>5, <1>6 DEF SyncInv

LEMMA StartInv == SyncInv /\ Start => SyncInv'
  BY BeginInv DEF Start, Bases

LEMMA FirstPendingOpen ==
  ASSUME Types, run.errors # {}
  PROVE  /\ FirstPending \in {e.at : e \in run.errors}
         /\ \A e \in run.errors : FirstPending <= e.at
  <1> DEFINE S == {e.at : e \in run.errors}
  <1>1. S \in SUBSET Nat /\ S # {}
    BY DEF Types, Errors
  <1> HIDE DEF S
  <1>2. Least(S) \in S /\ \A m \in S : Least(S) <= m
    BY <1>1, LeastOf
  <1> QED
    BY <1>2 DEF FirstPending, S

LEMMA ReprocessInv == SyncInv /\ Reprocess => SyncInv'
  <1> SUFFICES ASSUME SyncInv, Reprocess PROVE SyncInv'
    OBVIOUS
  <1>1. ~job.on /\ run.errors # {} /\ Begin(FirstPending, Resolvable /\ changes = run.born)
    BY DEF Reprocess
  <1>2. FirstPending \in Bases
    BY <1>1, FirstPendingOpen DEF SyncInv, Bases
  <1>3. run.status # "succeeded"
    BY <1>1 DEF SyncInv, Succeeded
  <1> QED
    BY <1>1, <1>2, <1>3, BeginInv

LEMMA FailInv == SyncInv /\ FailPage => SyncInv'
  <1> SUFFICES ASSUME SyncInv, FailPage PROVE SyncInv'
    OBVIOUS
  <1> DEFINE e == [at |-> job.offset, code |-> "page"]
  <1>1. /\ job.on /\ job' = NoJob /\ UNCHANGED <<source, changes, known, rows>>
        /\ run' = [run EXCEPT !.status = IF run.fetched THEN "partial" ELSE "failed",
                              !.errors = @ \cup {e}]
    BY DEF FailPage, Wanted, sourceVars
  <1>2. e \in Errors /\ e.at = job.offset
    BY DEF SyncInv, Types, Errors, Codes
  <1> HIDE DEF e
  <1>3. /\ run'.status \in {"partial", "failed"} /\ run'.next = run.next
        /\ run'.total = run.total /\ run'.born = run.born
        /\ run'.errors = run.errors \cup {e} /\ run.status = "running"
    BY <1>1 DEF SyncInv, Types
  <1>4. Types'
    <2>1. SourceInv'
      BY <1>1, SourceStays DEF SyncInv, Types, sourceVars
    <2>2. run' \in [status : Statuses, next : Nat, total : Nat \cup {Unread}, fetched : BOOLEAN,
                    errors : SUBSET Errors, born : Nat]
      BY <1>1, <1>2 DEF SyncInv, Types, Statuses
    <2> QED
      BY <1>1, <1>3, <2>1, <2>2 DEF SyncInv, Types, NoJob
  <1>5. Bases' \subseteq Bases \cup {0}
    BY <1>1, <1>2, <1>3 DEF Bases, NoJob
  <1>6. Reached'
    <2>1. \A i \in DOMAIN source : ~(i <= 0)
      BY LenProperties DEF SyncInv, Types, SourceInv
    <2>2. \A i \in DOMAIN source : Covered(i) => Covered(i)'
      BY <1>1, <1>3 DEF Covered
    <2>3. Same' => Same
      BY <1>1, <1>3 DEF Same
    <2> QED
      BY <1>1, <1>3, <1>5, <2>1, <2>2, <2>3 DEF SyncInv, Reached
  <1>7. Linked' /\ Succeeded'
    BY <1>1, <1>3 DEF SyncInv, Linked, Succeeded
  <1> QED
    BY <1>4, <1>6, <1>7 DEF SyncInv

LEMMA FinishInv == SyncInv /\ Finish => SyncInv'
  <1> SUFFICES ASSUME SyncInv, Finish PROVE SyncInv'
    OBVIOUS
  <1>1. /\ job.on /\ job' = NoJob /\ UNCHANGED <<source, changes, known, rows>>
        /\ run' = [run EXCEPT !.status = IF AllRead /\ run.errors = {} THEN "succeeded"
                                         ELSE "partial"]
    BY DEF Finish, sourceVars
  <1>2. /\ run'.status = (IF AllRead /\ run.errors = {} THEN "succeeded" ELSE "partial")
        /\ run'.next = run.next /\ run'.total = run.total /\ run'.born = run.born
        /\ run'.errors = run.errors /\ run.status = "running" /\ job.total = run.total
    BY <1>1 DEF SyncInv, Types
  <1>3. Types'
    <2>1. SourceInv'
      BY <1>1, SourceStays DEF SyncInv, Types, sourceVars
    <2>2. run' \in [status : Statuses, next : Nat, total : Nat \cup {Unread}, fetched : BOOLEAN,
                    errors : SUBSET Errors, born : Nat]
      BY <1>1 DEF SyncInv, Types, Statuses
    <2> QED
      BY <1>1, <1>2, <2>1, <2>2 DEF SyncInv, Types, NoJob
  <1>4. \A i \in DOMAIN source : Covered(i)' = Covered(i)
    BY <1>1, <1>2 DEF Covered
  <1>5. \A i \in DOMAIN source : ~(i <= 0) /\ i <= Len(source)
    BY LenProperties DEF SyncInv, Types, SourceInv
  <1>6. Reached'
    <2>1. Bases' \subseteq Bases \cup {0}
      BY <1>1, <1>2 DEF Bases, NoJob
    <2>2. Same' => Same
      BY <1>1, <1>2 DEF Same
    <2> QED
      BY <1>1, <1>2, <1>4, <1>5, <2>1, <2>2 DEF SyncInv, Reached
  <1>7. Succeeded'
    <2> SUFFICES ASSUME run'.status = "succeeded" PROVE run'.errors = {} /\ SucceededComplete'
      BY DEF Succeeded
    <2>1. AllRead /\ run.errors = {}
      BY <1>2
    <2>2. ASSUME changes = run.born, NEW i \in DOMAIN source PROVE Full(source[i]) \in rows
      <3>1. Same
        BY <1>2, <2>2 DEF Same
      <3>2. run.total = Len(source) /\ job.offset >= Len(source)
        BY <1>2, <2>1, <3>1 DEF AllRead, SyncInv, Reached
      <3>3. Len(source) \in Nat /\ i \in Nat /\ job.offset \in Nat
        BY LenProperties DEF SyncInv, Types, SourceInv
      <3>4. i <= job.offset
        BY <1>5, <3>2, <3>3
      <3>5. Covered(i)
        BY <3>1, <3>4 DEF SyncInv, Reached, Bases
      <3> QED
        BY <2>1, <3>5 DEF Covered
    <2> QED
      BY <1>1, <1>2, <2>1, <2>2 DEF SucceededComplete, Full
  <1>8. Linked'
    BY <1>1 DEF SyncInv, Linked
  <1> QED
    BY <1>3, <1>6, <1>7, <1>8 DEF SyncInv

LEMMA QuietInv ==
  ASSUME SyncInv,
         \/ Crash \/ Retry \/ ReferenceArrives \/ UNCHANGED <<sourceVars, syncVars>>
  PROVE  SyncInv'
  <1>1. /\ UNCHANGED <<source, changes, run, rows>> /\ known \subseteq known'
        /\ \/ job' = NoJob
           \/ job' = job
           \/ job' = [job EXCEPT !.tries = @ + 1]
    BY DEF Crash, Retry, ReferenceArrives, sourceVars, syncVars
  <1>2. Types'
    <2>1. SourceInv'
      BY <1>1, SourceStays DEF SyncInv, Types, sourceVars
    <2>2. job' \in [on : BOOLEAN, offset : Nat, total : Nat \cup {Unread}, tries : Nat,
                    read : BOOLEAN, heals : BOOLEAN]
      <3>1. CASE job' = NoJob
        BY <3>1 DEF NoJob
      <3>2. CASE job' = job
        BY <3>2 DEF SyncInv, Types
      <3>3. CASE job' = [job EXCEPT !.tries = @ + 1]
        BY <3>3 DEF SyncInv, Types
      <3> QED
        BY <1>1, <3>1, <3>2, <3>3
    <2>3. IF job'.on THEN run.status = "running" /\ job'.total = run.total ELSE job' = NoJob
      <3>1. job'.on => job.on /\ job'.total = job.total
        BY <1>1 DEF SyncInv, Types, NoJob
      <3>2. ~job'.on => job' = NoJob
        <4>1. CASE job' = NoJob
          BY <4>1
        <4>2. CASE job' = job
          BY <4>2 DEF SyncInv, Types
        <4>3. CASE job' = [job EXCEPT !.tries = @ + 1]
          <5>1. CASE Retry
            BY <4>3, <5>1 DEF SyncInv, Types, Retry, Wanted
          <5>2. CASE ~Retry
            BY <5>2 DEF SyncInv, Types, Crash, ReferenceArrives, syncVars
          <5> QED
            BY <5>1, <5>2
        <4> QED
          BY <1>1, <4>1, <4>2, <4>3
      <3> QED
        BY <3>1, <3>2 DEF SyncInv, Types
    <2> QED
      BY <1>1, <2>1, <2>2, <2>3 DEF SyncInv, Types
  <1>3. Reached'
    <2>1. job'.offset \in {0, job.offset}
      BY <1>1 DEF SyncInv, Types, NoJob
    <2>2. Bases' \subseteq Bases \cup {0}
      BY <1>1, <2>1 DEF Bases
    <2>3. \A i \in DOMAIN source : ~(i <= 0)
      BY LenProperties DEF SyncInv, Types, SourceInv
    <2> QED
      BY <1>1, <2>2, <2>3 DEF SyncInv, Reached, Same, Covered
  <1>4. Linked' /\ Succeeded'
    BY <1>1 DEF SyncInv, Linked, Succeeded, SucceededComplete
  <1> QED
    BY <1>2, <1>3, <1>4 DEF SyncInv

LEMMA NewBatchInv == SyncInv /\ NewBatch => SyncInv'
  <1> SUFFICES ASSUME SyncInv, NewBatch PROVE SyncInv'
    OBVIOUS
  <1>1. UNCHANGED <<source, changes, known, rows, job>> /\ run' = NoRun /\ ~job.on
    BY DEF NewBatch, sourceVars
  <1>2. SourceInv' /\ changes \in Nat
    BY <1>1, SourceStays DEF SyncInv, Types, SourceInv, sourceVars
  <1>3. Types'
    BY <1>1, <1>2 DEF SyncInv, Types, NoRun, Statuses
  <1>4. Reached' /\ Succeeded'
    BY <1>1 DEF Reached, Same, Succeeded, NoRun
  <1>5. Linked'
    BY <1>1 DEF SyncInv, Linked
  <1> QED
    BY <1>3, <1>4, <1>5 DEF SyncInv

LEMMA ChangeInv == SyncInv /\ SourceChanges /\ UNCHANGED syncVars => SyncInv'
  <1> SUFFICES ASSUME SyncInv, SourceChanges, UNCHANGED syncVars PROVE SyncInv'
    OBVIOUS
  <1>1. SourceInv' /\ changes' = changes + 1 /\ UNCHANGED <<known, rows, run, job>>
    BY OfficeKeeps DEF SyncInv, Types, syncVars
  <1>2. run.born \in Nat /\ changes \in Nat /\ run.born <= changes
    BY DEF SyncInv, Types, SourceInv
  <1>3. changes' # run.born
    BY <1>1, <1>2
  <1>4. Types'
    BY <1>1, <1>2 DEF SyncInv, Types
  <1>5. Reached' /\ Succeeded' /\ Linked'
    BY <1>1, <1>3 DEF SyncInv, Reached, Same, Succeeded, SucceededComplete, Linked
  <1> QED
    BY <1>4, <1>5 DEF SyncInv

LEMMA ReadPageInv == SyncInv /\ ReadPage => SyncInv'
  <1> SUFFICES ASSUME SyncInv, ReadPage PROVE SyncInv'
    OBVIOUS
  <1> DEFINE o == job.offset
             page == Page(o)
             last == IF o + Limit < Len(source) THEN o + Limit ELSE Len(source)
             left == {e \in run.errors : e.at # o}
             noted == Missing(page, o)
  <1>1. /\ job.on /\ ~Refused(o, job.total) /\ UNCHANGED <<source, changes, known>>
        /\ rows' = Stored(rows, page)
        /\ run' = [run EXCEPT !.total = Len(source), !.next = o + Len(page),
                              !.fetched = @ \/ page # <<>>, !.errors = left \cup noted]
        /\ job' = [job EXCEPT !.total = Len(source), !.offset = @ + Len(page), !.tries = 0,
                              !.read = TRUE]
    BY DEF ReadPage, Wanted, sourceVars
  <1>2. o \in Nat /\ o <= Len(source) /\ Len(source) \in Nat /\ DOMAIN source = 1 .. Len(source)
    BY <1>1, LenProperties DEF SyncInv, Types, SourceInv, Refused
  <1>3. /\ last \in Nat /\ o <= last /\ last <= Len(source)
        /\ page \in Seq(Records) /\ Len(page) = last - o /\ DOMAIN page = 1 .. last - o
        /\ \A k \in 1 .. last - o : page[k] = source[o + k]
    <2> HIDE DEF o
    <2> QED
      BY <1>2, PageParts DEF SyncInv, Types, SourceInv
  <1>4. noted \in SUBSET Errors /\ \A e \in noted : e.at = o
    <2> HIDE DEF o, page
    <2> QED
      BY <1>2 DEF Missing, Errors, Codes
  <1>5. \A j \in 1 .. last - o : ~(RefersTo[page[j]] \subseteq known) => \E e \in noted : e.at = o
    <2> HIDE DEF o, page, last
    <2> SUFFICES ASSUME NEW j \in 1 .. last - o, ~(RefersTo[page[j]] \subseteq known)
                 PROVE  \E e \in noted : e.at = o
      OBVIOUS
    <2>1. j \in {i \in DOMAIN page : RefersTo[page[i]] \ known # {}}
      BY <1>3
    <2>2. [at |-> o, code |-> "missing"] \in noted
      BY <2>1 DEF Missing
    <2> QED
      BY <2>2
  <1>6. /\ run'.total = Len(source) /\ run'.next = last /\ run'.errors = left \cup noted
        /\ run'.status = "running" /\ run'.born = run.born /\ run.status = "running"
        /\ job'.offset = last /\ job'.total = Len(source) /\ job'.on
    <2>1. o + Len(page) = last
      <3> HIDE DEF page, last
      <3> QED
        BY <1>2, <1>3
    <2> HIDE DEF page, last, left, noted
    <2> QED
      BY <1>1, <2>1 DEF SyncInv, Types
  <1> HIDE DEF page, last, noted
  <1>7. Types'
    <2>1. SourceInv'
      BY <1>1, SourceStays DEF SyncInv, Types, sourceVars
    <2>2. left \in SUBSET Errors
      BY DEF SyncInv, Types
    <2>3. o + Len(page) \in Nat
      BY <1>2, <1>3
    <2> HIDE DEF o, left
    <2>4. run' \in [status : Statuses, next : Nat, total : Nat \cup {Unread}, fetched : BOOLEAN,
                    errors : SUBSET Errors, born : Nat]
      BY <1>1, <1>2, <1>4, <2>2, <2>3 DEF SyncInv, Types
    <2>5. job' \in [on : BOOLEAN, offset : Nat, total : Nat \cup {Unread}, tries : Nat,
                    read : BOOLEAN, heals : BOOLEAN]
      <3>1. job.offset + Len(page) \in Nat
        BY <2>3 DEF o
      <3> QED
        BY <1>1, <1>2, <3>1 DEF SyncInv, Types
    <2>6. run'.born <= changes'
      BY <1>1, <1>6 DEF SyncInv, Types
    <2> QED
      BY <1>6, <2>1, <2>4, <2>5, <2>6 DEF Types
  <1>8. Linked'
    BY <1>1, StoredLinked DEF SyncInv, Linked
  <1>9. ASSUME NEW i \in DOMAIN source, Covered(i) PROVE Covered(i)'
    <2>1. CASE Full(source[i]) \in rows
      <3>1. RefersTo[source[i]] \subseteq known
        BY <2>1 DEF SyncInv, Linked, Full
      <3>2. ASSUME NEW j \in DOMAIN page, page[j].id = source[i].id PROVE page[j] = source[i]
        <4>1. o + j \in DOMAIN source /\ page[j] = source[o + j]
          BY <1>2, <1>3
        <4> QED
          BY <3>2, <4>1 DEF SyncInv, Types, SourceInv, Distinct
      <3>3. Full(source[i]) \in Stored(rows, page)
        BY <2>1, <3>1, <3>2, StoredKeeps
      <3> QED
        BY <1>1, <3>3 DEF Covered
    <2>2. CASE \E e \in left : InPage(i, e)
      BY <1>1, <1>6, <2>2 DEF Covered
    <2>3. CASE \E e \in run.errors : e.at = o /\ InPage(i, e)
      <3>1. i \in Nat /\ o < i /\ i <= o + Limit /\ i <= Len(source)
        BY <1>2, <2>3 DEF InPage
      <3>2. i - o \in 1 .. last - o
        BY <1>2, <3>1, SourceAssumption DEF last
      <3>3. page[i - o] = source[i] /\ i - o \in DOMAIN page
        <4>1. page[i - o] = source[o + (i - o)] /\ i - o \in DOMAIN page
          BY <1>3, <3>2
        <4>2. o + (i - o) = i
          BY <1>2, <3>1
        <4> QED
          BY <4>1, <4>2
      <3>4. CASE RefersTo[source[i]] \subseteq known
        BY <1>1, <3>3, <3>4, StoredFull DEF Covered
      <3>5. CASE ~(RefersTo[source[i]] \subseteq known)
        <4>1. PICK e \in noted : e.at = o
          BY <1>5, <3>2, <3>3, <3>5
        <4> QED
          BY <1>6, <3>1, <4>1 DEF Covered, InPage
      <3> QED
        BY <3>4, <3>5
    <2> QED
      BY <1>9, <2>1, <2>2, <2>3 DEF Covered
  <1>10. ASSUME NEW i \in DOMAIN source, o < i, i <= last PROVE Covered(i)'
    <2>1. i \in Nat /\ i - o \in 1 .. last - o /\ i <= o + Limit
      BY <1>2, <1>3, <1>10, SourceAssumption DEF last
    <2>2. page[i - o] = source[i] /\ i - o \in DOMAIN page
      BY <1>2, <1>3, <2>1
    <2>3. CASE RefersTo[source[i]] \subseteq known
      BY <1>1, <2>2, <2>3, StoredFull DEF Covered
    <2>4. CASE ~(RefersTo[source[i]] \subseteq known)
      <3>1. PICK e \in noted : e.at = o
        BY <1>5, <2>1, <2>2, <2>4
      <3> QED
        BY <1>6, <1>10, <2>1, <3>1 DEF Covered, InPage
    <2> QED
      BY <2>3, <2>4
  <1>11. Reached'
    <2> SUFFICES ASSUME Same' PROVE \A b \in Bases' : \A i \in DOMAIN source : i <= b => Covered(i)'
      BY <1>1, <1>6 DEF Reached
    <2>1. Same
      BY <1>1, <1>6 DEF Same
    <2>2. o \in Bases /\ left \subseteq run.errors
      BY DEF Bases
    <2>3. Bases' \subseteq {last, o} \cup Bases
      <3>1. ASSUME NEW e \in run'.errors PROVE e.at \in {last, o} \cup Bases
        BY <1>4, <1>6, <2>2 DEF Bases
      <3> QED
        BY <1>6, <3>1 DEF Bases
    <2>4. ASSUME NEW i \in DOMAIN source, i <= last PROVE Covered(i)'
      <3>1. CASE i <= o
        BY <1>9, <2>1, <2>2, <3>1 DEF SyncInv, Reached
      <3>2. CASE o < i
        BY <1>10, <2>4, <3>2
      <3> QED
        BY <1>2, <3>1, <3>2
    <2>5. ASSUME NEW b \in Bases, NEW i \in DOMAIN source, i <= b PROVE Covered(i)'
      BY <1>9, <2>1, <2>5 DEF SyncInv, Reached
    <2> QED
      BY <2>2, <2>3, <2>4, <2>5
  <1>12. Succeeded'
    BY <1>6 DEF Succeeded
  <1> QED
    BY <1>7, <1>8, <1>11, <1>12 DEF SyncInv

LEMMA InitInv == SourceInit /\ SyncInit => SyncInv
  <1> SUFFICES ASSUME SourceInit, SyncInit PROVE SyncInv
    OBVIOUS
  <1>1. SourceInv /\ changes = 0
    BY SourceStarts DEF SourceInit
  <1>2. run = NoRun /\ job = NoJob /\ rows = {}
    BY DEF SyncInit
  <1>3. Types
    BY <1>1, <1>2 DEF Types, NoRun, NoJob, Statuses
  <1>4. Linked /\ Reached /\ Succeeded
    BY <1>2 DEF Linked, Reached, Same, Succeeded, NoRun
  <1> QED
    BY <1>3, <1>4 DEF SyncInv

LEMMA NextInv == SyncInv /\ [SyncNext]_<<sourceVars, syncVars>> => SyncInv'
  BY StartInv, ReprocessInv, NewBatchInv, ReadPageInv, FailInv, FinishInv, QuietInv, ChangeInv
     DEF SyncNext

(* AdvboxSync!SucceededComplete: whatever fails, crashes, is resumed or is   *)
(* reprocessed, a run of any collection that is reported succeeded has stored*)
(* every record of it with all it refers to, unless the source changed.      *)
THEOREM SyncsComplete == SyncSpec => []SucceededComplete
  <1>1. SyncInv => SucceededComplete
    BY DEF SyncInv, Succeeded, SucceededComplete
  <1> QED
    BY <1>1, InitInv, NextInv, PTL DEF SyncSpec

-----------------------------------------------------------------------------
(* Reprocessing.  Executions go on from the beginnings of pages, so one that *)
(* starts at the first open error comes by every page that has one.          *)

Multiple(n) == \E k \in Nat : n = k * Limit

Placed == Same =>
    /\ \A b \in Bases : IF run.total = Unread THEN b = 0 ELSE Multiple(b) \/ run.total <= b
    /\ \A e \in run.errors : run.total # Unread => e.at < run.total
    /\ job.heals => Resolvable /\ \A e \in run.errors : job.offset <= e.at

HealInv == SyncInv /\ Placed

LEMMA MultipleZero == Multiple(0)
  BY SourceAssumption DEF Multiple

LEMMA MultipleNext == \A n \in Nat : Multiple(n) => Multiple(n + Limit)
  <1> SUFFICES ASSUME NEW k \in Nat PROVE \E m \in Nat : k * Limit + Limit = m * Limit
    BY DEF Multiple
  <1>1. k + 1 \in Nat /\ k * Limit + Limit = (k + 1) * Limit
    BY SourceAssumption
  <1> QED
    BY <1>1

LEMMA MultiplesApart ==
  ASSUME NEW a, NEW b, Multiple(a), Multiple(b), a < b
  PROVE  a + Limit <= b
  <1>1. PICK k \in Nat, m \in Nat : a = k * Limit /\ b = m * Limit
    BY DEF Multiple
  <1>2. k < m
    <2>1. ASSUME m <= k PROVE m * Limit <= k * Limit
      BY <2>1, SourceAssumption
    <2>2. k * Limit \in Nat /\ m * Limit \in Nat
      BY SourceAssumption
    <2> QED
      BY <1>1, <2>1, <2>2
  <1>3. PICK d \in Nat : m = k + 1 + d
    <2>1. m - k - 1 \in Nat /\ m = k + 1 + (m - k - 1)
      BY <1>2
    <2> QED
      BY <2>1
  <1>4. m * Limit = k * Limit + Limit + d * Limit
    BY <1>3, SourceAssumption
  <1>5. d * Limit \in Nat /\ k * Limit \in Nat
    BY SourceAssumption
  <1> QED
    BY <1>1, <1>4, <1>5, SourceAssumption

LEMMA BeginPlaced ==
  ASSUME HealInv, ~job.on, run.status # "succeeded",
         NEW offset \in Bases, NEW heals \in BOOLEAN, Begin(offset, heals),
         heals => Resolvable /\ \A e \in run.errors : offset <= e.at
  PROVE  Placed'
  <1>1. /\ job' = [on |-> TRUE, offset |-> offset, total |-> run.total, tries |-> 0,
                   read |-> FALSE, heals |-> heals]
        /\ run' = [run EXCEPT !.status = "running",
                              !.born = IF run.status = "none" THEN changes ELSE @]
        /\ UNCHANGED <<source, changes, known, rows>>
    BY DEF Begin, NoJob, sourceVars
  <1>2. /\ run'.next = run.next /\ run'.total = run.total /\ run'.errors = run.errors
        /\ run.status # "none" => run'.born = run.born
    BY <1>1 DEF HealInv, SyncInv, Types
  <1>3. Bases' \subseteq Bases /\ Resolvable' = Resolvable
    BY <1>1, <1>2 DEF Bases, Resolvable
  <1>4. CASE run.status = "none"
    <2>1. run.total = Unread /\ run.errors = {} /\ run.next = 0 /\ job.offset = 0
      BY <1>4 DEF HealInv, SyncInv, Types, NoRun, NoJob
    <2>2. Bases = {0}
      BY <2>1 DEF Bases
    <2> QED
      BY <1>1, <1>2, <1>3, <2>1, <2>2 DEF Placed
  <1>5. CASE run.status # "none"
    <2>1. Same' => Same
      BY <1>1, <1>2, <1>5 DEF Same
    <2> QED
      BY <1>1, <1>2, <1>3, <2>1 DEF HealInv, Placed
  <1> QED
    BY <1>4, <1>5

LEMMA StartPlaced == HealInv /\ Start => Placed'
  BY BeginPlaced DEF Start, Bases, HealInv

LEMMA ReprocessPlaced == HealInv /\ Reprocess => Placed'
  <1> SUFFICES ASSUME HealInv, Reprocess PROVE Placed'
    OBVIOUS
  <1>1. ~job.on /\ run.errors # {} /\ Begin(FirstPending, Resolvable /\ changes = run.born)
    BY DEF Reprocess
  <1>2. FirstPending \in Bases /\ \A e \in run.errors : FirstPending <= e.at
    BY <1>1, FirstPendingOpen DEF HealInv, SyncInv, Bases
  <1>3. run.status # "succeeded"
    BY <1>1 DEF HealInv, SyncInv, Succeeded
  <1> QED
    BY <1>1, <1>2, <1>3, BeginPlaced

(* A step after which no execution is under way.                             *)
LEMMA EndPlaced ==
  ASSUME HealInv, job' = NoJob, UNCHANGED <<source, changes, known>>, Same' => Same,
         run'.total = run.total, run'.next = run.next,
         \A e \in run'.errors :
            e \in run.errors \/ (e.at = job.offset /\ (run.total # Unread => e.at < run.total))
  PROVE  Placed'
  <1>1. Bases' \subseteq Bases \cup {0}
    BY DEF Bases, NoJob
  <1>2. ~job'.heals
    BY DEF NoJob
  <1> QED
    BY <1>1, <1>2, MultipleZero DEF HealInv, Placed

LEMMA ReadPlaced == HealInv /\ ReadPage => Placed'
  <1> SUFFICES ASSUME HealInv, ReadPage, Same' PROVE Placed'
    BY DEF Placed
  <1> DEFINE o == job.offset
             page == Page(o)
             last == IF o + Limit < Len(source) THEN o + Limit ELSE Len(source)
             left == {e \in run.errors : e.at # o}
             noted == Missing(page, o)
  <1>1. /\ job.on /\ ~Refused(o, job.total) /\ UNCHANGED <<source, changes, known>>
        /\ job.total = Unread \/ o < job.total
        /\ run' = [run EXCEPT !.total = Len(source), !.next = o + Len(page),
                              !.fetched = @ \/ page # <<>>, !.errors = left \cup noted]
        /\ job' = [job EXCEPT !.total = Len(source), !.offset = @ + Len(page), !.tries = 0,
                              !.read = TRUE]
    BY DEF ReadPage, Wanted, sourceVars
  <1>2. o \in Nat /\ o <= Len(source) /\ Len(source) \in Nat /\ DOMAIN source = 1 .. Len(source)
    BY <1>1, LenProperties DEF HealInv, SyncInv, Types, SourceInv, Refused
  <1>3. /\ last \in Nat /\ o <= last /\ last <= Len(source)
        /\ page \in Seq(Records) /\ Len(page) = last - o /\ DOMAIN page = 1 .. last - o
        /\ \A k \in 1 .. last - o : page[k] = source[o + k]
    <2> HIDE DEF o
    <2> QED
      BY <1>2, PageParts DEF HealInv, SyncInv, Types, SourceInv
  <1>4. /\ \A e \in noted : e.at = o /\ o < last
        /\ Resolvable => noted = {}
    <2>1. \A j \in DOMAIN page : o + j \in DOMAIN source /\ page[j] = source[o + j] /\ o < last
      BY <1>2, <1>3
    <2> HIDE DEF o, page, last
    <2> QED
      BY <2>1 DEF Missing, Resolvable
  <1>5. /\ run'.total = Len(source) /\ run'.next = last /\ run'.errors = left \cup noted
        /\ run'.born = run.born /\ run.status = "running" /\ job.total = run.total
        /\ job'.offset = last /\ job'.heals = job.heals
    <2>1. o + Len(page) = last
      <3> HIDE DEF page, last
      <3> QED
        BY <1>2, <1>3
    <2> HIDE DEF page, last, left, noted
    <2> QED
      BY <1>1, <2>1 DEF HealInv, SyncInv, Types
  <1>6. Len(source) # Unread
    BY <1>2 DEF Unread
  <1>7. Same /\ run.total \in {Unread, Len(source)}
    BY <1>1, <1>5 DEF Same, HealInv, SyncInv, Reached
  <1>8. Multiple(o)
    <2>1. CASE run.total = Unread
      BY <1>7, <2>1, MultipleZero DEF HealInv, Placed, Bases
    <2>2. CASE run.total = Len(source)
      <3>1. o < run.total
        BY <1>1, <1>5, <1>6, <2>2
      <3>2. Multiple(o) \/ run.total <= o
        BY <1>6, <1>7, <2>2 DEF HealInv, Placed, Bases
      <3> QED
        BY <1>2, <2>2, <3>1, <3>2
    <2> QED
      BY <1>7, <2>1, <2>2
  <1>9. Multiple(last) \/ Len(source) <= last
    BY <1>2, <1>8, MultipleNext DEF last
  <1>10. ASSUME NEW e \in left
         PROVE  e \in run.errors /\ e.at \in Nat /\ e.at < Len(source) /\ Multiple(e.at)
    <2>1. e \in run.errors /\ e.at # o /\ e.at \in Bases /\ e.at \in Nat
      BY DEF Bases, HealInv, SyncInv, Types, Errors
    <2>2. run.total = Len(source)
      <3>1. run.total = Unread => e.at = 0 /\ o = 0
        BY <1>7, <2>1 DEF HealInv, Placed, Bases
      <3> QED
        BY <1>7, <2>1, <3>1
    <2>3. e.at < Len(source) /\ (Multiple(e.at) \/ Len(source) <= e.at)
      BY <1>6, <1>7, <2>1, <2>2 DEF HealInv, Placed
    <2> QED
      BY <1>2, <2>1, <2>3
  <1> HIDE DEF o, page, last, left, noted
  <1>11. \A b \in Bases' : Multiple(b) \/ Len(source) <= b
    <2>1. \A e \in run'.errors : Multiple(e.at)
      BY <1>4, <1>5, <1>8, <1>10
    <2> QED
      BY <1>5, <1>9, <2>1 DEF Bases
  <1>12. \A e \in run'.errors : e.at < Len(source)
    BY <1>2, <1>3, <1>4, <1>5, <1>10
  <1>13. job.heals => Resolvable' /\ \A e \in run'.errors : last <= e.at
    <2> SUFFICES ASSUME job.heals PROVE Resolvable' /\ \A e \in run'.errors : last <= e.at
      OBVIOUS
    <2>1. Resolvable /\ \A e \in run.errors : o <= e.at
      BY <1>7 DEF HealInv, Placed, o
    <2>2. ASSUME NEW e \in left PROVE last <= e.at
      <3>1. o <= e.at /\ e.at # o /\ Multiple(e.at) /\ e.at \in Nat /\ e.at < Len(source)
        BY <1>10, <2>1 DEF left
      <3>2. o + Limit <= e.at
        BY <1>2, <1>8, <3>1, MultiplesApart
      <3> QED
        BY <1>2, <3>1, <3>2, SourceAssumption DEF last
    <2>3. Resolvable'
      BY <1>1, <2>1 DEF Resolvable
    <2> QED
      BY <1>4, <1>5, <2>1, <2>2, <2>3
  <1> QED
    BY <1>1, <1>5, <1>6, <1>11, <1>12, <1>13 DEF Placed

LEMMA HealNext == HealInv /\ [SyncNext]_<<sourceVars, syncVars>> => HealInv'
  <1> SUFFICES ASSUME HealInv, [SyncNext]_<<sourceVars, syncVars>> PROVE Placed'
    BY NextInv DEF HealInv
  <1>1. CASE Start \/ Reprocess \/ ReadPage
    BY <1>1, StartPlaced, ReprocessPlaced, ReadPlaced
  <1>2. CASE FailPage
    <2>1. /\ job' = NoJob /\ UNCHANGED <<source, changes, known>>
          /\ run'.total = run.total /\ run'.next = run.next /\ run'.born = run.born
          /\ run'.errors = run.errors \cup {[at |-> job.offset, code |-> "page"]}
          /\ run.status = "running"
      BY <1>2 DEF FailPage, Wanted, sourceVars, HealInv, SyncInv, Types
    <2>2. run.total # Unread => job.offset < run.total
      BY <1>2 DEF FailPage, Wanted, HealInv, SyncInv, Types
    <2>3. Same' => Same
      BY <2>1 DEF Same
    <2>4. \A e \in run'.errors :
            e \in run.errors \/ (e.at = job.offset /\ (run.total # Unread => e.at < run.total))
      BY <2>1, <2>2
    <2> QED
      BY <2>1, <2>3, <2>4, EndPlaced
  <1>3. CASE Finish
    <2>1. /\ job' = NoJob /\ UNCHANGED <<source, changes, known>>
          /\ run'.total = run.total /\ run'.next = run.next /\ run'.born = run.born
          /\ run'.errors = run.errors /\ run.status = "running"
      BY <1>3 DEF Finish, sourceVars, HealInv, SyncInv, Types
    <2>2. Same' => Same
      BY <2>1 DEF Same
    <2>3. \A e \in run'.errors :
            e \in run.errors \/ (e.at = job.offset /\ (run.total # Unread => e.at < run.total))
      BY <2>1
    <2> QED
      BY <2>1, <2>2, <2>3, EndPlaced
  <1>4. CASE Crash
    <2>1. job' = NoJob /\ UNCHANGED <<source, changes, known, run>>
      BY <1>4 DEF Crash, sourceVars
    <2>2. Same' => Same
      BY <2>1 DEF Same
    <2>3. \A e \in run'.errors :
            e \in run.errors \/ (e.at = job.offset /\ (run.total # Unread => e.at < run.total))
      BY <2>1
    <2> QED
      BY <2>1, <2>2, <2>3, EndPlaced
  <1>5. CASE Retry \/ ReferenceArrives \/ UNCHANGED <<sourceVars, syncVars>>
    <2>1. /\ UNCHANGED <<source, changes, run>> /\ known \subseteq known'
          /\ job' = job \/ job' = [job EXCEPT !.tries = @ + 1]
      BY <1>5 DEF Retry, ReferenceArrives, sourceVars, syncVars
    <2>2. job'.offset = job.offset /\ job'.heals = job.heals
      BY <2>1 DEF HealInv, SyncInv, Types
    <2>3. Resolvable => Resolvable'
      BY <2>1 DEF Resolvable
    <2> QED
      BY <2>1, <2>2, <2>3 DEF HealInv, Placed, Same, Bases
  <1>6. CASE NewBatch
    BY <1>6 DEF NewBatch, NoRun, Placed, Same
  <1>7. CASE SourceChanges /\ UNCHANGED syncVars
    <2>1. changes' = changes + 1 /\ run' = run
      BY <1>7, OfficeKeeps DEF HealInv, SyncInv, Types, syncVars
    <2>2. run.born \in Nat /\ changes \in Nat /\ run.born <= changes
      BY DEF HealInv, SyncInv, Types, SourceInv
    <2> QED
      BY <2>1, <2>2 DEF Placed, Same
  <1> QED
    BY <1>1, <1>2, <1>3, <1>4, <1>5, <1>6, <1>7 DEF SyncNext

LEMMA HealedWhenRead ==
  ASSUME HealInv, job.on, job.heals, AllRead, changes = run.born
  PROVE  run.errors = {}
  <1>1. run.status = "running" /\ job.total = run.total
    BY DEF HealInv, SyncInv, Types
  <1>2. Same
    BY <1>1 DEF Same
  <1>3. run.total # Unread /\ run.total <= job.offset
    BY <1>1 DEF AllRead
  <1>4. ASSUME NEW e \in run.errors PROVE FALSE
    <2>1. e.at < run.total /\ job.offset <= e.at
      BY <1>2, <1>3 DEF HealInv, Placed
    <2>2. e.at \in Nat /\ job.offset \in Nat /\ run.total \in Nat
      BY <1>3 DEF HealInv, SyncInv, Types, Errors
    <2> QED
      BY <1>3, <2>1, <2>2
  <1> QED
    BY <1>4

(* AdvboxSync!ReprocessHeals: reprocessing a source that did not change and  *)
(* whose references are there by now comes by every page that has an open    *)
(* error, wherever it is, and leaves none.                                   *)
THEOREM ReprocessingHeals == SyncSpec => ReprocessHeals
  <1> DEFINE Step == job.on /\ ~job'.on /\ job.heals /\ AllRead /\ changes = run.born
                     => run'.status # "partial"
  <1>1. ASSUME HealInv, [SyncNext]_<<sourceVars, syncVars>> PROVE [Step]_<<run, job>>
    <2> SUFFICES ASSUME job.on, ~job'.on, job.heals, AllRead, changes = run.born
                 PROVE  run'.status # "partial"
      OBVIOUS
    <2>1. run.errors = {} /\ run.status = "running"
      BY <1>1, HealedWhenRead DEF HealInv, SyncInv, Types
    <2>2. ~Wanted
      BY <1>1 DEF AllRead, Wanted, HealInv, SyncInv, Types
    <2>3. CASE Finish
      BY <2>1, <2>3 DEF Finish, HealInv, SyncInv, Types
    <2>4. CASE ~Finish
      <3>1. run' = run
        BY <1>1, <2>2, <2>4 DEF SyncNext, Start, Reprocess, NewBatch, ReferenceArrives, ReadPage,
           Retry, FailPage, Crash, syncVars
      <3> QED
        BY <2>1, <3>1
    <2> QED
      BY <2>3, <2>4
  <1>2. SourceInit /\ SyncInit => HealInv
    <2> SUFFICES ASSUME SourceInit, SyncInit PROVE Placed
      BY InitInv DEF HealInv
    <2> QED
      BY DEF SyncInit, NoRun, Placed, Same
  <1> QED
    BY <1>1, <1>2, HealNext, PTL DEF SyncSpec, ReprocessHeals

-----------------------------------------------------------------------------
(* Types, with their bounds: a page ends within the source it is read from,  *)
(* and there are at most as many records as IDs.                             *)

LEMMA NoRunTyped == NoRun \in [status : {"none", "running", "partial", "failed", "succeeded"},
            next : Offsets, total : Totals, fetched : BOOLEAN,
            errors : SUBSET [at : Offsets, code : Codes], born : 0 .. MaxChanges]
  BY FS_CardinalityType, SourceAssumption DEF NoRun, Offsets, Totals

LEMMA NoJobTyped == NoJob \in [on : BOOLEAN, offset : Offsets, total : Totals, tries : 0 .. MaxRetries,
            read : BOOLEAN, heals : BOOLEAN]
  BY FS_CardinalityType, SourceAssumption DEF NoJob, Offsets, Totals

LEMMA BasesTyped == SyncTypeOK => Bases \subseteq Offsets
  BY DEF SyncTypeOK, Bases

LEMMA BeginTyped ==
  ASSUME SourceTypeOK, SyncTypeOK, NEW offset \in Offsets, NEW heals \in BOOLEAN,
         Begin(offset, heals)
  PROVE  SyncTypeOK'
  <1>1. job' = [on |-> TRUE, offset |-> offset, total |-> run.total, tries |-> 0,
                read |-> FALSE, heals |-> heals]
    BY DEF Begin, NoJob
  <1>2. run' = [run EXCEPT !.status = "running",
                           !.born = IF run.status = "none" THEN changes ELSE @]
    BY DEF Begin
  <1>3. UNCHANGED <<known, rows, batch>>
    BY DEF Begin
  <1>4. job' \in [on : BOOLEAN, offset : Offsets, total : Totals, tries : 0 .. MaxRetries,
            read : BOOLEAN, heals : BOOLEAN]
    BY <1>1, SourceAssumption DEF SyncTypeOK
  <1>5. run' \in [status : {"none", "running", "partial", "failed", "succeeded"},
            next : Offsets, total : Totals, fetched : BOOLEAN,
            errors : SUBSET [at : Offsets, code : Codes], born : 0 .. MaxChanges]
    BY <1>2 DEF SyncTypeOK, SourceTypeOK
  <1> QED
    BY <1>3, <1>4, <1>5 DEF SyncTypeOK

LEMMA ReadPageTyped ==
  ASSUME SyncInv, SyncTypeOK, ReadPage PROVE SyncTypeOK'
  <1> DEFINE page == Page(job.offset)
  <1>1. /\ job.offset \in Nat /\ job.offset <= Len(source) /\ source \in Seq(Records)
    BY LenProperties DEF SyncInv, Types, SourceInv, ReadPage, Refused
  <1>2. page \in Seq(Records) /\ Len(page) \in Nat /\ job.offset + Len(page) <= Len(source)
    BY <1>1, PageParts
  <1>3. Len(source) \in Offsets /\ job.offset \in Offsets
    BY SourceCount DEF SyncInv, Types, Offsets, SyncTypeOK
  <1>4. job.offset + Len(page) \in Offsets
    BY <1>1, <1>2, <1>3, FS_CardinalityType, SourceAssumption DEF Offsets
  <1>5. Missing(page, job.offset) \subseteq [at : Offsets, code : Codes]
    BY <1>3 DEF Missing, Codes
  <1>6. rows' \subseteq Row
    <2>1. \A i \in DOMAIN page : page[i] \in Records
      BY <1>2, ElementOfSeq
    <2>2. \A r \in Records : Upserted(r) \subseteq Row
      <3> SUFFICES ASSUME NEW r \in Records
                   PROVE  [id |-> r.id, v |-> r.v, links |-> RefersTo[r] \cap known] \in Row
        BY DEF Upserted
      <3>1. r.id \in Ids /\ r.v \in Versions /\ RefersTo[r] \in SUBSET References
        BY SyncAssumption DEF Records
      <3> QED
        BY <3>1 DEF Row
    <2>3. rows' = Stored(rows, page)
      BY DEF ReadPage
    <2> HIDE DEF page
    <2> QED
      BY <2>1, <2>2, <2>3 DEF Stored, SyncTypeOK
  <1>7. /\ run' = [run EXCEPT !.total = Len(source),
                              !.next = job.offset + Len(page),
                              !.fetched = @ \/ page # <<>>,
                              !.errors = {e \in @ : e.at # job.offset}
                                           \cup Missing(page, job.offset)]
        /\ job' = [job EXCEPT !.total = Len(source), !.offset = @ + Len(page), !.tries = 0,
                              !.read = TRUE]
        /\ UNCHANGED <<known, batch>>
    BY DEF ReadPage
  <1> HIDE DEF page
  <1>8. run' \in [status : {"none", "running", "partial", "failed", "succeeded"},
            next : Offsets, total : Totals, fetched : BOOLEAN,
            errors : SUBSET [at : Offsets, code : Codes], born : 0 .. MaxChanges]
    <2>1. Len(source) \in Totals
      BY <1>3 DEF Totals
    <2>2. {e \in run.errors : e.at # job.offset} \cup Missing(page, job.offset)
            \in SUBSET [at : Offsets, code : Codes]
      BY <1>5 DEF SyncTypeOK
    <2> QED
      BY <1>4, <1>7, <2>1, <2>2 DEF SyncTypeOK
  <1>9. job' \in [on : BOOLEAN, offset : Offsets, total : Totals, tries : 0 .. MaxRetries,
            read : BOOLEAN, heals : BOOLEAN]
    <2>1. 0 \in 0 .. MaxRetries /\ Len(source) \in Totals
      BY <1>3, SourceAssumption DEF Totals
    <2> DEFINE next == job.offset + Len(page)
    <2>2. next \in Offsets /\ job' = [job EXCEPT !.total = Len(source), !.offset = next,
                                               !.tries = 0, !.read = TRUE]
      BY <1>4, <1>7
    <2> HIDE DEF next
    <2> QED
      BY <2>1, <2>2 DEF SyncTypeOK
  <1> QED
    BY <1>6, <1>7, <1>8, <1>9 DEF SyncTypeOK

LEMMA SyncTypesStart == SyncInit => SyncTypeOK
  BY NoRunTyped, NoJobTyped, SyncAssumption DEF SyncInit, SyncTypeOK

LEMMA SyncTypesStay ==
  SyncInv /\ SourceTypeOK /\ SyncTypeOK /\ [SyncNext]_<<sourceVars, syncVars>> => SyncTypeOK'
  <1> SUFFICES ASSUME SyncInv, SourceTypeOK, SyncTypeOK, [SyncNext]_<<sourceVars, syncVars>>
               PROVE  SyncTypeOK'
    OBVIOUS
  <1>1. CASE Start
    BY <1>1, BeginTyped, BasesTyped DEF Start, Bases
  <1>2. CASE Reprocess
    <2>1. FirstPending \in {e.at : e \in run.errors}
      BY <1>2, FirstPendingOpen DEF Reprocess, SyncInv
    <2>2. FirstPending \in Offsets
      BY <2>1, BasesTyped DEF Bases
    <2>3. (Resolvable /\ changes = run.born) \in BOOLEAN
      OBVIOUS
    <2> QED
      BY <1>2, <2>2, <2>3, BeginTyped DEF Reprocess
  <1>3. CASE NewBatch
    BY <1>3, NoRunTyped, SyncAssumption DEF NewBatch, SyncTypeOK
  <1>4. CASE ReferenceArrives
    BY <1>4 DEF ReferenceArrives, SyncTypeOK
  <1>5. CASE ReadPage
    BY <1>5, ReadPageTyped
  <1>6. CASE Retry
    BY <1>6, SourceAssumption DEF Retry, SyncTypeOK
  <1>7. CASE FailPage
    <2>1. [at |-> job.offset, code |-> "page"] \in [at : Offsets, code : Codes]
      BY DEF SyncTypeOK, Codes
    <2> QED
      BY <1>7, <2>1, NoJobTyped DEF FailPage, SyncTypeOK
  <1>8. CASE Finish
    BY <1>8, NoJobTyped DEF Finish, SyncTypeOK
  <1>9. CASE Crash
    BY <1>9, NoJobTyped DEF Crash, SyncTypeOK
  <1>10. CASE UNCHANGED syncVars
    BY <1>10 DEF syncVars, SyncTypeOK
  <1> QED
    BY <1>1, <1>2, <1>3, <1>4, <1>5, <1>6, <1>7, <1>8, <1>9, <1>10 DEF SyncNext
=============================================================================
