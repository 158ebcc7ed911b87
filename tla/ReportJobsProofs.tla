-------------------------- MODULE ReportJobsProofs --------------------------
(* Theorems about ReportJobs, for any number of uploads, workers, attempts, *)
(* revisions and versions, and any periods.                                 *)
EXTENDS ReportJobs, SequenceTheorems, FiniteSetTheorems, TLAPS

-----------------------------------------------------------------------------
(* The versions as rows of a table.                                         *)

Rows == 1 .. Len(versions)

(* The same rows; people and retention change what is not named here.       *)
SameRows ==
    /\ versions' \in Seq(Version)
    /\ Len(versions') = Len(versions)
    /\ \A i \in Rows : /\ versions'[i].src = versions[i].src
                       /\ versions'[i].key = versions[i].key
                       /\ versions'[i].num = versions[i].num

LEMMA RowTypes ==
    ASSUME versions \in Seq(Version)
    PROVE  /\ Len(versions) \in Nat
           /\ DOMAIN versions = Rows
           /\ versions \in [Rows -> Version]
           /\ \A i \in Rows : /\ versions[i] \in Version
                              /\ versions[i].src \in Sources
                              /\ versions[i].key \in Keys
                              /\ versions[i].num \in Nat
                              /\ versions[i].files \in BOOLEAN
  <1>1. /\ Len(versions) \in Nat
        /\ DOMAIN versions = Rows
        /\ versions \in [Rows -> Version]
    BY LenProperties DEF Rows
  <1>2. \A i \in Rows : versions[i] \in Version
    BY <1>1
  <1> QED
    BY <1>1, <1>2 DEF Version

(* A table rewritten row by row.                                            *)
LEMMA Rewritten ==
    ASSUME versions \in Seq(Version), versions' \in [Rows -> Version]
    PROVE  versions' \in Seq(Version) /\ Len(versions') = Len(versions)
  <1>1. Len(versions) \in Nat
    BY RowTypes
  <1>2. versions' \in Seq(Version)
    BY <1>1, SeqDef DEF Rows
  <1>3. DOMAIN versions' = 1 .. Len(versions)
    BY DEF Rows
  <1> QED
    BY <1>1, <1>2, <1>3, LenProperties

LEMMA RestoredRows ==
    ASSUME versions \in Seq(Version), NEW i, Restore(i)
    PROVE  /\ SameRows
           /\ i \in Rows /\ versions[i].files
           /\ \A j \in Rows :
                /\ versions'[j].files = versions[j].files
                /\ versions'[j].status = IF j = i THEN "validated"
                                         ELSE IF j > i THEN "superseded" ELSE versions[j].status
  <1>1. /\ i \in Rows /\ versions[i].files
        /\ versions' = [j \in Rows |->
             IF j = i THEN [versions[j] EXCEPT !.status = "validated"]
             ELSE IF j > i THEN [versions[j] EXCEPT !.status = "superseded"]
             ELSE versions[j]]
    BY RowTypes DEF Restore, Restorable
  <1>2. \A j \in Rows : /\ [versions[j] EXCEPT !.status = "validated"] \in Version
                        /\ [versions[j] EXCEPT !.status = "superseded"] \in Version
                        /\ versions[j] \in Version
    BY RowTypes DEF Version
  <1>3. versions' \in [Rows -> Version]
    BY <1>1, <1>2
  <1>4. versions' \in Seq(Version) /\ Len(versions') = Len(versions)
    BY <1>3, Rewritten
  <1> QED
    BY <1>1, <1>2, <1>4 DEF SameRows, Version

LEMMA RetiredRows ==
    ASSUME versions \in Seq(Version), ExecuteRetention
    PROVE  /\ SameRows
           /\ \A j \in Rows :
                /\ versions'[j].files = (versions[j].files /\ j \notin plan)
                /\ versions'[j].status = versions[j].status
  <1>1. PICK marked \in BOOLEAN : versions' = [i \in Rows |->
          IF i \in plan THEN [versions[i] EXCEPT !.files = FALSE, !.purged = marked]
          ELSE versions[i]]
    BY RowTypes DEF ExecuteRetention
  <1>2. \A j \in Rows : /\ [versions[j] EXCEPT !.files = FALSE, !.purged = marked] \in Version
                        /\ versions[j] \in Version
    BY RowTypes DEF Version
  <1>3. versions' \in [Rows -> Version]
    BY <1>1, <1>2
  <1>4. versions' \in Seq(Version) /\ Len(versions') = Len(versions)
    BY <1>3, Rewritten
  <1> QED
    BY <1>1, <1>2, <1>4, RowTypes DEF SameRows, Version

(* A committed report is a new last row.                                    *)
LEMMA InsertedRow ==
    ASSUME versions \in Seq(Version), NEW w \in Workers,
           mine[w] \in Work, num[w] \in Nat, Insert(w)
    PROVE  /\ versions' \in Seq(Version)
           /\ Len(versions') = Len(versions) + 1
           /\ \A i \in Rows : versions'[i] = versions[i]
           /\ LET new == versions'[Len(versions) + 1] IN
                /\ new.src = mine[w].src /\ new.key = mine[w].key /\ new.num = num[w]
                /\ new.status = "validated"
                /\ "ack" \notin Faults => new.files
  <1>1. PICK files \in {TRUE} \cup (IF "ack" \in Faults THEN {FALSE} ELSE {}) :
          versions' = Append(versions, [src |-> mine[w].src, key |-> mine[w].key,
             num |-> num[w], status |-> "validated", files |-> files, purged |-> FALSE])
    BY DEF Insert
  <1> DEFINE new == [src |-> mine[w].src, key |-> mine[w].key,
             num |-> num[w], status |-> "validated", files |-> files, purged |-> FALSE]
  <1>2. new \in Version
    BY DEF Version, Work
  <1>3. /\ new.src = mine[w].src /\ new.key = mine[w].key /\ new.num = num[w]
        /\ new.status = "validated"
        /\ "ack" \notin Faults => new.files
    OBVIOUS
  <1> HIDE DEF new
  <1>4. /\ Append(versions, new) \in Seq(Version)
        /\ Len(Append(versions, new)) = Len(versions) + 1
        /\ \A i \in 1 .. Len(versions) : Append(versions, new)[i] = versions[i]
        /\ Append(versions, new)[Len(versions) + 1] = new
    BY <1>2, AppendProperties
  <1>5. versions' = Append(versions, new)
    BY <1>1 DEF new
  <1>6. /\ versions' \in Seq(Version)
        /\ Len(versions') = Len(versions) + 1
        /\ \A i \in 1 .. Len(versions) : versions'[i] = versions[i]
        /\ versions'[Len(versions) + 1] = new
    BY <1>4, <1>5, Zenon
  <1> QED
    BY <1>3, <1>6 DEF Rows

-----------------------------------------------------------------------------
(* Version numbers.  Those of a period are 1, 2, ... without a gap.         *)

Contiguous == \A p \in Nat : \E k \in Nat : Numbers(p) = 1 .. k

LEMMA NextIs ==
    ASSUME NEW src, NEW k \in Nat, Numbers(PeriodOf[src]) = 1 .. k
    PROVE  NextNumber(src) = k + 1
  <1>1. Cardinality(1 .. k) = k
    BY FS_Interval
  <1>2. NextNumber(src) = CHOOSE n \in 1 .. k + 1 :
          (\A m \in 1 .. k : m < n) /\ (n = 1 \/ n - 1 \in 1 .. k)
    BY <1>1 DEF NextNumber
  <1>3. \A n \in 1 .. k + 1 :
          ((\A m \in 1 .. k : m < n) /\ (n = 1 \/ n - 1 \in 1 .. k)) <=> n = k + 1
    OBVIOUS
  <1> QED
    BY <1>2, <1>3

LEMMA SameNumbers ==
    ASSUME versions \in Seq(Version), SameRows
    PROVE  /\ \A p : Numbers(p)' = Numbers(p)
           /\ \A s : NextNumber(s)' = NextNumber(s)
           /\ \A s, k : VersionsOf(s, k)' = VersionsOf(s, k)
           /\ DOMAIN versions' = Rows
  <1>1. DOMAIN versions = Rows /\ DOMAIN versions' = Rows
    BY RowTypes, LenProperties DEF SameRows, Rows
  <1>2. \A p : Numbers(p)' = Numbers(p)
    BY <1>1 DEF Numbers, SameRows
  <1>3. \A s, k : VersionsOf(s, k)' = VersionsOf(s, k)
    BY <1>1 DEF VersionsOf, SameRows
  <1>4. \A s : NextNumber(s)' = NextNumber(s)
    BY <1>2 DEF NextNumber
  <1> QED
    BY <1>1, <1>2, <1>3, <1>4

LEMMA InsertedNumber ==
    ASSUME versions \in Seq(Version), NEW w \in Workers,
           mine[w] \in Work, num[w] \in Nat, Insert(w), NEW p
    PROVE  Numbers(p)' = IF PeriodOf[mine[w].src] = p THEN Numbers(p) \cup {num[w]}
                                                       ELSE Numbers(p)
  <1> DEFINE n == Len(versions) + 1
  <1>1. /\ n \in Nat \ {0}
        /\ DOMAIN versions = Rows
        /\ DOMAIN versions' = Rows \cup {n}
        /\ n \notin Rows
        /\ \A i \in Rows : versions'[i] = versions[i]
        /\ versions'[n].src = mine[w].src /\ versions'[n].num = num[w]
    <2>1. /\ versions' \in Seq(Version)
          /\ Len(versions') = n
          /\ \A i \in Rows : versions'[i] = versions[i]
          /\ versions'[n].src = mine[w].src /\ versions'[n].num = num[w]
      BY InsertedRow
    <2>2. DOMAIN versions' = 1 .. Len(versions')
      BY <2>1, LenProperties
    <2>3. Len(versions) \in Nat /\ DOMAIN versions = Rows
      BY RowTypes
    <2> QED
      BY <2>1, <2>2, <2>3 DEF Rows
  <1> HIDE DEF n
  <1>2. Numbers(p)' = {versions'[i].num : i \in {j \in Rows \cup {n} :
                          PeriodOf[versions'[j].src] = p}}
    BY <1>1 DEF Numbers
  <1>3. Numbers(p) = {versions[i].num : i \in {j \in Rows : PeriodOf[versions[j].src] = p}}
    BY <1>1 DEF Numbers
  <1> QED
    BY <1>1, <1>2, <1>3

-----------------------------------------------------------------------------
(* The inductive invariant.  An active request names a revision and has an  *)
(* attempt left; a busy worker knows what it works on; a worker that is     *)
(* about to insert has the row locked; and while a worker holds the request *)
(* nobody else can have used the number and the revision it has read.       *)

ActiveWork == Active =>
    /\ act.key \in Keys
    /\ act.status = "pending" => act.attempts < MaxAttempts

FixtureKept == content[Fixture] \in Keys

Occupied == \A w \in Workers : pc[w] # "idle" => mine[w] \in Work

RowLocked == \A w \in Workers : pc[w] = "insert" => HoldsLease(w)

Rendering == {"render", "commit", "insert"}

NumberHeld == \A w \in Workers : HoldsLease(w) /\ pc[w] \in Rendering =>
    /\ num[w] = NextNumber(mine[w].src)
    /\ mine[w].src # Fixture => VersionsOf(mine[w].src, mine[w].key) = {}

TypeInv == TypeOK /\ ActiveWork /\ FixtureKept /\ Occupied

Inv == TypeInv /\ RowLocked /\ Contiguous /\ NumberHeld

LEMMA ConstantTypes ==
    /\ Fixture \in Sources /\ Batches \subseteq Sources
    /\ Fixture \notin Batches
    /\ 1 \in Keys /\ NoKey \notin Keys /\ Keys \subseteq Nat
    /\ NumBatches \in Nat /\ MaxAttempts \in Nat \ {0} /\ MaxVersions \in Nat
    /\ \A k \in 1 .. MaxKey : k \in Keys
    /\ \A k \in 1 .. MaxBump : k \in Keys
    /\ MaxBump \in Nat
    /\ PeriodOf \in [Sources -> Nat]
    /\ NoWorker \notin Workers
  BY BoundsAssumption DEF Fixture, Sources, Batches, Keys, NoKey

LEMMA InvInit == Init => Inv
  <1> SUFFICES ASSUME Init PROVE Inv
    OBVIOUS
  <1>1. versions \in Seq(Version) /\ Len(versions) = 0 /\ DOMAIN versions = {}
    <2>1. versions \in Seq(Version) /\ Len(versions) = 0
      BY EmptySeq DEF Init
    <2> QED
      BY <2>1, LenProperties
  <1>2. Contiguous
    <2>1. \A p : Numbers(p) = 1 .. 0
      BY <1>1 DEF Numbers
    <2> QED
      BY <2>1 DEF Contiguous
  <1>3. None \in Work \cup {None} /\ Inactive \in Row
    BY ConstantTypes DEF Inactive, Row
  <1>4. TypeOK
    <2>1. /\ content \in [Sources -> Keys \cup {NoKey}]
          /\ pc \in [Workers -> {"idle", "claimed", "render", "commit", "insert", "retry", "end"}]
          /\ mine \in [Workers -> Work \cup {None}]
          /\ num \in [Workers -> Nat]
      BY <1>3, ConstantTypes DEF Init
    <2>2. scope \in BOOLEAN
      BY Zenon DEF Init
    <2>3. Len(versions) <= MaxVersions
      BY <1>1, ConstantTypes
    <2> QED
      BY <1>1, <1>3, <2>1, <2>2, <2>3 DEF Init, TypeOK
  <1> QED
    BY <1>2, <1>4, ConstantTypes
    DEF Init, Inv, TypeInv, ActiveWork, Active, Inactive, FixtureKept, Occupied, RowLocked,
        NumberHeld, HoldsLease, Rendering

(* What the parts of the invariant say, for the steps that need it spelled  *)
(* out.                                                                     *)
LEMMA InvTypes ==
    ASSUME TypeInv
    PROVE  /\ approved \subseteq Batches /\ retired \subseteq Batches
           /\ content \in [Sources -> Keys \cup {NoKey}] /\ content[Fixture] \in Keys
           /\ scope \in BOOLEAN
           /\ asked \in Work \cup {None}
           /\ act \in Row
           /\ act.status \in {"none", "pending", "running", "succeeded", "failed"}
           /\ act.src \in Sources /\ act.key \in Keys \cup {NoKey}
           /\ act.attempts \in 0 .. MaxAttempts
           /\ act.owner \in Workers \cup {NoWorker}
           /\ failed \subseteq Work
           /\ versions \in Seq(Version) /\ Len(versions) <= MaxVersions
           /\ plan \subseteq Rows
           /\ pc \in [Workers -> {"idle", "claimed", "render", "commit", "insert",
                                  "retry", "end"}]
           /\ mine \in [Workers -> Work \cup {None}]
           /\ num \in [Workers -> Nat]
           /\ \A w \in Workers : pc[w] # "idle" =>
                mine[w] \in Work /\ mine[w].src \in Sources /\ mine[w].key \in Keys
           /\ Active => [src |-> act.src, key |-> act.key] \in Work
           /\ act.status = "pending" => act.attempts < MaxAttempts
  <1>1. act \in Row
    BY DEF TypeInv, TypeOK
  <1>2. /\ act.status \in {"none", "pending", "running", "succeeded", "failed"}
        /\ act.src \in Sources /\ act.key \in Keys \cup {NoKey}
        /\ act.attempts \in 0 .. MaxAttempts
        /\ act.owner \in Workers \cup {NoWorker}
    BY <1>1 DEF Row
  <1>3. Active => [src |-> act.src, key |-> act.key] \in Work
    BY <1>2 DEF TypeInv, ActiveWork, Work
  <1>4. act.status = "pending" => act.attempts < MaxAttempts
    BY DEF TypeInv, ActiveWork, Active
  <1>5. \A w \in Workers : pc[w] # "idle" =>
                mine[w] \in Work /\ mine[w].src \in Sources /\ mine[w].key \in Keys
    BY DEF TypeInv, Occupied, Work
  <1> QED
    BY <1>1, <1>2, <1>3, <1>4, <1>5 DEF TypeInv, TypeOK, FixtureKept, Rows

(* Giving up leaves a typed row, and a pending one has an attempt left.     *)
LEMMA GivenUp ==
    ASSUME TypeInv, NEW terminal \in BOOLEAN, GiveUp(terminal), Active
    PROVE  /\ act' \in Row /\ failed' \subseteq Work
           /\ act'.status \in {"pending", "failed"}
           /\ act'.status = "pending" => /\ act'.attempts = act.attempts
                                         /\ act.attempts < MaxAttempts
                                         /\ act'.owner = NoWorker
                                         /\ act'.key = act.key
           /\ act'.status = "failed" => /\ act'.attempts = 0 /\ act'.owner = NoWorker
                                        /\ terminal \/ act.attempts >= MaxAttempts
  <1>1. CASE terminal \/ act.attempts >= MaxAttempts
    <2>1. /\ act' = [Inactive EXCEPT !.status = "failed"]
          /\ failed' = failed \cup {[src |-> act.src, key |-> act.key]}
      BY <1>1 DEF GiveUp
    <2>2. act' = [status |-> "failed", src |-> Fixture, key |-> NoKey, attempts |-> 0,
                  owner |-> NoWorker, lease |-> "none", wait |-> FALSE]
      BY <2>1 DEF Inactive
    <2>3. act' \in Row
      BY <2>2, ConstantTypes DEF Row
    <2>4. failed' \subseteq Work
      BY <2>1, InvTypes
    <2> QED
      BY <1>1, <2>2, <2>3, <2>4
  <1>2. CASE ~(terminal \/ act.attempts >= MaxAttempts)
    <2>1. /\ act' = [act EXCEPT !.status = "pending", !.owner = NoWorker,
                                !.lease = "none", !.wait = TRUE]
          /\ UNCHANGED failed
      BY <1>2 DEF GiveUp
    <2>2. act \in Row
      BY InvTypes
    <2>3. /\ act' \in Row
          /\ act'.status = "pending" /\ act'.attempts = act.attempts
          /\ act'.owner = NoWorker /\ act'.key = act.key
      BY <2>1, <2>2 DEF Row
    <2> QED
      BY <1>2, <2>1, <2>3, InvTypes, ConstantTypes
  <1> QED
    BY <1>1, <1>2

(* A request that is put into the queue.                                    *)
LEMMA PutIn ==
    ASSUME NEW r \in Work, act' = Queued(r)
    PROVE  /\ act' \in Row
           /\ act'.status = "pending" /\ act'.key \in Keys
           /\ act'.attempts = 0 /\ act'.owner = NoWorker
  <1>1. act' = [status |-> "pending", src |-> r.src, key |-> r.key, attempts |-> 0,
                owner |-> NoWorker, lease |-> "none", wait |-> FALSE]
    BY DEF Queued, Inactive
  <1>2. r.src \in Sources /\ r.key \in Keys
    BY DEF Work
  <1>3. act' \in Row
    <2>1. /\ 0 \in 0 .. MaxAttempts
          /\ r.key \in Keys \cup {NoKey}
          /\ NoWorker \in Workers \cup {NoWorker}
      BY <1>2, ConstantTypes
    <2> QED
      BY <1>1, <1>2, <2>1 DEF Row
  <1> QED
    BY <1>1, <1>2, <1>3

(* A request that is done.                                                  *)
LEMMA SetDone ==
    ASSUME NEW r \in Work, act' = Succeeded(r)
    PROVE  /\ act' \in Row
           /\ act'.status = "succeeded" /\ act'.src = r.src /\ act'.key = r.key
           /\ act'.attempts = 0 /\ act'.owner = NoWorker
  <1>1. act' = [status |-> "succeeded", src |-> r.src, key |-> r.key, attempts |-> 0,
                owner |-> NoWorker, lease |-> "none", wait |-> FALSE]
    BY DEF Succeeded, Inactive
  <1>2. r.src \in Sources /\ r.key \in Keys
    BY DEF Work
  <1>3. act' \in Row
    <2>1. /\ 0 \in 0 .. MaxAttempts
          /\ r.key \in Keys \cup {NoKey}
          /\ NoWorker \in Workers \cup {NoWorker}
      BY <1>2, ConstantTypes
    <2> QED
      BY <1>1, <1>2, <2>1 DEF Row
  <1> QED
    BY <1>1, <1>3

LEMMA TypeNext == Inv /\ [Next]_vars => TypeInv'
  <1> SUFFICES ASSUME Inv, [Next]_vars PROVE TypeInv'
    OBVIOUS
  <1>a. TypeInv
    BY DEF Inv
  (* What each group of variables is left with. *)
  <1>s. ASSUME /\ approved' \subseteq Batches /\ retired' \subseteq Batches
               /\ content' \in [Sources -> Keys \cup {NoKey}] /\ content'[Fixture] \in Keys
               /\ scope' \in BOOLEAN
               /\ asked' \in Work \cup {None}
               /\ act' \in Row /\ failed' \subseteq Work
               /\ Active' => act'.key \in Keys
               /\ act'.status = "pending" => act'.attempts < MaxAttempts
               /\ versions' \in Seq(Version) /\ Len(versions') <= MaxVersions
               /\ plan' \subseteq 1 .. Len(versions')
               /\ pc' \in [Workers -> {"idle", "claimed", "render", "commit", "insert",
                                       "retry", "end"}]
               /\ mine' \in [Workers -> Work \cup {None}]
               /\ num' \in [Workers -> Nat]
               /\ Occupied'
        PROVE  TypeInv'
    BY <1>s DEF TypeInv, TypeOK, ActiveWork, FixtureKept
  <1>u. /\ UNCHANGED act => (Active' => act'.key \in Keys)
                         /\ (act'.status = "pending" => act'.attempts < MaxAttempts)
        /\ UNCHANGED versions => versions' \in Seq(Version) /\ Len(versions') <= MaxVersions
        /\ UNCHANGED <<versions, plan>> => plan' \subseteq 1 .. Len(versions')
        /\ UNCHANGED worker => Occupied'
    BY <1>a, InvTypes DEF Active, Work, Rows, Occupied, worker
  <1>1. ASSUME UNCHANGED <<act, failed, versions, plan, worker, asked>>,
               approved' \subseteq Batches, retired' \subseteq Batches,
               content' \in [Sources -> Keys \cup {NoKey}], content'[Fixture] \in Keys,
               scope' \in BOOLEAN
        PROVE  TypeInv'
    BY <1>1, <1>a, <1>s, <1>u, InvTypes DEF worker
  <1>2. ASSUME NEW b \in Batches, Approve(b) PROVE TypeInv'
    BY <1>1, <1>2, <1>a, InvTypes DEF Approve, Portfolios!Approve
  <1>3. ASSUME NEW b \in Batches, NEW k \in 0 .. MaxKey, ContentChanges(b, k) PROVE TypeInv'
    <2>1. k \in Keys \cup {NoKey}
      BY ConstantTypes DEF NoKey
    <2> QED
      BY <1>1, <1>3, <1>a, <2>1, InvTypes, ConstantTypes DEF ContentChanges
  <1>4. ASSUME BumpRevision PROVE TypeInv'
    <2>1. content[Fixture] + 1 \in Keys
      <3>1. content[Fixture] + 1 \in 1 .. MaxBump
        BY <1>4, <1>a, InvTypes, ConstantTypes DEF BumpRevision, Keys
      <3> QED
        BY <3>1, ConstantTypes
    <2> QED
      BY <1>1, <1>4, <1>a, <2>1, InvTypes, ConstantTypes DEF BumpRevision
  <1>5. ASSUME SetPilot PROVE TypeInv'
    <2>1. scope' \in BOOLEAN
      BY <1>5 DEF SetPilot
    <2> QED
      BY <1>1, <1>5, <1>a, <2>1, InvTypes DEF SetPilot
  <1>6. ASSUME UNCHANGED <<approved, retired, content, scope, failed, versions, plan, worker>>,
               asked' \in Work \cup {None},
               \/ UNCHANGED act
               \/ \E r \in Work : act' = Queued(r)
        PROVE  TypeInv'
    <2>1. CASE UNCHANGED act
      BY <1>6, <2>1, <1>a, <1>s, <1>u, InvTypes DEF worker
    <2>2. CASE \E r \in Work : act' = Queued(r)
      <3>1. /\ act' \in Row
            /\ act'.status = "pending" /\ act'.key \in Keys /\ act'.attempts = 0
        BY <2>2, PutIn
      <3>2. act'.attempts < MaxAttempts
        BY <3>1, ConstantTypes
      <3> QED
        BY <1>6, <3>1, <3>2, <1>a, <1>s, <1>u, InvTypes DEF worker
    <2> QED
      BY <1>6, <2>1, <2>2
  <1>7. ASSUME NEW b \in Batches, AskForBatch(b) PROVE TypeInv'
    <2>1. [src |-> b, key |-> Load(b)] \in Work
      BY <1>7, <1>a, InvTypes, ConstantTypes DEF AskForBatch, Load, Work
    <2> QED
      BY <1>6, <1>7, <2>1 DEF AskForBatch
  <1>8. ASSUME AskForFixture PROVE TypeInv'
    <2>1. [src |-> Fixture, key |-> content[Fixture]] \in Work
      BY <1>a, InvTypes, ConstantTypes DEF Work
    <2> QED
      BY <1>6, <1>8, <2>1 DEF AskForFixture
  <1>9. ASSUME Enqueue PROVE TypeInv'
    <2>1. asked \in Work
      BY <1>9, <1>a, InvTypes DEF Enqueue
    <2>2. asked' = None
      BY <1>9 DEF Enqueue
    <2> QED
      BY <1>6, <1>9, <2>1, <2>2 DEF Enqueue
  <1>10. ASSUME NEW r \in Work, RetryFailed(r) PROVE TypeInv'
    <2>1. /\ act' \in Row
          /\ act'.status = "pending" /\ act'.key \in Keys /\ act'.attempts = 0
      BY <1>10, PutIn DEF RetryFailed
    <2>2. failed' \subseteq Work
      BY <1>10, <1>a, InvTypes DEF RetryFailed
    <2> QED
      BY <1>10, <2>1, <2>2, <1>a, <1>s, <1>u, InvTypes, ConstantTypes DEF RetryFailed, worker
  (* The worker and its request. *)
  <1>11. ASSUME UNCHANGED <<approved, retired, content, scope, asked, versions, plan>>,
                act' \in Row, failed' \subseteq Work,
                Active' => act'.key \in Keys,
                act'.status = "pending" => act'.attempts < MaxAttempts,
                pc' \in [Workers -> {"idle", "claimed", "render", "commit", "insert",
                                     "retry", "end"}],
                mine' \in [Workers -> Work \cup {None}],
                num' \in [Workers -> Nat],
                Occupied'
         PROVE  TypeInv'
    BY <1>11, <1>a, <1>s, <1>u, InvTypes
  <1>l. ASSUME NEW w \in Workers, Leave(w)
        PROVE  /\ pc' \in [Workers -> {"idle", "claimed", "render", "commit", "insert",
                                       "retry", "end"}]
               /\ mine' \in [Workers -> Work \cup {None}]
               /\ num' \in [Workers -> Nat]
               /\ Occupied'
    BY <1>l, <1>a, InvTypes DEF Leave, Goto, Occupied
  <1>g. ASSUME NEW w \in Workers, pc[w] # "idle",
               NEW where \in {"claimed", "render", "commit", "insert", "retry", "end"},
               Goto(w, where), UNCHANGED mine
        PROVE  /\ pc' \in [Workers -> {"idle", "claimed", "render", "commit", "insert",
                                       "retry", "end"}]
               /\ Occupied'
    BY <1>g, <1>a, InvTypes DEF Goto, Occupied
  <1>12. ASSUME NEW w \in Workers, Recover(w) PROVE TypeInv'
    <2>1. /\ act' \in Row /\ failed' \subseteq Work
          /\ act'.status \in {"pending", "failed"}
          /\ act'.status = "pending" => act'.attempts < MaxAttempts /\ act'.key = act.key
      BY <1>12, <1>a, GivenUp DEF Recover, Active
    <2>2. Active' => act'.key \in Keys
      BY <1>12, <1>a, <2>1, InvTypes DEF Recover, Active, Work
    <2> QED
      BY <1>11, <1>12, <1>a, <1>u, <2>1, <2>2, InvTypes DEF Recover, worker
  <1>13. ASSUME NEW w \in Workers, Claim(w) PROVE TypeInv'
    <2>1. /\ act' = [act EXCEPT !.status = "running", !.attempts = @ + 1,
                                !.owner = w, !.lease = "live"]
          /\ act \in Row /\ act.attempts < MaxAttempts /\ act.key \in Keys
      BY <1>13, <1>a, InvTypes DEF Claim, Active, Work
    <2>2. act.attempts + 1 \in 0 .. MaxAttempts
      BY <1>a, <2>1, InvTypes, ConstantTypes
    <2>3. act' \in Row /\ act'.key = act.key /\ act'.status = "running"
      BY <2>1, <2>2 DEF Row
    <2>4. /\ [src |-> act.src, key |-> act.key] \in Work
          /\ pc' = [pc EXCEPT ![w] = "claimed"]
          /\ mine' = [mine EXCEPT ![w] = [src |-> act.src, key |-> act.key]]
          /\ UNCHANGED <<failed, num>>
      BY <1>13, <1>a, InvTypes DEF Claim, Active
    <2>5. Occupied'
      BY <1>a, <2>4, InvTypes DEF Occupied
    <2> QED
      BY <1>11, <1>13, <1>a, <2>1, <2>3, <2>4, <2>5, InvTypes DEF Claim
  <1>14. ASSUME UNCHANGED <<approved, retired, content, scope, asked, failed, versions, plan,
                            worker>>,
                act' \in Row, UNCHANGED <<act.status, act.key, act.attempts>>
         PROVE  TypeInv'
    BY <1>11, <1>14, <1>a, <1>u, InvTypes DEF worker, Active, Work
  <1>15. ASSUME LeaseExpires \/ BackoffElapses \/ \E w \in Workers : Heartbeat(w) PROVE TypeInv'
    <2>1. act \in Row
      BY <1>a, InvTypes
    <2>2. /\ act' \in Row
          /\ UNCHANGED <<act.status, act.key, act.attempts>>
      BY <1>15, <2>1 DEF LeaseExpires, BackoffElapses, Heartbeat, Row
    <2> QED
      BY <1>14, <1>15, <2>2 DEF LeaseExpires, BackoffElapses, Heartbeat
  <1>16. ASSUME NEW w \in Workers,
                ReadFails(w) \/ Render(w) \/ Recheck(w) \/ InsertFails(w)
         PROVE  TypeInv'
    <2>1. /\ pc[w] # "idle"
          /\ \E where \in {"render", "commit", "insert", "retry", "end"} : Goto(w, where)
          /\ UNCHANGED <<approved, retired, content, scope, asked, act, failed, versions, plan,
                         mine, num>>
      BY <1>16 DEF ReadFails, Render, Recheck, InsertFails
    <2> QED
      BY <1>11, <1>a, <1>g, <1>u, <2>1, InvTypes
  <1>17. ASSUME NEW w \in Workers, AlreadyMade(w) PROVE TypeInv'
    <2>1. CASE HoldsLease(w)
      <3>1. act' = Succeeded(mine[w]) /\ mine[w] \in Work
        BY <1>17, <1>a, <2>1, InvTypes DEF AlreadyMade
      <3>2. act' \in Row /\ act'.status = "succeeded"
        BY <3>1, SetDone
      <3> QED
        BY <1>11, <1>17, <1>a, <1>l, <3>2, InvTypes DEF AlreadyMade, Active
    <2>2. CASE ~HoldsLease(w)
      BY <1>11, <1>17, <1>a, <1>l, <1>u, <2>2, InvTypes DEF AlreadyMade
    <2> QED
      BY <2>1, <2>2
  <1>18. ASSUME NEW w \in Workers, Read(w) PROVE TypeInv'
    <2>1. /\ pc[w] = "claimed" /\ Goto(w, "render")
          /\ mine[w] \in Work /\ mine[w].src \in Sources
          /\ num' = [num EXCEPT ![w] = NextNumber(mine[w].src)]
          /\ UNCHANGED <<approved, retired, content, scope, asked, act, failed, versions, plan>>
      BY <1>18, <1>a, InvTypes DEF Read
    <2>2. \E e \in Work : mine' = [mine EXCEPT ![w] = e]
      <3>1. CASE mine[w].src = Fixture
        <4>1. mine' = [mine EXCEPT ![w] = [mine[w] EXCEPT !.key = content[Fixture]]]
          BY <1>18, <3>1 DEF Read
        <4>2. [mine[w] EXCEPT !.key = content[Fixture]] \in Work
          BY <1>a, <2>1, InvTypes DEF Work
        <4> QED
          BY <4>1, <4>2
      <3>2. CASE mine[w].src # Fixture
        BY <1>18, <1>a, <2>1, <3>2, InvTypes DEF Read
      <3> QED
        BY <3>1, <3>2
    <2>3. NextNumber(mine[w].src) \in Nat
      <3>1. PeriodOf[mine[w].src] \in Nat
        BY <2>1, ConstantTypes
      <3>2. PICK k \in Nat : Numbers(PeriodOf[mine[w].src]) = 1 .. k
        BY <3>1 DEF Inv, Contiguous
      <3> QED
        BY <3>2, NextIs
    <2>4. num' \in [Workers -> Nat]
      BY <1>a, <2>1, <2>3, InvTypes
    <2>5. /\ pc' \in [Workers -> {"idle", "claimed", "render", "commit", "insert",
                                  "retry", "end"}]
          /\ mine' \in [Workers -> Work \cup {None}]
          /\ Occupied'
      BY <1>a, <2>1, <2>2, InvTypes DEF Goto, Occupied
    <2> QED
      BY <1>11, <1>a, <1>u, <2>1, <2>4, <2>5, InvTypes
  <1>19. ASSUME NEW w \in Workers, Insert(w) PROVE TypeInv'
    <2>1. /\ mine[w] \in Work /\ num[w] \in Nat
          /\ Leave(w)
          /\ act' = Succeeded(mine[w])
          /\ Len(versions) < MaxVersions
          /\ UNCHANGED <<approved, retired, content, scope, asked, failed, plan>>
      BY <1>19, <1>a, InvTypes DEF Insert
    <2>2. /\ versions' \in Seq(Version)
          /\ Len(versions') = Len(versions) + 1
      BY <1>19, <1>a, <2>1, InsertedRow, InvTypes
    <2>3. Len(versions) \in Nat
      BY <1>a, InvTypes, RowTypes
    <2>4. act' \in Row /\ act'.status = "succeeded"
      BY <2>1, SetDone
    <2>5. /\ Len(versions') <= MaxVersions
          /\ plan' \subseteq 1 .. Len(versions')
      BY <1>a, <2>1, <2>2, <2>3, InvTypes, ConstantTypes DEF Rows
    <2> QED
      BY <1>a, <1>l, <1>s, <2>1, <2>2, <2>4, <2>5, InvTypes DEF Active
  <1>20. ASSUME NEW w \in Workers, Fail(w) PROVE TypeInv'
    <2>1. CASE HoldsLease(w)
      <3>1. \E terminal \in BOOLEAN : GiveUp(terminal)
        BY <1>20, <2>1 DEF Fail
      <3>2. Active
        BY <2>1 DEF HoldsLease, Active
      <3>3. /\ act' \in Row /\ failed' \subseteq Work
            /\ act'.status \in {"pending", "failed"}
            /\ act'.status = "pending" => act'.attempts < MaxAttempts /\ act'.key = act.key
        BY <1>a, <3>1, <3>2, GivenUp
      <3>4. Active' => act'.key \in Keys
        BY <1>a, <3>2, <3>3, InvTypes DEF Active, Work
      <3> QED
        BY <1>11, <1>20, <1>a, <1>l, <3>3, <3>4 DEF Fail
    <2>2. CASE ~HoldsLease(w)
      BY <1>11, <1>20, <1>a, <1>l, <1>u, <2>2, InvTypes DEF Fail
    <2> QED
      BY <2>1, <2>2
  <1>21. ASSUME NEW w \in Workers, Crash(w) PROVE TypeInv'
    BY <1>11, <1>21, <1>a, <1>l, <1>u, InvTypes DEF Crash
  (* Versions. *)
  <1>22. ASSUME UNCHANGED <<approved, retired, content, scope, asked, act, failed, worker>>,
                SameRows, plan' \subseteq Rows
         PROVE  TypeInv'
    <2>1. /\ versions' \in Seq(Version) /\ Len(versions') <= MaxVersions
          /\ plan' \subseteq 1 .. Len(versions')
      BY <1>22, <1>a, InvTypes DEF SameRows, Rows
    <2> QED
      BY <1>22, <2>1, <1>a, <1>s, <1>u, InvTypes DEF worker
  <1>23. ASSUME NEW i, Restore(i) PROVE TypeInv'
    BY <1>22, <1>23, <1>a, RestoredRows, InvTypes DEF Restore
  <1>24. ASSUME ExecuteRetention PROVE TypeInv'
    BY <1>22, <1>24, <1>a, RetiredRows, InvTypes DEF ExecuteRetention
  <1>25. ASSUME NEW n \in 1 .. Len(versions), PlanRetention(n) PROVE TypeInv'
    <2>1. plan' \subseteq Rows
      BY <1>25, <1>a, InvTypes, RowTypes DEF PlanRetention, Expired, Rows
    <2>2. SameRows
      BY <1>25, <1>a, InvTypes DEF PlanRetention, SameRows
    <2> QED
      BY <1>22, <1>25, <2>1, <2>2 DEF PlanRetention
  <1>26. CASE UNCHANGED vars
    BY <1>1, <1>26, <1>a, InvTypes DEF vars
  <1> QED
    BY <1>2, <1>3, <1>4, <1>5, <1>7, <1>8, <1>9, <1>10, <1>12, <1>13, <1>15, <1>16, <1>17,
       <1>18, <1>19, <1>20, <1>21, <1>23, <1>24, <1>25, <1>26
    DEF Next, WorkerStep

-----------------------------------------------------------------------------
(* The worker that is about to insert keeps the row, and what a holder has  *)
(* read of the numbers stays true until it inserts itself.                  *)

LEMMA LockNext == Inv /\ [Next]_vars => RowLocked'
  <1> SUFFICES ASSUME Inv, [Next]_vars PROVE RowLocked'
    OBVIOUS
  <1>a. TypeInv /\ RowLocked
    BY DEF Inv
  (* The row is somebody's after a step only if it was before, or he        *)
  (* claimed it.                                                            *)
  <1>b. ASSUME \A w \in Workers : pc'[w] = "insert" => pc[w] = "insert",
               \A w \in Workers : pc[w] = "insert" /\ pc'[w] = "insert" =>
                   act'.status = act.status /\ act'.owner = act.owner
        PROVE  RowLocked'
    BY <1>a, <1>b DEF RowLocked, HoldsLease
  <1>1. ASSUME UNCHANGED <<pc, act>> PROVE RowLocked'
    BY <1>b, <1>1
  <1>2. ASSUME NEW w \in Workers, Leave(w),
               HoldsLease(w) \/ Unlocked \/ UNCHANGED act
        PROVE  RowLocked'
    <2>1. \A v \in Workers : pc'[v] = "insert" => pc[v] = "insert" /\ v # w
      BY <1>2, <1>a, InvTypes DEF Leave, Goto
    <2>2. \A v \in Workers : pc[v] = "insert" /\ v # w => UNCHANGED act
      BY <1>2, <1>a DEF RowLocked, HoldsLease, Unlocked
    <2> QED
      BY <1>b, <2>1, <2>2
  <1>3. ASSUME NEW w \in Workers, UNCHANGED act,
               NEW where \in {"render", "commit", "retry", "end"}, Goto(w, where)
        PROVE  RowLocked'
    BY <1>b, <1>3, <1>a, InvTypes DEF Goto
  <1>4. ASSUME ~Active \/ UNCHANGED act, UNCHANGED pc PROVE RowLocked'
    BY <1>b, <1>4, <1>a DEF RowLocked, HoldsLease, Active
  <1>5. ASSUME NEW w \in Workers, Claim(w) PROVE RowLocked'
    BY <1>b, <1>5, <1>a, InvTypes DEF Claim, RowLocked, HoldsLease
  <1>6. ASSUME NEW w \in Workers, Recheck(w) PROVE RowLocked'
    <2>1. CASE StillMine(w)
      <3>1. HoldsLease(w) /\ pc' = [pc EXCEPT ![w] = "insert"] /\ UNCHANGED act
        BY <1>6, <2>1 DEF Recheck, StillMine, OwnsLease, Goto
      <3> QED
        BY <1>a, <3>1, InvTypes DEF RowLocked, HoldsLease
    <2>2. CASE ~StillMine(w)
      BY <1>3, <1>6, <2>2 DEF Recheck
    <2> QED
      BY <2>1, <2>2
  <1>7. ASSUME NEW w \in Workers, Recover(w) PROVE RowLocked'
    BY <1>b, <1>7 DEF Recover, Unlocked, worker
  <1>8. ASSUME LeaseExpires \/ BackoffElapses \/ \E w \in Workers : Heartbeat(w)
        PROVE  RowLocked'
    <2>1. /\ UNCHANGED <<pc>>
          /\ act'.status = act.status /\ act'.owner = act.owner
      BY <1>8, <1>a, InvTypes DEF LeaseExpires, BackoffElapses, Heartbeat, Row, worker
    <2> QED
      BY <1>b, <2>1
  <1>9. ASSUME NEW w \in Workers, AlreadyMade(w) PROVE RowLocked'
    BY <1>2, <1>9 DEF AlreadyMade
  <1>10. ASSUME NEW w \in Workers, Insert(w) PROVE RowLocked'
    BY <1>2, <1>10, <1>a DEF Insert, RowLocked
  <1>11. ASSUME NEW w \in Workers, Fail(w) PROVE RowLocked'
    BY <1>2, <1>11 DEF Fail
  <1>12. ASSUME NEW w \in Workers, Crash(w) PROVE RowLocked'
    BY <1>2, <1>12 DEF Crash
  <1>13. ASSUME NEW w \in Workers, ReadFails(w) \/ Read(w) \/ Render(w) \/ InsertFails(w)
         PROVE  RowLocked'
    BY <1>3, <1>13 DEF ReadFails, Read, Render, InsertFails
  <1>14. ASSUME Enqueue \/ \E r \in Work : RetryFailed(r) PROVE RowLocked'
    BY <1>4, <1>14 DEF Enqueue, RetryFailed, worker
  <1> QED
    BY <1>1, <1>5, <1>6, <1>7, <1>8, <1>9, <1>10, <1>11, <1>12, <1>13, <1>14
    DEF Next, WorkerStep, vars, worker, Approve, Portfolios!Approve, AskForBatch, ContentChanges,
        BumpRevision, SetPilot, AskForFixture, Restore, PlanRetention, ExecuteRetention

LEMMA NumbersNext == Inv /\ [Next]_vars => (Contiguous /\ NumberHeld)'
  <1> SUFFICES ASSUME Inv, [Next]_vars PROVE (Contiguous /\ NumberHeld)'
    OBVIOUS
  <1>a. TypeInv /\ RowLocked /\ Contiguous /\ NumberHeld
    BY DEF Inv
  <1>b. versions \in Seq(Version)
    BY <1>a, InvTypes
  (* The rows stay; a worker that holds the request and has read held it    *)
  (* and had read before.                                                   *)
  <1>1. ASSUME SameRows,
               \A w \in Workers : HoldsLease(w)' /\ pc'[w] \in Rendering =>
                   /\ HoldsLease(w) /\ pc[w] \in Rendering
                   /\ UNCHANGED <<mine[w], num[w]>>
        PROVE  (Contiguous /\ NumberHeld)'
    <2>1. Contiguous'
      BY <1>1, <1>a, <1>b, SameNumbers DEF Contiguous
    <2>2. NumberHeld'
      <3> SUFFICES ASSUME NEW w \in Workers, HoldsLease(w)', pc'[w] \in Rendering
                   PROVE  (/\ num[w] = NextNumber(mine[w].src)
                           /\ mine[w].src # Fixture =>
                                VersionsOf(mine[w].src, mine[w].key) = {})'
        BY DEF NumberHeld
      <3>1. /\ num[w] = NextNumber(mine[w].src)
            /\ mine[w].src # Fixture => VersionsOf(mine[w].src, mine[w].key) = {}
            /\ UNCHANGED <<mine[w], num[w]>>
        BY <1>1, <1>a DEF NumberHeld
      <3>2. /\ NextNumber(mine[w].src)' = NextNumber(mine[w].src)
            /\ VersionsOf(mine[w].src, mine[w].key)' = VersionsOf(mine[w].src, mine[w].key)
        BY <1>1, <1>b, <3>1, SameNumbers
      <3> QED
        BY <3>1, <3>2
    <2> QED
      BY <2>1, <2>2
  <1>c. UNCHANGED versions => SameRows
    BY <1>b DEF SameRows
  <1>2. ASSUME NEW w \in Workers, Read(w) PROVE (Contiguous /\ NumberHeld)'
    <2> DEFINE s == mine[w].src
    <2>1. /\ UNCHANGED <<versions, act>>
          /\ pc' = [pc EXCEPT ![w] = "render"]
          /\ num' = [num EXCEPT ![w] = NextNumber(s)]
          /\ s # Fixture => VersionsOf(s, mine[w].key) = {} /\ UNCHANGED mine
          /\ \E e : mine' = [mine EXCEPT ![w].key = e] \/ UNCHANGED mine
      BY <1>2 DEF Read, Goto
    <2>2. \A v \in Workers : v # w => UNCHANGED <<mine[v], num[v], pc[v]>>
      BY <1>a, <2>1, InvTypes
    <2>3. mine[w] \in Work
      BY <1>2, <1>a, InvTypes DEF Read
    <2>4. mine'[w].src = s /\ num'[w] = NextNumber(s) /\ pc'[w] = "render"
      BY <1>a, <2>1, <2>3, InvTypes DEF Work
    <2>5. /\ \A t : NextNumber(t)' = NextNumber(t)
          /\ \A t, k : VersionsOf(t, k)' = VersionsOf(t, k)
          /\ \A p : Numbers(p)' = Numbers(p)
      BY <1>b, <1>c, <2>1, SameNumbers
    <2>6. Contiguous'
      BY <1>a, <2>5 DEF Contiguous
    <2>7. NumberHeld'
      <3> SUFFICES ASSUME NEW v \in Workers, HoldsLease(v)', pc'[v] \in Rendering
                   PROVE  (/\ num[v] = NextNumber(mine[v].src)
                           /\ mine[v].src # Fixture =>
                                VersionsOf(mine[v].src, mine[v].key) = {})'
        BY DEF NumberHeld
      <3>1. CASE v = w
        <4>1. NextNumber(mine[w].src)' = NextNumber(s)
          BY <2>4, <2>5
        <4>2. s # Fixture => VersionsOf(mine[w].src, mine[w].key)' = VersionsOf(s, mine[w].key)
          BY <2>1, <2>5
        <4> QED
          BY <2>1, <2>4, <3>1, <4>1, <4>2
      <3>2. CASE v # w
        <4>1. /\ num[v] = NextNumber(mine[v].src)
              /\ mine[v].src # Fixture => VersionsOf(mine[v].src, mine[v].key) = {}
              /\ UNCHANGED <<mine[v], num[v]>>
          BY <1>a, <2>1, <2>2, <3>2 DEF NumberHeld, HoldsLease
        <4>2. /\ NextNumber(mine[v].src)' = NextNumber(mine[v].src)
              /\ VersionsOf(mine[v].src, mine[v].key)' = VersionsOf(mine[v].src, mine[v].key)
          BY <2>5, <4>1
        <4> QED
          BY <4>1, <4>2
      <3> QED
        BY <3>1, <3>2
    <2> QED
      BY <2>6, <2>7
  <1>3. ASSUME NEW w \in Workers, Insert(w) PROVE (Contiguous /\ NumberHeld)'
    <2>1. /\ mine[w] \in Work /\ mine[w].src \in Sources /\ num[w] \in Nat
          /\ HoldsLease(w) /\ pc[w] \in Rendering
          /\ act' = Succeeded(mine[w])
      BY <1>3, <1>a, InvTypes DEF Insert, RowLocked, Rendering
    <2>2. num[w] = NextNumber(mine[w].src)
      BY <1>a, <2>1 DEF NumberHeld
    <2>3. ASSUME NEW p \in Nat PROVE \E k \in Nat : Numbers(p)' = 1 .. k
      <3>1. PICK k \in Nat : Numbers(p) = 1 .. k
        BY <1>a DEF Contiguous
      <3>2. Numbers(p)' = IF PeriodOf[mine[w].src] = p THEN Numbers(p) \cup {num[w]}
                                                        ELSE Numbers(p)
        BY <1>3, <1>b, <2>1, InsertedNumber
      <3>3. CASE PeriodOf[mine[w].src] = p
        <4>1. num[w] = k + 1
          BY <2>2, <3>1, <3>3, NextIs
        <4>2. Numbers(p)' = 1 .. k + 1
          BY <3>1, <3>2, <3>3, <4>1
        <4> QED
          BY <4>2
      <3>4. CASE PeriodOf[mine[w].src] # p
        BY <3>1, <3>2, <3>4
      <3> QED
        BY <3>3, <3>4
    <2>4. act'.status = "succeeded"
      BY <2>1, SetDone
    <2>5. NumberHeld'
      BY <2>4 DEF NumberHeld, HoldsLease
    <2> QED
      BY <2>3, <2>5 DEF Contiguous
  <1>4. ASSUME UNCHANGED act, SameRows, UNCHANGED <<pc, mine, num>>
        PROVE  (Contiguous /\ NumberHeld)'
    BY <1>1, <1>4 DEF HoldsLease
  <1>5. ASSUME NEW w \in Workers, UNCHANGED <<versions, act, mine, num>>,
               NEW where, Goto(w, where), where \in Rendering => pc[w] \in Rendering
        PROVE  (Contiguous /\ NumberHeld)'
    BY <1>1, <1>5, <1>a, <1>c, InvTypes DEF HoldsLease, Goto
  <1>6. ASSUME NEW w \in Workers, UNCHANGED versions, Leave(w),
               \A v \in Workers : HoldsLease(v)' => HoldsLease(v)
        PROVE  (Contiguous /\ NumberHeld)'
    <2>1. ASSUME NEW v \in Workers, pc'[v] \in Rendering
          PROVE  pc[v] \in Rendering /\ UNCHANGED <<mine[v], num[v]>>
      <3>1. v # w
        BY <1>6, <1>a, <2>1, InvTypes DEF Leave, Goto, Rendering
      <3> QED
        BY <1>6, <1>a, <2>1, <3>1, InvTypes DEF Leave, Goto
    <2> QED
      BY <1>1, <1>6, <1>c, <2>1
  <1>7. ASSUME UNCHANGED <<versions, pc, mine, num>>,
               \A v \in Workers : HoldsLease(v)' => HoldsLease(v)
        PROVE  (Contiguous /\ NumberHeld)'
    BY <1>1, <1>7, <1>c
  <1>8. ASSUME NEW w \in Workers, Claim(w) PROVE (Contiguous /\ NumberHeld)'
    <2>1. \A v \in Workers : HoldsLease(v)' /\ pc'[v] \in Rendering => FALSE
      <3>1. act'.owner = w
        BY <1>8, <1>a, InvTypes DEF Claim, Row
      <3>2. pc'[w] = "claimed"
        BY <1>8, <1>a, InvTypes DEF Claim
      <3> QED
        BY <3>1, <3>2 DEF HoldsLease, Rendering
    <2>2. UNCHANGED versions
      BY <1>8 DEF Claim
    <2> QED
      BY <1>1, <1>c, <2>1, <2>2
  <1>9. ASSUME NEW w \in Workers, AlreadyMade(w) PROVE (Contiguous /\ NumberHeld)'
    <2>1. act'.status = "succeeded" \/ UNCHANGED act
      BY <1>9, <1>a, SetDone, InvTypes DEF AlreadyMade
    <2> QED
      BY <1>6, <1>9, <2>1 DEF AlreadyMade, HoldsLease
  <1>10. ASSUME NEW w \in Workers, Fail(w) PROVE (Contiguous /\ NumberHeld)'
    <2>1. act'.status \in {"pending", "failed"} \/ UNCHANGED act
      BY <1>10, <1>a, GivenUp DEF Fail, HoldsLease, Active
    <2> QED
      BY <1>6, <1>10, <2>1 DEF Fail, HoldsLease
  <1>11. ASSUME NEW w \in Workers, Recover(w) PROVE (Contiguous /\ NumberHeld)'
    <2>1. act'.status \in {"pending", "failed"}
      BY <1>11, <1>a, GivenUp DEF Recover, Active
    <2> QED
      BY <1>7, <1>11, <2>1 DEF Recover, HoldsLease, worker
  <1>12. ASSUME NEW w \in Workers, Crash(w) PROVE (Contiguous /\ NumberHeld)'
    BY <1>6, <1>12 DEF Crash, HoldsLease
  <1>13. ASSUME LeaseExpires \/ BackoffElapses \/ \E w \in Workers : Heartbeat(w)
         PROVE  (Contiguous /\ NumberHeld)'
    <2>1. act'.status = act.status /\ act'.owner = act.owner
      BY <1>13, <1>a, InvTypes DEF LeaseExpires, BackoffElapses, Heartbeat, Row
    <2> QED
      BY <1>7, <1>13, <2>1 DEF LeaseExpires, BackoffElapses, Heartbeat, HoldsLease, worker
  <1>14. ASSUME Enqueue \/ \E r \in Work : RetryFailed(r) PROVE (Contiguous /\ NumberHeld)'
    <2>1. act'.status = "pending" \/ UNCHANGED act
      BY <1>14, <1>a, PutIn, InvTypes DEF Enqueue, RetryFailed
    <2> QED
      BY <1>7, <1>14, <2>1 DEF Enqueue, RetryFailed, HoldsLease, worker
  <1>15. ASSUME NEW w \in Workers,
                ReadFails(w) \/ Render(w) \/ Recheck(w) \/ InsertFails(w)
         PROVE  (Contiguous /\ NumberHeld)'
    BY <1>5, <1>15 DEF ReadFails, Render, Recheck, InsertFails, Rendering
  <1>16. ASSUME NEW i, Restore(i) PROVE (Contiguous /\ NumberHeld)'
    BY <1>4, <1>16, <1>b, RestoredRows DEF Restore, worker
  <1>17. ASSUME ExecuteRetention PROVE (Contiguous /\ NumberHeld)'
    BY <1>4, <1>17, <1>b, RetiredRows DEF ExecuteRetention, worker
  <1>18. ASSUME UNCHANGED <<versions, act, pc, mine, num>> PROVE (Contiguous /\ NumberHeld)'
    BY <1>4, <1>18, <1>c
  <1> QED
    BY <1>2, <1>3, <1>8, <1>9, <1>10, <1>11, <1>12, <1>13, <1>14, <1>15, <1>16, <1>17, <1>18
    DEF Next, WorkerStep, vars, worker, Approve, Portfolios!Approve, AskForBatch, ContentChanges,
        BumpRevision, SetPilot, AskForFixture, PlanRetention

LEMMA InvNext == Inv /\ [Next]_vars => Inv'
  BY TypeNext, LockNext, NumbersNext DEF Inv

(* ReportJobs!TypeOK: no request is tried more often than it may be, and no *)
(* interleaving leaves a worker, a row or a version half made.              *)
THEOREM RequestsTyped == Spec => []TypeOK
  <1>1. Inv => TypeOK
    BY DEF Inv, TypeInv
  <1> QED
    BY InvInit, InvNext, <1>1, PTL DEF Spec

(* ReportJobs!InsertNeverCollides: whatever other workers and requests do   *)
(* while a report is rendered, the number and the revision it was begun     *)
(* with are free when it is committed.                                      *)
THEOREM NumbersFree == Spec => []InsertNeverCollides
  <1>1. Inv => InsertNeverCollides
    <2> SUFFICES ASSUME Inv, NEW w \in Workers, pc[w] = "insert" PROVE ~Collides(w)
      BY DEF InsertNeverCollides
    <2>1. TypeInv /\ versions \in Seq(Version) /\ mine[w].src \in Sources
      BY InvTypes DEF Inv
    <2>2. /\ num[w] = NextNumber(mine[w].src)
          /\ mine[w].src # Fixture => VersionsOf(mine[w].src, mine[w].key) = {}
      BY DEF Inv, RowLocked, NumberHeld, Rendering
    <2>3. PICK k \in Nat : Numbers(PeriodOf[mine[w].src]) = 1 .. k
      BY <2>1, ConstantTypes DEF Inv, Contiguous
    <2>4. num[w] = k + 1
      BY <2>2, <2>3, NextIs
    <2>5. num[w] \notin Numbers(PeriodOf[mine[w].src])
      BY <2>3, <2>4
    <2> QED
      BY <2>2, <2>5 DEF Collides, Numbers
  <1> QED
    BY InvInit, InvNext, <1>1, PTL DEF Spec

-----------------------------------------------------------------------------
(* Everything but four steps leaves the rows of versions as they are.       *)
LEMMA OtherSteps ==
    [Next]_vars =>
      \/ UNCHANGED versions
      \/ \E w \in Workers : Insert(w)
      \/ \E i \in 1 .. MaxVersions : Restore(i)
      \/ ExecuteRetention
  BY DEF Next, WorkerStep, vars, worker, Approve, Portfolios!Approve, AskForBatch, ContentChanges,
         BumpRevision, SetPilot, AskForFixture, Enqueue, RetryFailed, Recover, Claim, LeaseExpires,
         BackoffElapses, Heartbeat, ReadFails, AlreadyMade, Read, Render, Recheck, InsertFails,
         Fail, Crash, PlanRetention

(* Retention only ever plans for versions that are superseded, and while it *)
(* is under way nobody makes one current again: the two commands are run    *)
(* one at a time, by the same operator.                                     *)
PlanSuperseded == \A i \in plan : versions[i].status = "superseded"

(* Somebody's latest choice, or the latest report, is visible.              *)
SomeVisible == Rows # {} => \E i \in Rows : versions[i].status = "validated"

FilesKept == \A i \in Rows : versions[i].status = "validated" => versions[i].files

LEMMA FilesNext ==
    Faults = {} /\ Inv /\ PlanSuperseded /\ SomeVisible /\ FilesKept /\ [Next]_vars
      => (PlanSuperseded /\ SomeVisible /\ FilesKept)'
  <1> DEFINE Files == PlanSuperseded /\ SomeVisible /\ FilesKept
  <1> SUFFICES ASSUME Faults = {}, Inv, Files, [Next]_vars PROVE Files'
    OBVIOUS
  <1>a. /\ TypeInv
        /\ versions \in Seq(Version)
        /\ Len(versions) \in Nat /\ DOMAIN versions = Rows
        /\ plan \subseteq Rows
    BY InvTypes, RowTypes DEF Inv
  <1>1. ASSUME NEW w \in Workers, Insert(w) PROVE Files'
    <2> DEFINE n == Len(versions) + 1
    <2>1. /\ Len(versions') = n
          /\ \A i \in Rows : versions'[i] = versions[i]
          /\ versions'[n].status = "validated" /\ versions'[n].files
      BY <1>1, <1>a, InsertedRow, InvTypes DEF Insert
    <2>2. Rows' = Rows \cup {n} /\ n \notin Rows
      BY <1>a, <2>1 DEF Rows
    <2>3. UNCHANGED plan
      BY <1>1 DEF Insert
    <2> HIDE DEF n
    <2> QED
      BY <1>a, <2>1, <2>2, <2>3 DEF PlanSuperseded, SomeVisible, FilesKept
  <1>2. ASSUME NEW i \in 1 .. MaxVersions, Restore(i) PROVE Files'
    <2>1. /\ i \in Rows /\ versions[i].files
          /\ \A j \in Rows :
               /\ versions'[j].files = versions[j].files
               /\ versions'[j].status = IF j = i THEN "validated"
                                        ELSE IF j > i THEN "superseded" ELSE versions[j].status
          /\ Rows' = Rows
      BY <1>2, <1>a, RestoredRows DEF SameRows, Rows
    <2>2. plan' = {}
      BY <1>2 DEF Restore
    <2> QED
      BY <2>1, <2>2 DEF PlanSuperseded, SomeVisible, FilesKept
  <1>3. ASSUME ExecuteRetention PROVE Files'
    <2>1. /\ \A j \in Rows : /\ versions'[j].files = (versions[j].files /\ j \notin plan)
                             /\ versions'[j].status = versions[j].status
          /\ Rows' = Rows
      BY <1>3, <1>a, RetiredRows DEF SameRows, Rows
    <2>2. plan' = {}
      BY <1>3 DEF ExecuteRetention
    <2>3. FilesKept'
      BY <2>1 DEF PlanSuperseded, FilesKept
    <2> QED
      BY <2>1, <2>2, <2>3 DEF PlanSuperseded, SomeVisible
  <1>4. CASE UNCHANGED versions
    <2>1. (SomeVisible /\ FilesKept)'
      BY <1>4 DEF SomeVisible, FilesKept, Rows
    <2>2. plan' = plan \/ plan' = {} \/ \E n \in 1 .. Len(versions) : plan' = Expired(n)
      BY DEF Next, WorkerStep, vars, worker, Approve, Portfolios!Approve, AskForBatch, ContentChanges,
             BumpRevision, SetPilot, AskForFixture, Enqueue, RetryFailed, Recover, Claim, LeaseExpires,
             BackoffElapses, Heartbeat, ReadFails, AlreadyMade, Read, Render, Recheck,
             InsertFails, Fail, Crash, PlanRetention, ExecuteRetention, Insert, Restore
    <2>3. PlanSuperseded'
      BY <1>4, <2>2 DEF PlanSuperseded, Expired
    <2> QED
      BY <2>1, <2>3
  <1> QED
    BY <1>1, <1>2, <1>3, <1>4, OtherSteps

LEMMA FilesInit == Init => PlanSuperseded /\ SomeVisible /\ FilesKept
  <1> SUFFICES ASSUME Init PROVE PlanSuperseded /\ SomeVisible /\ FilesKept
    OBVIOUS
  <1>1. Len(versions) = 0
    BY EmptySeq DEF Init
  <1> QED
    BY <1>1 DEF Init, PlanSuperseded, SomeVisible, FilesKept, Rows

(* ReportJobs!VisibleComplete and ReportJobs!AlwaysOneToRead: where the     *)
(* answers to commits arrive and retention is not run beside a restoration, *)
(* every version in the list can be opened, and there is one once there was.*)
THEOREM ReportsReadable == Faults = {} => (Spec => [](VisibleComplete /\ AlwaysOneToRead))
  <1> DEFINE Files == PlanSuperseded /\ SomeVisible /\ FilesKept
  <1> SUFFICES ASSUME Faults = {} PROVE Spec => [](VisibleComplete /\ AlwaysOneToRead)
    OBVIOUS
  <1>1. Init => Inv /\ Files
    BY InvInit, FilesInit
  <1>2. Inv /\ Files /\ [Next]_vars => (Inv /\ Files)'
    BY InvNext, FilesNext
  <1>3. Inv /\ Files => VisibleComplete /\ AlwaysOneToRead
    <2> SUFFICES ASSUME Inv, Files PROVE VisibleComplete /\ AlwaysOneToRead
      OBVIOUS
    <2>1. versions \in Seq(Version) /\ DOMAIN versions = Rows
      BY InvTypes, RowTypes DEF Inv
    <2>2. versions # <<>> => Rows # {}
      <3>1. versions # <<>> => Len(versions) \in Nat \ {0}
        BY <2>1, EmptySeq
      <3>2. \A n \in Nat \ {0} : 1 .. n # {}
        BY SMT
      <3> QED
        BY <3>1, <3>2, Zenon DEF Rows
    <2>3. Visible = {i \in Rows : versions[i].status = "validated"}
      BY <2>1 DEF Visible
    <2>4. \A i \in Visible : versions[i].files
      BY <2>3, Zenon DEF FilesKept
    <2>5. Rows # {} => Visible # {}
      BY <2>3, Zenon DEF SomeVisible
    <2> QED
      BY <2>2, <2>4, <2>5, Zenon DEF VisibleComplete, AlwaysOneToRead
  <1> QED
    BY <1>1, <1>2, <1>3, PTL DEF Spec

(* ReportJobs!AlwaysOneToRead by itself: restorations and retention leave    *)
(* the partner a version that can be opened.                                *)
COROLLARY OneToRead == Faults = {} => (Spec => []AlwaysOneToRead)
  <1> SUFFICES ASSUME Faults = {} PROVE Spec => []AlwaysOneToRead
    OBVIOUS
  <1>1. Spec => [](VisibleComplete /\ AlwaysOneToRead)
    BY ReportsReadable
  <1> QED
    BY <1>1, PTL

-----------------------------------------------------------------------------
(* A request that is done.                                                  *)

LEMMA DoneNext == Inv /\ DoneMeansMade /\ [Next]_vars => DoneMeansMade'
  <1> SUFFICES ASSUME Inv, DoneMeansMade, [Next]_vars PROVE DoneMeansMade'
    OBVIOUS
  <1>a. TypeInv /\ versions \in Seq(Version)
    BY InvTypes DEF Inv
  <1>1. ASSUME UNCHANGED act, SameRows PROVE DoneMeansMade'
    BY <1>1, <1>a, SameNumbers DEF DoneMeansMade
  <1>2. ASSUME act'.status # "succeeded" PROVE DoneMeansMade'
    BY <1>2 DEF DoneMeansMade
  <1>c. UNCHANGED versions => SameRows
    BY <1>a DEF SameRows
  <1>3. ASSUME NEW w \in Workers, AlreadyMade(w) PROVE DoneMeansMade'
    <2>1. CASE HoldsLease(w)
      <3>1. /\ act' = Succeeded(mine[w]) /\ mine[w] \in Work
            /\ VersionsOf(mine[w].src, mine[w].key) # {}
            /\ UNCHANGED versions
        BY <1>3, <1>a, <2>1, InvTypes DEF AlreadyMade
      <3>2. act'.src = mine[w].src /\ act'.key = mine[w].key
        BY <3>1, SetDone
      <3>3. PICK i \in DOMAIN versions :
              versions[i].src = mine[w].src /\ versions[i].key = mine[w].key
        BY <3>1 DEF VersionsOf
      <3>4. /\ i \in DOMAIN versions'
            /\ versions'[i].src = act'.src /\ versions'[i].key = act'.key
        BY <3>1, <3>2, <3>3
      <3> QED
        BY <3>4 DEF DoneMeansMade, VersionsOf
    <2>2. CASE ~HoldsLease(w)
      BY <1>1, <1>3, <1>c, <2>2 DEF AlreadyMade
    <2> QED
      BY <2>1, <2>2
  <1>4. ASSUME NEW w \in Workers, Insert(w) PROVE DoneMeansMade'
    <2> DEFINE n == Len(versions) + 1
    <2>1. /\ mine[w] \in Work /\ num[w] \in Nat
          /\ act' = Succeeded(mine[w])
      BY <1>4, <1>a, InvTypes DEF Insert
    <2>2. act'.src = mine[w].src /\ act'.key = mine[w].key
      BY <2>1, SetDone
    <2>3. /\ versions' \in Seq(Version) /\ Len(versions') = n
          /\ versions'[n].src = mine[w].src /\ versions'[n].key = mine[w].key
      BY <1>4, <1>a, <2>1, InsertedRow
    <2>4. n \in DOMAIN versions'
      BY <1>a, <2>3, LenProperties
    <2> HIDE DEF n
    <2> QED
      BY <2>2, <2>3, <2>4 DEF DoneMeansMade, VersionsOf
  <1>5. ASSUME NEW w \in Workers, Fail(w) \/ Recover(w) PROVE DoneMeansMade'
    <2>1. act'.status \in {"pending", "failed"} \/ UNCHANGED act
      BY <1>5, <1>a, GivenUp DEF Fail, Recover, HoldsLease, Active
    <2> QED
      BY <1>1, <1>2, <1>5, <1>c, <2>1 DEF Fail, Recover
  <1>6. ASSUME \/ LeaseExpires \/ BackoffElapses
               \/ \E w \in Workers : Heartbeat(w) \/ Claim(w)
        PROVE  DoneMeansMade'
    <2>1. /\ act'.status \in {act.status, "running"}
          /\ act'.src = act.src /\ act'.key = act.key
      BY <1>6, <1>a, InvTypes DEF LeaseExpires, BackoffElapses, Heartbeat, Claim, Row
    <2>2. UNCHANGED versions
      BY <1>6 DEF LeaseExpires, BackoffElapses, Heartbeat, Claim
    <2> QED
      BY <2>1, <2>2 DEF DoneMeansMade, VersionsOf
  <1>7. ASSUME Enqueue \/ \E r \in Work : RetryFailed(r) PROVE DoneMeansMade'
    <2>1. act'.status = "pending" \/ UNCHANGED act
      BY <1>7, <1>a, PutIn, InvTypes DEF Enqueue, RetryFailed
    <2> QED
      BY <1>1, <1>2, <1>7, <1>c, <2>1 DEF Enqueue, RetryFailed
  <1>8. ASSUME NEW i, Restore(i) PROVE DoneMeansMade'
    BY <1>1, <1>8, <1>a, RestoredRows DEF Restore
  <1>9. ASSUME ExecuteRetention PROVE DoneMeansMade'
    BY <1>1, <1>9, <1>a, RetiredRows DEF ExecuteRetention
  <1>10. CASE UNCHANGED <<act, versions>>
    BY <1>1, <1>10, <1>c
  <1> QED
    BY <1>3, <1>4, <1>5, <1>6, <1>7, <1>8, <1>9, <1>10
    DEF Next, WorkerStep, vars, Approve, Portfolios!Approve, AskForBatch, ContentChanges, BumpRevision, SetPilot,
        AskForFixture, ReadFails, Read, Render, Recheck, InsertFails, Crash, PlanRetention

(* ReportJobs!DoneMeansMade: no late worker, no restart from a failed       *)
(* request and no change of the source makes the queue report as done what  *)
(* there is no version of.                                                  *)
THEOREM DoneIsMade == Spec => []DoneMeansMade
  <1>1. Init => DoneMeansMade
    BY DEF Init, Inactive, DoneMeansMade
  <1> QED
    BY <1>1, InvInit, InvNext, DoneNext, PTL DEF Spec

-----------------------------------------------------------------------------
(* A report that comes late.  Of two approvals of a period the later one    *)
(* retires the earlier; and while a worker has the row locked, no other     *)
(* report is committed that could be the replacement's.                     *)

OneApproved == \A b, c \in approved : PeriodOf[b] = PeriodOf[c] => b = c

Uploaded == \A i \in Rows :
    versions[i].src \in Batches => versions[i].src \in approved \cup retired

RestRetired == \A w \in Workers : pc[w] = "insert" /\ mine[w].src \in Batches =>
    /\ mine[w].src \in approved \cup retired
    /\ \A i \in Rows :
         /\ versions[i].src \in Batches
         /\ PeriodOf[versions[i].src] = PeriodOf[mine[w].src]
         /\ versions[i].src # mine[w].src
         => versions[i].src \in retired

InOrder == \A i, j \in Rows :
    /\ i < j
    /\ versions[i].src \in Batches /\ versions[j].src \in Batches
    /\ PeriodOf[versions[i].src] = PeriodOf[versions[j].src]
    /\ versions[i].src # versions[j].src
    => versions[i].src \in retired

OrderInv == OneApproved /\ Uploaded /\ RestRetired /\ InOrder

(* Who may be about to insert after a step.                                 *)
LEMMA InsertPlaces ==
    ASSUME TypeInv, [Next]_vars, NEW w \in Workers, pc'[w] = "insert"
    PROVE  \/ pc[w] = "insert" /\ mine'[w] = mine[w] /\ ~Insert(w)
           \/ Recheck(w) /\ StillMine(w) /\ mine'[w] = mine[w]
  <1>a. /\ pc \in [Workers -> {"idle", "claimed", "render", "commit", "insert", "retry", "end"}]
        /\ mine \in [Workers -> Work \cup {None}]
    BY InvTypes
  <1>1. ASSUME NEW v \in Workers, Leave(v)
        PROVE  pc[w] = "insert" /\ mine'[w] = mine[w] /\ v # w
    BY <1>1, <1>a DEF Leave, Goto
  <1>2. ASSUME NEW v \in Workers, UNCHANGED mine,
               NEW where \in {"render", "commit", "retry", "end"}, Goto(v, where)
        PROVE  pc[w] = "insert" /\ mine'[w] = mine[w] /\ v # w
    BY <1>2, <1>a DEF Goto
  <1>i. Insert(w) => pc'[w] = "idle"
    BY <1>a DEF Insert, Leave, Goto
  <1>3. ASSUME NEW v \in Workers,
               AlreadyMade(v) \/ Insert(v) \/ Fail(v) \/ Crash(v)
        PROVE  pc[w] = "insert" /\ mine'[w] = mine[w]
    BY <1>1, <1>3 DEF AlreadyMade, Insert, Fail, Crash
  <1>4. ASSUME NEW v \in Workers, ReadFails(v) \/ Render(v) \/ InsertFails(v)
        PROVE  pc[w] = "insert" /\ mine'[w] = mine[w]
    BY <1>2, <1>4 DEF ReadFails, Render, InsertFails
  <1>5. ASSUME NEW v \in Workers, Read(v) \/ Claim(v)
        PROVE  pc[w] = "insert" /\ mine'[w] = mine[w]
    BY <1>5, <1>a DEF Read, Claim, Goto
  <1>6. ASSUME NEW v \in Workers, Recheck(v)
        PROVE  \/ pc[w] = "insert" /\ mine'[w] = mine[w]
               \/ Recheck(w) /\ StillMine(w) /\ mine'[w] = mine[w]
    BY <1>6, <1>a DEF Recheck, Goto
  <1>7. CASE UNCHANGED <<pc, mine>>
    BY <1>7, <1>i
  <1> QED
    BY <1>3, <1>4, <1>5, <1>6, <1>7, <1>i
    DEF Next, WorkerStep, vars, worker, Approve, Portfolios!Approve, AskForBatch, ContentChanges,
        BumpRevision, SetPilot, AskForFixture, Enqueue, RetryFailed, Recover, LeaseExpires, BackoffElapses,
        Heartbeat, Restore, PlanRetention, ExecuteRetention

LEMMA OrderNext == Inv /\ OrderInv /\ [Next]_vars => OrderInv'
  <1> SUFFICES ASSUME Inv, OrderInv, [Next]_vars PROVE OrderInv'
    OBVIOUS
  <1>a. /\ TypeInv /\ RowLocked
        /\ versions \in Seq(Version)
        /\ Len(versions) \in Nat /\ DOMAIN versions = Rows
        /\ \A i \in Rows : versions[i].src \in Sources
    BY InvTypes, RowTypes DEF Inv
  <1>b. OneApproved /\ Uploaded /\ RestRetired /\ InOrder
    BY DEF OrderInv
  (* The rows and the uploads stay; a worker reaches its commit only after  *)
  (* it has seen its upload approved.                                       *)
  <1>1. ASSUME SameRows, UNCHANGED <<approved, retired>> PROVE OrderInv'
    <2>1. Rows' = Rows /\ \A i \in Rows : versions'[i].src = versions[i].src
      BY <1>1 DEF SameRows, Rows
    <2>2. (OneApproved /\ Uploaded /\ InOrder)'
      BY <1>1, <1>b, <2>1 DEF OneApproved, Uploaded, InOrder
    <2>3. ASSUME NEW w \in Workers, pc'[w] = "insert", mine[w].src \in Batches
          PROVE  /\ mine'[w] = mine[w]
                 /\ mine[w].src \in approved \cup retired
                 /\ \A i \in Rows :
                      /\ versions[i].src \in Batches
                      /\ PeriodOf[versions[i].src] = PeriodOf[mine[w].src]
                      /\ versions[i].src # mine[w].src
                      => versions[i].src \in retired
      <3>1. CASE pc[w] = "insert" /\ mine'[w] = mine[w]
        BY <1>b, <2>3, <3>1 DEF RestRetired
      <3>2. CASE Recheck(w) /\ StillMine(w) /\ mine'[w] = mine[w]
        <4>1. mine[w].key \in Keys
          BY <1>a, <3>2, InvTypes DEF Recheck
        <4>2. mine[w].src \in approved
          BY <2>3, <3>2, <4>1, ConstantTypes DEF StillMine, Load
        <4> QED
          BY <1>b, <3>2, <4>2 DEF Uploaded, OneApproved
      <3> QED
        BY <1>a, <2>3, <3>1, <3>2, InsertPlaces
    <2>4. ASSUME NEW w \in Workers, pc'[w] = "insert" PROVE mine'[w] = mine[w]
      BY <1>a, <2>4, InsertPlaces
    <2>5. RestRetired'
      BY <1>1, <2>1, <2>3, <2>4 DEF RestRetired
    <2> QED
      BY <2>2, <2>5 DEF OrderInv
  <1>2. ASSUME NEW b \in Batches, Approve(b) PROVE OrderInv'
    <2> DEFINE old == {c \in approved : PeriodOf[c] = PeriodOf[b]}
    <2>1. /\ b \notin approved \cup retired
          /\ approved' = (approved \ old) \cup {b}
          /\ retired' = retired \cup old
          /\ UNCHANGED <<versions, pc, mine>>
      BY <1>2 DEF Approve, Portfolios!Approve, worker
    <2>2. OneApproved'
      BY <1>b, <2>1 DEF OneApproved
    <2>3. approved' \cup retired' = approved \cup retired \cup {b}
      BY <2>1
    <2>4. Uploaded'
      BY <1>b, <2>1, <2>3 DEF Uploaded, Rows
    <2>5. RestRetired'
      BY <1>b, <2>1, <2>3 DEF RestRetired, Rows
    <2>6. InOrder'
      BY <1>b, <2>1 DEF InOrder, Rows
    <2> QED
      BY <2>2, <2>4, <2>5, <2>6 DEF OrderInv
  <1>3. ASSUME NEW v \in Workers, Insert(v) PROVE OrderInv'
    <2> DEFINE n == Len(versions) + 1
    <2>1. /\ mine[v] \in Work /\ num[v] \in Nat /\ pc[v] = "insert"
          /\ UNCHANGED <<approved, retired>>
      BY <1>3, <1>a, InvTypes DEF Insert
    <2>2. /\ Len(versions') = n
          /\ \A i \in Rows : versions'[i] = versions[i]
          /\ versions'[n].src = mine[v].src
      BY <1>3, <1>a, <2>1, InsertedRow
    <2>3. Rows' = Rows \cup {n} /\ n \notin Rows /\ n \in Nat /\ \A i \in Rows : i \in Nat /\ i < n
      BY <1>a, <2>2 DEF Rows
    <2> HIDE DEF n
    <2>4. OneApproved'
      BY <1>b, <2>1 DEF OneApproved
    <2>5. Uploaded'
      BY <1>b, <2>1, <2>2, <2>3 DEF Uploaded, RestRetired
    <2>6. RestRetired'
      <3>1. ASSUME NEW w \in Workers, pc'[w] = "insert" PROVE FALSE
        <4>1. pc[w] = "insert" /\ ~Insert(w)
          BY <1>3, <1>a, <3>1, InsertPlaces DEF Insert, Recheck, StillMine, OwnsLease, HoldsLease,
             Unlocked
        <4>2. HoldsLease(w) /\ HoldsLease(v)
          BY <1>a, <2>1, <4>1 DEF RowLocked
        <4> QED
          BY <1>3, <4>1, <4>2 DEF HoldsLease
      <3> QED
        BY <3>1 DEF RestRetired
    <2>7. InOrder'
      <3> SUFFICES ASSUME NEW i \in Rows', NEW j \in Rows',
                          i < j,
                          versions'[i].src \in Batches, versions'[j].src \in Batches,
                          PeriodOf[versions'[i].src] = PeriodOf[versions'[j].src],
                          versions'[i].src # versions'[j].src
                   PROVE  versions'[i].src \in retired
        BY <2>1 DEF InOrder
      <3>1. i \in Rows
        BY <2>3
      <3>2. CASE j \in Rows
        BY <1>b, <2>2, <3>1, <3>2 DEF InOrder
      <3>3. CASE j = n
        BY <1>b, <2>1, <2>2, <3>1, <3>3 DEF RestRetired
      <3> QED
        BY <2>3, <3>2, <3>3
    <2> QED
      BY <2>4, <2>5, <2>6, <2>7 DEF OrderInv
  <1>4. UNCHANGED <<approved, retired>> \/ \E b \in Batches : Approve(b)
    BY DEF Next, WorkerStep, vars, worker, AskForBatch, ContentChanges, BumpRevision,
           SetPilot, AskForFixture, Enqueue, RetryFailed, Recover, Claim, LeaseExpires,
           BackoffElapses, Heartbeat, ReadFails, AlreadyMade, Read, Render, Recheck, InsertFails,
           Insert, Fail, Crash, PlanRetention, Restore, ExecuteRetention
  <1>5. \/ SameRows
        \/ \E w \in Workers : Insert(w)
    BY <1>a, OtherSteps, RestoredRows, RetiredRows DEF SameRows
  <1> QED
    BY <1>1, <1>2, <1>3, <1>4, <1>5

(* ReportJobs!ReplacementNotOverridden: though the approval that replaces   *)
(* an upload does not wait for the worker that is committing its report, a  *)
(* report never follows one of another upload that is still current.        *)
THEOREM LateReportsHarmless == Spec => []ReplacementNotOverridden
  <1>1. Init => OrderInv
    <2> SUFFICES ASSUME Init PROVE OrderInv
      OBVIOUS
    <2>1. Rows = {}
      BY EmptySeq DEF Init, Rows
    <2> QED
      BY <2>1 DEF Init, OrderInv, OneApproved, Uploaded, RestRetired, InOrder
  <1>2. Inv /\ OrderInv => ReplacementNotOverridden
    BY InvTypes, RowTypes DEF Inv, OrderInv, InOrder, ReplacementNotOverridden
  <1> QED
    BY <1>1, <1>2, InvInit, InvNext, OrderNext, PTL DEF Spec

-----------------------------------------------------------------------------
(* The request's row, as the queue sees it.                                 *)

LEMMA Seen ==
    ASSUME TypeInv
    PROVE  /\ Holder["request"] = act.owner
           /\ Tries["request"] = act.attempts
           /\ (Standing["request"] = "queued") <=> (act.status = "pending")
           /\ (Standing["request"] = "held") <=> (act.status = "running")
           /\ \A w \in Workers : Serves[w] = IF pc[w] = "idle" THEN "none" ELSE "request"
  <1>1. act.status \in {"none", "pending", "running", "succeeded", "failed"}
    BY InvTypes
  <1> QED
    BY <1>1 DEF Standing, Holder, Tries, Serves, Request

LEMMA QueueSame ==
    ASSUME UNCHANGED <<act.status, act.owner, act.attempts>>
    PROVE  UNCHANGED <<Standing, Holder, Tries>>
  BY DEF Standing, Holder, Tries

LEMMA QueueAsk ==
    ASSUME act'.status = "pending", act'.owner = NoWorker, act'.attempts = 0, UNCHANGED pc
    PROVE  Q!Ask(Request)
  <1>1. Standing' = [i \in Request |-> IF i \in Request THEN "queued" ELSE Standing[i]]
    BY DEF Standing
  <1>2. Holder' = [i \in Request |-> IF i \in Request THEN NoWorker ELSE Holder[i]]
    BY DEF Holder
  <1>3. Tries' = [i \in Request |-> IF i \in Request THEN 0 ELSE Tries[i]]
    BY DEF Tries
  <1>4. Serves' = Serves
    BY DEF Serves
  <1> QED
    BY <1>1, <1>2, <1>3, <1>4 DEF Q!Ask

LEMMA LeaveServes ==
    ASSUME TypeInv, NEW w \in Workers, pc[w] # "idle", Leave(w)
    PROVE  Serves[w] = "request" /\ Serves' = [Serves EXCEPT ![w] = "none"]
  <1>1. pc \in [Workers -> {"idle", "claimed", "render", "commit", "insert", "retry", "end"}]
    BY InvTypes
  <1>2. pc' = [pc EXCEPT ![w] = "idle"]
    BY DEF Leave, Goto
  <1> QED
    BY <1>1, <1>2 DEF Serves

LEMMA QueueGone ==
    ASSUME TypeInv, NEW w \in Workers, pc[w] # "idle", Leave(w), UNCHANGED act
    PROVE  Q!Leave(w)
  <1>1. Serves[w] = "request" /\ Serves' = [Serves EXCEPT ![w] = "none"]
    BY LeaveServes
  <1>2. UNCHANGED <<Standing, Holder, Tries>>
    BY QueueSame
  <1> QED
    BY <1>1, <1>2 DEF Q!Leave

LEMMA QueueSettled ==
    ASSUME TypeInv, NEW w \in Workers, pc[w] # "idle", Leave(w), HoldsLease(w),
           act'.owner = NoWorker,
           \/ act'.status = "succeeded" /\ act'.attempts = 0
           \/ act'.status = "failed" /\ act'.attempts = 0
           \/ /\ act'.status = "pending" /\ act'.attempts = act.attempts
              /\ act.attempts < MaxAttempts
    PROVE  Q!Leave(w)
  <1> DEFINE s == IF act'.status = "succeeded" THEN "done"
                  ELSE IF act'.status = "pending" THEN "queued" ELSE "failed"
  <1>a. Serves[w] = "request" /\ Serves' = [Serves EXCEPT ![w] = "none"]
    BY LeaveServes
  <1>b. Standing["request"] = "held" /\ Holder["request"] = w /\ Tries["request"] = act.attempts
    BY Seen DEF HoldsLease
  <1>c. act.attempts \in Nat /\ MaxAttempts \in Nat
    BY InvTypes, ConstantTypes
  <1>1. s \in {"done"} \cup (IF act.attempts >= MaxAttempts THEN {"failed"}
                             ELSE {"queued", "failed"})
    BY <1>c
  <1>2. Standing' = [Standing EXCEPT !["request"] = s]
    BY DEF Standing, Request
  <1>3. Tries' = [Tries EXCEPT !["request"] = IF s = "queued" THEN @ ELSE 0]
    BY DEF Tries, Request
  <1>4. Holder' = [Holder EXCEPT !["request"] = NoWorker]
    BY DEF Holder, Request
  <1> HIDE DEF s
  <1> QED
    BY <1>a, <1>b, <1>1, <1>2, <1>3, <1>4 DEF Q!Leave, Q!Unserved

LEMMA QueueStep == Inv /\ [Next]_vars => [Q!Next]_(Q!qvars)
  <1> DEFINE Mapped == [Q!Next]_(Q!qvars)
  <1> SUFFICES ASSUME Inv, [Next]_vars PROVE Mapped
    OBVIOUS
  <1>a. TypeInv /\ RowLocked
    BY DEF Inv
  <1>b. /\ pc \in [Workers -> {"idle", "claimed", "render", "commit", "insert", "retry", "end"}]
        /\ act.attempts \in Nat /\ MaxAttempts \in Nat \ {0}
    BY <1>a, InvTypes, ConstantTypes
  <1>1. ASSUME UNCHANGED <<act.status, act.owner, act.attempts>>,
               \A w \in Workers : (pc'[w] = "idle") <=> (pc[w] = "idle")
        PROVE  Mapped
    <2>1. UNCHANGED <<Standing, Holder, Tries>>
      BY <1>1, QueueSame
    <2>2. UNCHANGED Serves
      BY <1>1 DEF Serves
    <2> QED
      BY <2>1, <2>2 DEF Q!qvars
  <1>2. ASSUME Enqueue \/ \E r \in Work : RetryFailed(r) PROVE Mapped
    <2>1. CASE UNCHANGED act
      BY <1>1, <1>2, <2>1 DEF Enqueue, RetryFailed, worker
    <2>2. CASE \E r \in Work : act' = Queued(r)
      <3>1. act'.status = "pending" /\ act'.owner = NoWorker /\ act'.attempts = 0
        BY <2>2, PutIn
      <3>2. UNCHANGED pc
        BY <1>2 DEF Enqueue, RetryFailed, worker
      <3> QED
        BY <3>1, <3>2, QueueAsk DEF Q!Next
    <2> QED
      BY <1>2, <1>a, <2>1, <2>2, InvTypes DEF Enqueue, RetryFailed
  <1>3. ASSUME NEW w \in Workers, Recover(w) PROVE Mapped
    <2>1. /\ pc[w] = "idle" /\ act.status = "running" /\ GiveUp(FALSE) /\ UNCHANGED pc
      BY <1>3 DEF Recover, worker
    <2>2. /\ act'.status \in {"pending", "failed"}
          /\ act'.status = "pending" => /\ act'.attempts = act.attempts
                                        /\ act.attempts < MaxAttempts
                                        /\ act'.owner = NoWorker
          /\ act'.status = "failed" => /\ act'.attempts = 0 /\ act'.owner = NoWorker
                                       /\ act.attempts >= MaxAttempts
      BY <1>a, <2>1, GivenUp DEF Active
    <2>3. /\ Standing["request"] = "held" /\ Tries["request"] = act.attempts
          /\ Serves[w] = "none"
      BY <1>a, <2>1, Seen
    <2>4. Standing' = [i \in Request |->
             IF act.attempts >= MaxAttempts THEN "failed" ELSE "queued"]
      BY <1>b, <2>2 DEF Standing
    <2>5. Holder' = [i \in Request |-> NoWorker]
      BY <2>2 DEF Holder
    <2>6. Tries' = [i \in Request |-> IF act.attempts >= MaxAttempts THEN 0 ELSE act.attempts]
      BY <1>b, <2>2 DEF Tries
    <2>7. Serves' = [Serves EXCEPT ![w] = "none"]
      BY <1>b, <2>1 DEF Serves
    <2>8. Q!Take(w, Request, "none")
      BY <2>3, <2>4, <2>5, <2>6, <2>7 DEF Q!Take, Request
    <2> QED
      BY <2>8 DEF Q!Next
  <1>4. ASSUME NEW w \in Workers, Claim(w) PROVE Mapped
    <2>1. /\ pc[w] = "idle" /\ act.status = "pending"
          /\ pc' = [pc EXCEPT ![w] = "claimed"]
      BY <1>4 DEF Claim
    <2>2. act'.status = "running" /\ act'.owner = w /\ act'.attempts = act.attempts + 1
      BY <1>4, <1>a, InvTypes DEF Claim, Row
    <2>3. /\ Standing["request"] = "queued" /\ Tries["request"] = act.attempts
          /\ Serves[w] = "none"
      BY <1>a, <2>1, Seen
    <2>4. Standing' = [i \in Request |-> "held"]
      BY <2>2 DEF Standing
    <2>5. Holder' = [i \in Request |-> w]
      BY <2>2 DEF Holder
    <2>6. Tries' = [i \in Request |-> act.attempts + 1]
      BY <2>2 DEF Tries
    <2>7. Serves' = [Serves EXCEPT ![w] = "request"]
      BY <1>b, <2>1 DEF Serves
    <2>8. Q!Take(w, {}, "request")
      BY <2>3, <2>4, <2>5, <2>6, <2>7 DEF Q!Take, Request
    <2> QED
      BY <2>8 DEF Q!Next, Request
  <1>5. ASSUME NEW w \in Workers, AlreadyMade(w) PROVE Mapped
    <2>1. CASE HoldsLease(w)
      <3>1. act'.status = "succeeded" /\ act'.attempts = 0 /\ act'.owner = NoWorker
        BY <1>5, <1>a, <2>1, SetDone, InvTypes DEF AlreadyMade
      <3> QED
        BY <1>5, <1>a, <2>1, <3>1, QueueSettled DEF AlreadyMade, Q!Next
    <2>2. CASE ~HoldsLease(w)
      BY <1>5, <1>a, <2>2, QueueGone DEF AlreadyMade, Q!Next
    <2> QED
      BY <2>1, <2>2
  <1>6. ASSUME NEW w \in Workers, Insert(w) PROVE Mapped
    <2>1. HoldsLease(w) /\ pc[w] # "idle" /\ Leave(w)
      BY <1>6, <1>a DEF Insert, RowLocked
    <2>2. act'.status = "succeeded" /\ act'.attempts = 0 /\ act'.owner = NoWorker
      BY <1>6, <1>a, <2>1, SetDone, InvTypes DEF Insert
    <2> QED
      BY <1>a, <2>1, <2>2, QueueSettled DEF Q!Next
  <1>7. ASSUME NEW w \in Workers, Fail(w) PROVE Mapped
    <2>1. CASE HoldsLease(w)
      <3>1. \E terminal \in BOOLEAN : GiveUp(terminal)
        BY <1>7, <2>1 DEF Fail
      <3>2. /\ act'.status \in {"pending", "failed"} /\ act'.owner = NoWorker
            /\ act'.status = "pending" => /\ act'.attempts = act.attempts
                                          /\ act.attempts < MaxAttempts
            /\ act'.status = "failed" => act'.attempts = 0
        BY <1>a, <2>1, <3>1, GivenUp DEF HoldsLease, Active
      <3> QED
        BY <1>7, <1>a, <2>1, <3>2, QueueSettled DEF Fail, Q!Next
    <2>2. CASE ~HoldsLease(w)
      BY <1>7, <1>a, <2>2, QueueGone DEF Fail, Q!Next
    <2> QED
      BY <2>1, <2>2
  <1>8. ASSUME NEW w \in Workers, Crash(w) PROVE Mapped
    BY <1>8, <1>a, QueueGone DEF Crash, Q!Next
  <1>9. ASSUME LeaseExpires \/ BackoffElapses \/ \E w \in Workers : Heartbeat(w) PROVE Mapped
    <2>1. /\ act'.status = act.status /\ act'.owner = act.owner /\ act'.attempts = act.attempts
          /\ UNCHANGED pc
      BY <1>9, <1>a, InvTypes DEF LeaseExpires, BackoffElapses, Heartbeat, Row, worker
    <2> QED
      BY <1>1, <2>1
  <1>10. ASSUME NEW w \in Workers,
                ReadFails(w) \/ Read(w) \/ Render(w) \/ Recheck(w) \/ InsertFails(w)
         PROVE  Mapped
    BY <1>1, <1>10, <1>b DEF ReadFails, Read, Render, Recheck, InsertFails, Goto
  <1>11. CASE UNCHANGED <<act, pc>>
    BY <1>1, <1>11
  <1> QED
    BY <1>2, <1>3, <1>4, <1>5, <1>6, <1>7, <1>8, <1>9, <1>10, <1>11
    DEF Next, WorkerStep, vars, worker, Approve, Portfolios!Approve, AskForBatch, ContentChanges,
        BumpRevision, SetPilot, AskForFixture, Restore, PlanRetention, ExecuteRetention

(* ReportJobs!QueueKept: only the worker that holds a request settles it,   *)
(* and no request is attempted more often than it was asked for.            *)
THEOREM ReportQueueImplemented == Spec => QueueKept
  <1>1. Init => Q!Init
    BY DEF Init, Q!Init, Standing, Holder, Tries, Serves, Inactive
  <1> QED
    BY <1>1, InvInit, InvNext, QueueStep, PTL DEF Spec, QueueKept, Q!Queue

=============================================================================
