---------------------------- MODULE ReportJobs ----------------------------
(* From an approved portfolio to the report of a partner: the requests for  *)
(* reports, the leased worker that renders one, the versions with their two *)
(* files, and what people and retention do to versions afterwards.          *)
(*                                                                          *)
(* One partner is enough: requests, versions and locks of two partners never*)
(* meet.  A unique index allows the partner one active request, so the      *)
(* active row is a record of its own; rows that failed are kept because an  *)
(* operator may bring one back, rows that succeeded are read by nobody.     *)
EXTENDS Naturals, Sequences, FiniteSets

CONSTANTS
    NumBatches,   \* uploads of the partner
    PeriodOf,     \* the period versions of each source are numbered in
    Synthetic,    \* TRUE: a synthetic partner, with a portfolio for rehearsals
    Workers,
    MaxAttempts,  \* _MAX_ATTEMPTS
    MaxKey,       \* bound: revision keys a batch goes through
    MaxBump,      \* bound: revisions of the synthetic portfolio
    MaxVersions,  \* bound: versions of the partner
    Faults,       \* "ack": the answer to a commit may be lost;
                  \* "overlap": retention runs while people restore versions
    NoWorker

Fixture == 0                   \* the partner's synthetic portfolio
Batches == 1 .. NumBatches
Sources == 0 .. NumBatches
NoKey == 0                     \* load_batch_report refuses
Keys == 1 .. IF MaxKey > MaxBump THEN MaxKey ELSE MaxBump

ASSUME BoundsAssumption ==
    /\ NumBatches \in Nat /\ MaxKey \in Nat \ {0} /\ MaxBump \in Nat /\ MaxVersions \in Nat
    /\ MaxAttempts \in Nat \ {0}
    /\ PeriodOf \in [Sources -> Nat]
    /\ Synthetic \in BOOLEAN
    /\ Faults \subseteq {"ack", "overlap"}
    /\ NoWorker \notin Workers

VARIABLES
    approved,  \* batches in state approved
    retired,   \* batches superseded by another approval
    content,   \* what the report of each source would show now
    scope,     \* the partner is in the data scope
    asked,     \* the request somebody is about to insert
    act,       \* the active request, or how the last one ended
    failed,    \* what the failed requests asked for
    versions,  \* in the order they were committed, which is that of the reads
    plan,      \* versions the retention that is running has chosen
    pc, mine, num  \* each worker: place, what it works on, number it will use

worker == <<pc, mine, num>>
vars == <<approved, retired, content, scope, asked, act, failed, versions, plan, worker>>

-----------------------------------------------------------------------------
(* Types *)

Work == [src : Sources, key : Keys]
None == [src |-> Fixture, key |-> NoKey]
Inactive == [status |-> "none", src |-> Fixture, key |-> NoKey, attempts |-> 0,
             owner |-> NoWorker, lease |-> "none", wait |-> FALSE]
Row == [status : {"none", "pending", "running", "succeeded", "failed"},
        src : Sources, key : Keys \cup {NoKey},
        attempts : 0 .. MaxAttempts, owner : Workers \cup {NoWorker},
        lease : {"none", "live", "expired"}, wait : BOOLEAN]
Version == [src : Sources, key : Keys, num : Nat, status : {"validated", "superseded"},
            files : BOOLEAN, purged : BOOLEAN]

TypeOK ==
    /\ approved \subseteq Batches /\ retired \subseteq Batches
    /\ content \in [Sources -> Keys \cup {NoKey}]
    /\ scope \in BOOLEAN
    /\ asked \in Work \cup {None}
    /\ act \in Row
    /\ failed \subseteq Work
    /\ versions \in Seq(Version) /\ Len(versions) <= MaxVersions
    /\ plan \subseteq 1 .. Len(versions)
    /\ pc \in [Workers -> {"idle", "claimed", "render", "commit", "insert", "retry", "end"}]
    /\ mine \in [Workers -> Work \cup {None}]
    /\ num \in [Workers -> Nat]

Init ==
    /\ approved = {} /\ retired = {}
    /\ content = [s \in Sources |-> 1]
    /\ scope = TRUE
    /\ asked = None
    /\ act = Inactive
    /\ failed = {}
    /\ versions = <<>>
    /\ plan = {}
    /\ pc = [w \in Workers |-> "idle"]
    /\ mine = [w \in Workers |-> None]
    /\ num = [w \in Workers |-> 0]

-----------------------------------------------------------------------------
(* Sources *)

(* What the approvals of the partner's uploads promise.                     *)
Portfolios == INSTANCE PortfolioRegister WITH
    SlotOf <- PeriodOf, current <- approved, past <- retired

(* Approval of a batch, which supersedes the approved one of its period.    *)
(* It takes the partner's lock, which the daily cycle holds while it asks.  *)
Approve(b) ==
    /\ Portfolios!Approve(b)
    /\ asked.key # NoKey => asked.src # Fixture
    /\ UNCHANGED <<content, scope, asked, act, failed, versions, plan, worker>>

(* The percentage, a movement or an entry changes, forth or back, or the    *)
(* normalised rows become later than the batch's snapshot.                  *)
ContentChanges(b, k) ==
    /\ k # content[b]
    /\ content' = [content EXCEPT ![b] = k]
    /\ UNCHANGED <<approved, retired, scope, asked, act, failed, versions, plan, worker>>

BumpRevision ==
    /\ Synthetic
    /\ content[Fixture] < MaxBump
    /\ content' = [content EXCEPT ![Fixture] = @ + 1]
    /\ UNCHANGED <<approved, retired, scope, asked, act, failed, versions, plan, worker>>

(* A synthetic partner never leaves the scope.                              *)
SetPilot ==
    /\ ~Synthetic
    /\ scope' = ~scope
    /\ UNCHANGED <<approved, retired, content, asked, act, failed, versions, plan, worker>>

(* Fault: a superseded batch can still be reported.                         *)
LoadByScope(b) == IF scope THEN content[b] ELSE NoKey

(* load_batch_report: the revision key, if the batch can be reported now.   *)
Load(b) == IF b \in approved /\ scope THEN content[b] ELSE NoKey

(* Versions of exactly this revision, whatever became of them.              *)
VersionsOf(src, key) == {i \in DOMAIN versions : versions[i].src = src /\ versions[i].key = key}

Visible == {i \in DOMAIN versions : versions[i].status = "validated"}

(* The version the pages call current; 0 if there is none.                  *)
Current == IF Visible = {} THEN 0 ELSE CHOOSE i \in Visible : \A j \in Visible : j <= i

-----------------------------------------------------------------------------
(* Asking for reports *)

(* A person, or the approval's second transaction, asks for the report of a *)
(* batch: its key is loaded and no version has it.                          *)
AskForBatch(b) ==
    /\ asked = None
    /\ Load(b) # NoKey
    /\ VersionsOf(b, Load(b)) = {}
    /\ asked' = [src |-> b, key |-> Load(b)]
    /\ UNCHANGED <<approved, retired, content, scope, act, failed, versions, plan, worker>>

(* The daily cycle finds the synthetic portfolio changed.                   *)
AskForFixture ==
    /\ Synthetic
    /\ asked = None
    /\ approved = {}
    /\ Current # 0 =>
         ~(versions[Current].src = Fixture /\ versions[Current].key = content[Fixture])
    /\ asked' = [src |-> Fixture, key |-> content[Fixture]]
    /\ UNCHANGED <<approved, retired, content, scope, act, failed, versions, plan, worker>>

Active == act.status \in {"pending", "running"}

Queued(work) == [Inactive EXCEPT !.status = "pending", !.src = work.src, !.key = work.key]

(* The request is inserted, unless another one is active.                   *)
Enqueue ==
    /\ asked # None
    /\ asked' = None
    /\ act' = IF Active THEN act ELSE Queued(asked)
    /\ UNCHANGED <<approved, retired, content, scope, failed, versions, plan, worker>>

(* The operator brings back one failed request, no matter which.            *)
RetryFailed(r) ==
    /\ r \in failed
    /\ scope
    /\ ~Active
    /\ failed' = failed \ {r}
    /\ act' = Queued(r)
    /\ UNCHANGED <<approved, retired, content, scope, asked, versions, plan, worker>>

-----------------------------------------------------------------------------
(* The worker *)

(* A committing worker has the request's row locked.                        *)
Unlocked == \A w \in Workers : pc[w] # "insert"

(* Fault: one attempt more than allowed.                                    *)
GiveUpLate(terminal) ==
    IF terminal \/ act.attempts > MaxAttempts
      THEN /\ act' = [Inactive EXCEPT !.status = "failed"]
           /\ failed' = failed \cup {[src |-> act.src, key |-> act.key]}
      ELSE /\ act' = [act EXCEPT !.status = "pending", !.owner = NoWorker,
                                 !.lease = "none", !.wait = TRUE]
           /\ UNCHANGED failed

(* Fault: an abandoned request starts again from its first attempt.         *)
GiveUpAfresh(terminal) ==
    /\ act' = [act EXCEPT !.status = "pending", !.attempts = 0, !.owner = NoWorker,
                          !.lease = "none", !.wait = TRUE]
    /\ UNCHANGED failed

(* The attempt is over: another one after a pause, or none.                 *)
GiveUp(terminal) ==
    IF terminal \/ act.attempts >= MaxAttempts
      THEN /\ act' = [Inactive EXCEPT !.status = "failed"]
           /\ failed' = failed \cup {[src |-> act.src, key |-> act.key]}
      ELSE /\ act' = [act EXCEPT !.status = "pending", !.owner = NoWorker,
                                 !.lease = "none", !.wait = TRUE]
           /\ UNCHANGED failed

(* A claim first gives up requests whose lease has run out; they have to    *)
(* wait, so the claim then finds nothing.                                   *)
Recover(w) ==
    /\ pc[w] = "idle"
    /\ Unlocked /\ scope
    /\ act.status = "running" /\ act.lease = "expired"
    /\ GiveUp(FALSE)
    /\ UNCHANGED <<approved, retired, content, scope, asked, versions, plan, worker>>

Claim(w) ==
    /\ pc[w] = "idle"
    /\ scope
    /\ act.status = "pending" /\ ~act.wait
    /\ act' = [act EXCEPT !.status = "running", !.attempts = @ + 1,
                          !.owner = w, !.lease = "live"]
    /\ pc' = [pc EXCEPT ![w] = "claimed"]
    /\ mine' = [mine EXCEPT ![w] = [src |-> act.src, key |-> act.key]]
    /\ UNCHANGED <<approved, retired, content, scope, asked, failed, versions, plan, num>>

LeaseExpires ==
    /\ act.lease = "live"
    /\ act' = [act EXCEPT !.lease = "expired"]
    /\ UNCHANGED <<approved, retired, content, scope, asked, failed, versions, plan, worker>>

BackoffElapses ==
    /\ act.wait
    /\ act' = [act EXCEPT !.wait = FALSE]
    /\ UNCHANGED <<approved, retired, content, scope, asked, failed, versions, plan, worker>>

(* Fault: whoever has the request, its worker is believed.                  *)
HoldsAny(w) == act.status = "running"

HoldsLease(w) == act.status = "running" /\ act.owner = w

OwnsLease(w) == HoldsLease(w) /\ act.lease = "live"

(* While the PDF is printed the pulse task renews the lease.                *)
Heartbeat(w) ==
    /\ pc[w] = "render"
    /\ HoldsLease(w)
    /\ Unlocked
    /\ act.lease = "expired"
    /\ act' = [act EXCEPT !.lease = "live"]
    /\ UNCHANGED <<approved, retired, content, scope, asked, failed, versions, plan, worker>>

Goto(w, where) == pc' = [pc EXCEPT ![w] = where]

Leave(w) ==
    /\ Goto(w, "idle")
    /\ mine' = [mine EXCEPT ![w] = None]
    /\ num' = [num EXCEPT ![w] = 0]

Numbers(period) == {versions[i].num : i \in {j \in DOMAIN versions :
                      PeriodOf[versions[j].src] = period}}

(* One more than the highest version number of the source's period.         *)
NextNumber(src) ==
    LET used == Numbers(PeriodOf[src]) IN
    CHOOSE n \in 1 .. Cardinality(used) + 1 :
        (\A m \in used : m < n) /\ (n = 1 \/ n - 1 \in used)

(* Reading the source.  A source that is gone, a report that may not be     *)
(* shown and a portfolio that shrank are not tried again.                   *)
ReadFails(w) ==
    LET s == mine[w].src
        changed == s # Fixture /\ Load(s) # NoKey /\ Load(s) # mine[w].key
    IN  /\ pc[w] = "claimed"
        /\ Goto(w, "end") \/ ((s = Fixture \/ changed) /\ Goto(w, "retry"))
        /\ UNCHANGED <<approved, retired, content, scope, asked, act, failed, versions, plan,
                       mine, num>>

(* Fault: the request keeps the key it was asked with.                      *)
SucceededAsAsked(work) ==
    [Inactive EXCEPT !.status = "succeeded", !.src = act.src, !.key = act.key]

Succeeded(work) == [Inactive EXCEPT !.status = "succeeded", !.src = work.src, !.key = work.key]

(* A version of this revision is there already: the request is done.        *)
AlreadyMade(w) ==
    /\ pc[w] = "claimed"
    /\ mine[w].src # Fixture
    /\ Load(mine[w].src) = mine[w].key
    /\ VersionsOf(mine[w].src, mine[w].key) # {}
    /\ act' = IF HoldsLease(w) THEN Succeeded(mine[w]) ELSE act
    /\ Leave(w)
    /\ UNCHANGED <<approved, retired, content, scope, asked, failed, versions, plan>>

Read(w) ==
    LET s == mine[w].src IN
    /\ pc[w] = "claimed"
    /\ IF s = Fixture
         THEN /\ approved = {}
              /\ mine' = [mine EXCEPT ![w].key = content[Fixture]]
         ELSE /\ Load(s) = mine[w].key
              /\ VersionsOf(s, mine[w].key) = {}
              /\ UNCHANGED mine
    /\ num' = [num EXCEPT ![w] = NextNumber(s)]
    /\ Goto(w, "render")
    /\ UNCHANGED <<approved, retired, content, scope, asked, act, failed, versions, plan>>

(* Both files are written, or the attempt fails and leaves none.            *)
Render(w) ==
    /\ pc[w] = "render"
    /\ Goto(w, "commit") \/ Goto(w, "retry")
    /\ UNCHANGED <<approved, retired, content, scope, asked, act, failed, versions, plan,
                   mine, num>>

(* Fault: the lease is checked when the report is read only.                *)
StillMineUnchecked(w) ==
    IF mine[w].src = Fixture THEN content[Fixture] = mine[w].key
    ELSE Load(mine[w].src) = mine[w].key

(* The committing transaction has locked the request and reads the source   *)
(* again: the lease must be live and the revision the one rendered.         *)
StillMine(w) ==
    /\ OwnsLease(w)
    /\ IF mine[w].src = Fixture THEN content[Fixture] = mine[w].key
       ELSE Load(mine[w].src) = mine[w].key

Recheck(w) ==
    /\ pc[w] = "commit"
    /\ Unlocked
    /\ IF StillMine(w) THEN Goto(w, "insert") ELSE Goto(w, "retry")
    /\ UNCHANGED <<approved, retired, content, scope, asked, act, failed, versions, plan,
                   mine, num>>

(* What the unique indexes of report_versions refuse.                       *)
Collides(w) == \E i \in DOMAIN versions :
    \/ /\ PeriodOf[versions[i].src] = PeriodOf[mine[w].src]
       /\ versions[i].num = num[w]
    \/ mine[w].src # Fixture /\ i \in VersionsOf(mine[w].src, mine[w].key)

(* The version becomes visible and the request is done, in one commit.      *)
(* If its answer is lost the worker takes the commit for failed and removes *)
(* the two files.                                                           *)
Insert(w) ==
    /\ pc[w] = "insert"
    /\ ~Collides(w)
    /\ Len(versions) < MaxVersions
    /\ \E files \in {TRUE} \cup (IF "ack" \in Faults THEN {FALSE} ELSE {}) :
         versions' = Append(versions, [src |-> mine[w].src, key |-> mine[w].key,
             num |-> num[w], status |-> "validated", files |-> files, purged |-> FALSE])
    /\ act' = Succeeded(mine[w])
    /\ Leave(w)
    /\ UNCHANGED <<approved, retired, content, scope, asked, failed, plan>>

(* The commit is refused; also where the bound stops the model.             *)
InsertFails(w) ==
    /\ pc[w] = "insert"
    /\ Goto(w, "retry")
    /\ UNCHANGED <<approved, retired, content, scope, asked, act, failed, versions, plan,
                   mine, num>>

(* The files of the attempt are removed and its failure is recorded, if the *)
(* request is still this worker's.                                          *)
Fail(w) ==
    /\ pc[w] \in {"retry", "end"}
    /\ Unlocked
    /\ IF HoldsLease(w) THEN GiveUp(pc[w] = "end") ELSE UNCHANGED <<act, failed>>
    /\ Leave(w)
    /\ UNCHANGED <<approved, retired, content, scope, asked, versions, plan>>

(* The process dies; files it wrote for no version are left behind.         *)
Crash(w) ==
    /\ pc[w] # "idle"
    /\ Leave(w)
    /\ UNCHANGED <<approved, retired, content, scope, asked, act, failed, versions, plan>>

-----------------------------------------------------------------------------
(* Versions afterwards *)

(* Fault: the chosen version is made current before its files are looked at.*)
RestorableByStatus(i) == i \in DOMAIN versions

Restorable(i) == i \in DOMAIN versions /\ versions[i].files

(* An administrator makes an earlier, or superseded, version current again. *)
Restore(i) ==
    /\ scope
    /\ Restorable(i)
    /\ "overlap" \notin Faults => plan = {}
    /\ versions' = [j \in DOMAIN versions |->
         IF j = i THEN [versions[j] EXCEPT !.status = "validated"]
         ELSE IF j > i THEN [versions[j] EXCEPT !.status = "superseded"]
         ELSE versions[j]]
    /\ UNCHANGED <<approved, retired, content, scope, asked, act, failed, plan, worker>>

(* Fault: age alone decides.                                                *)
ExpiredByAge(n) == {i \in 1 .. n : ~versions[i].purged}

(* The superseded versions among the oldest n.                              *)
Expired(n) == {i \in 1 .. n : versions[i].status = "superseded" /\ ~versions[i].purged}

PlanRetention(n) ==
    /\ plan = {}
    /\ plan' = Expired(n)
    /\ plan' # {}
    /\ UNCHANGED <<approved, retired, content, scope, asked, act, failed, versions, worker>>

(* Files first, then the mark; a run that dies in between is run again.     *)
ExecuteRetention ==
    /\ plan # {}
    /\ \E marked \in BOOLEAN : versions' = [i \in DOMAIN versions |->
         IF i \in plan THEN [versions[i] EXCEPT !.files = FALSE, !.purged = marked]
         ELSE versions[i]]
    /\ plan' = {}
    /\ UNCHANGED <<approved, retired, content, scope, asked, act, failed, worker>>

-----------------------------------------------------------------------------
WorkerStep(w) ==
    \/ ReadFails(w) \/ AlreadyMade(w) \/ Read(w) \/ Render(w)
    \/ Recheck(w) \/ Insert(w) \/ InsertFails(w) \/ Fail(w)

Next ==
    \/ \E b \in Batches : Approve(b) \/ AskForBatch(b)
    \/ \E b \in Batches, k \in 0 .. MaxKey : ContentChanges(b, k)
    \/ BumpRevision \/ SetPilot \/ AskForFixture \/ Enqueue
    \/ \E r \in Work : RetryFailed(r)
    \/ LeaseExpires \/ BackoffElapses
    \/ \E w \in Workers : Recover(w) \/ Claim(w) \/ Heartbeat(w) \/ WorkerStep(w) \/ Crash(w)
    \/ \E i \in 1 .. MaxVersions : Restore(i)
    \/ \E n \in 1 .. Len(versions) : PlanRetention(n)
    \/ ExecuteRetention

Spec == Init /\ [][Next]_vars

(* The timer's drain runs again and again, a worker that is alive goes on,  *)
(* and clocks advance.                                                      *)
Fairness ==
    /\ \A w \in Workers :
         WF_vars(WorkerStep(w)) /\ WF_vars(Recover(w)) /\ WF_vars(Claim(w))
    /\ WF_vars(LeaseExpires) /\ WF_vars(BackoffElapses)

FairSpec == Spec /\ Fairness
-----------------------------------------------------------------------------
(* Properties *)

(* The portal never lists a version it cannot show: whatever crashes, late  *)
(* workers, clean-ups and retention do, a version in the list has its files.*)
VisibleComplete == \A i \in Visible : versions[i].files

(* A request is reported done only if there is a version of the revision it *)
(* asked for, also when the worker that made it had lost the lease before.  *)
DoneMeansMade == act.status = "succeeded" => VersionsOf(act.src, act.key) # {}

(* The number and revision a worker read long before its commit are still   *)
(* free when it commits, without the unique indexes having to refuse it.    *)
InsertNeverCollides == \A w \in Workers : pc[w] = "insert" => ~Collides(w)

(* Once there was a report there is one to read: no order of restorations,  *)
(* retention and clean-ups leaves the partner with versions nobody can open.*)
AlwaysOneToRead == versions # <<>> => \E i \in Visible : versions[i].files

(* The report of a superseded upload, however long it took to render, is    *)
(* never committed over a report of the upload that replaced it.            *)
ReplacementNotOverridden == \A i, j \in DOMAIN versions :
    /\ i < j
    /\ versions[i].src \in Batches /\ versions[j].src \in Batches
    /\ PeriodOf[versions[i].src] = PeriodOf[versions[j].src]
    /\ versions[i].src # versions[j].src
    => versions[i].src \in retired

(* What the request's row says to the queue.                                *)
Request == {"request"}
Standing == [i \in Request |-> CASE act.status = "pending" -> "queued"
                                 [] act.status = "running" -> "held"
                                 [] act.status = "succeeded" -> "done"
                                 [] act.status = "failed" -> "failed"
                                 [] OTHER -> "idle"]
Holder == [i \in Request |-> act.owner]
Tries == [i \in Request |-> act.attempts]
Serves == [w \in Workers |-> IF pc[w] = "idle" THEN "none" ELSE "request"]

(* The report queue keeps the promises of a queue of leased work.           *)
Q == INSTANCE LeaseQueue WITH
    Items <- Request, MaxTries <- MaxAttempts, EarlyEnd <- TRUE,
    NoItem <- "none", NoHolder <- NoWorker,
    st <- Standing, holder <- Holder, tries <- Tries, busy <- Serves

(* Only the worker that holds a request settles it, and no request is       *)
(* attempted too often.                                                     *)
QueueKept == Q!Queue

(* Liveness: a request is settled, unless the partner leaves the scope.     *)
RequestSettles == Active ~> ~Active \/ ~scope
=============================================================================
