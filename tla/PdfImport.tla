----------------------------- MODULE PdfImport -----------------------------
(***************************************************************************)
(* The life of an uploaded partner portfolio, from the PDF's arrival to    *)
(* its approval: the batch row with its lifecycle state, the durable       *)
(* processing queue that rides on the same row, the workers that parse and *)
(* reconcile it, and the people who decide about it from the pages of the  *)
(* portal.                                                                 *)
(*                                                                         *)
(* One action is one database transaction, or the part of a handler        *)
(* between two of them.  A transaction locks the batch row (and a decision *)
(* the partner row before it), so transactions on a batch are serial; what *)
(* interleaves is everything a worker or a person carries from one         *)
(* transaction to the next: the lease token, the snapshot of the external  *)
(* system, and the page a form was rendered from.                          *)
(***************************************************************************)
EXTENDS Naturals, FiniteSets

CONSTANTS
    NumBatches,   \* batches are numbered by created_at, the order they are served
    Workers,      \* worker processes: the timer's drain and any manual run
    Users,        \* portal users that may operate reports
    Partners,
    Snapshots,    \* digests of the external lawsuit snapshot, as seen for a batch
    Lawsuits,
    PartnerOf,    \* the partner of each batch
    PeriodOf,     \* <<period_start, period_end>> of each batch
    Portfolio,    \* the lawsuits the items of each batch resolve to
    Uploader,     \* the user who sent each batch
    VerdictOf,    \* how snapshot d classifies the items of batch b
    MaxAttempts,  \* _MAX_ATTEMPTS
    MaxRevision,  \* bound: no reprocessing or correction beyond this revision
    FourEyes,     \* settings.pdf_four_eyes
    Corrections,  \* settings.pdf_synthetic_corrections
    OfferedOnly,  \* TRUE: people submit only the forms their page offers
    NoRun, NoWorker

Batches == 1 .. NumBatches
NoBatch == 0

(* "clean": every item matched; "correctable": those that did not are        *)
(* unmatched or ambiguous; "invalid": some item is repeated in the PDF or    *)
(* has no usable identifier, whatever the others are.                        *)
Verdicts == {"clean", "correctable", "invalid"}

ASSUME CountsAssumption ==
    /\ NumBatches \in Nat
    /\ MaxAttempts \in Nat \ {0}
    /\ MaxRevision \in Nat

ASSUME BatchesAssumption ==
    /\ PartnerOf \in [Batches -> Partners]
    /\ PeriodOf \in [Batches -> Nat \X Nat]
    /\ Portfolio \in [Batches -> SUBSET Lawsuits]
    /\ Uploader \in [Batches -> Users]
    /\ VerdictOf \in [Batches -> [Snapshots -> Verdicts]]

ASSUME SettingsAssumption == {FourEyes, Corrections, OfferedOnly} \subseteq BOOLEAN

ASSUME NullsAssumption == NoRun \notin Snapshots /\ NoWorker \notin Workers

VARIABLES
    (* the batch row and the rows that hang from it *)
    state,      \* PdfImportBatch.state; "absent" before the upload
    manifest,   \* the parsed items: none yet, clean, flagged, or empty
    rev,        \* review_revision
    runs,       \* the reconciliation runs, each named by its snapshot digest
    latest,     \* the run with the latest created_at
    request,    \* the run named by the last reprocess_requested review
    corrected,  \* the runs whose exceptional items all have a correction
    linked,     \* the lawsuits of the batch's active PartnerCaseLinks
    (* the processing queue, on the same row *)
    status, attempts, owner, lease, wait,
    (* worker processes *)
    pc, job, snap,
    (* the data scope, changed by the partner administration *)
    scope,
    (* the page each user last opened, with the forms it offers *)
    form,
    (* history, read only by the properties *)
    asked,      \* a reprocessing was asked for and nothing was reconciled since
    evidence,   \* the run an approval was granted on
    shown,      \* the run on the page that approval was submitted from
    fresh       \* the worker claimed its batch after the last such request

review == <<manifest, runs, latest, request, corrected>>
queue == <<status, attempts, owner, lease, wait>>
workers == <<pc, job, snap, fresh>>
history == <<asked, evidence, shown>>
vars == <<state, rev, linked, review, queue, workers, scope, form, history>>

-----------------------------------------------------------------------------
(* Types *)

States == {"absent", "quarantined", "parsed", "needs_review", "approved",
           "rejected", "failed", "superseded"}
Runs == Snapshots \cup {NoRun}
Forms == {"approve", "reject", "reprocess", "correct"}

TypeOK ==
    /\ state \in [Batches -> States]
    /\ manifest \in [Batches -> {"none", "clean", "flagged", "empty"}]
    /\ rev \in [Batches -> Nat]
    /\ runs \in [Batches -> SUBSET Snapshots]
    /\ latest \in [Batches -> Runs]
    /\ request \in [Batches -> Runs]
    /\ corrected \in [Batches -> SUBSET Snapshots]
    /\ linked \in [Batches -> SUBSET Lawsuits]
    /\ status \in [Batches -> {"pending", "running", "succeeded", "failed"}]
    /\ attempts \in [Batches -> 0 .. MaxAttempts]
    /\ owner \in [Batches -> Workers \cup {NoWorker}]
    /\ lease \in [Batches -> {"none", "live", "expired"}]
    /\ wait \in [Batches -> BOOLEAN]
    /\ pc \in [Workers -> {"idle", "claimed", "collect", "persist",
                           "finish_ok", "finish_failed"}]
    /\ job \in [Workers -> Batches \cup {NoBatch}]
    /\ snap \in [Workers -> Runs]
    /\ scope \in SUBSET Partners
    /\ form \in [Users -> [batch : Batches \cup {NoBatch}, rev : Nat,
                           run : Runs, offers : SUBSET Forms]]
    /\ asked \in [Batches -> BOOLEAN]
    /\ evidence \in [Batches -> Runs]
    /\ shown \in [Batches -> Runs]
    /\ fresh \in [Workers -> BOOLEAN]

Init ==
    /\ state = [b \in Batches |-> "absent"]
    /\ manifest = [b \in Batches |-> "none"]
    /\ rev = [b \in Batches |-> 0]
    /\ runs = [b \in Batches |-> {}]
    /\ latest = [b \in Batches |-> NoRun]
    /\ request = [b \in Batches |-> NoRun]
    /\ corrected = [b \in Batches |-> {}]
    /\ linked = [b \in Batches |-> {}]
    /\ status = [b \in Batches |-> "pending"]
    /\ attempts = [b \in Batches |-> 0]
    /\ owner = [b \in Batches |-> NoWorker]
    /\ lease = [b \in Batches |-> "none"]
    /\ wait = [b \in Batches |-> FALSE]
    /\ pc = [w \in Workers |-> "idle"]
    /\ job = [w \in Workers |-> NoBatch]
    /\ snap = [w \in Workers |-> NoRun]
    /\ scope = Partners
    /\ form = [u \in Users |-> [batch |-> NoBatch, rev |-> 0, run |-> NoRun, offers |-> {}]]
    /\ asked = [b \in Batches |-> FALSE]
    /\ evidence = [b \in Batches |-> NoRun]
    /\ shown = [b \in Batches |-> NoRun]
    /\ fresh = [w \in Workers |-> FALSE]

-----------------------------------------------------------------------------
(* The world around the workers *)

InScope(b) == PartnerOf[b] \in scope

(* A PDF not seen before is stored and its batch enters quarantine.         *)
Upload(b) ==
    /\ state[b] = "absent"
    /\ \A c \in 1 .. b - 1 : state[c] # "absent"
    /\ InScope(b)
    /\ state' = [state EXCEPT ![b] = "quarantined"]
    /\ UNCHANGED <<rev, linked, review, queue, workers, scope, form, history>>

(* An administrator enables or disables the partner's pilot.                *)
SetPilot(p) ==
    /\ scope' = IF p \in scope THEN scope \ {p} ELSE scope \cup {p}
    /\ UNCHANGED <<state, rev, linked, review, queue, workers, form, history>>

LeaseExpires(b) ==
    /\ lease[b] = "live"
    /\ lease' = [lease EXCEPT ![b] = "expired"]
    /\ UNCHANGED <<state, rev, linked, review, status, attempts, owner, wait,
                   workers, scope, form, history>>

BackoffElapses(b) ==
    /\ wait[b]
    /\ wait' = [wait EXCEPT ![b] = FALSE]
    /\ UNCHANGED <<state, rev, linked, review, status, attempts, owner, lease,
                   workers, scope, form, history>>

-----------------------------------------------------------------------------
(* The worker *)

Claimable == {"quarantined", "parsed", "needs_review"}

(* Fault: one attempt too many.                                             *)
AfterFailureLate(b) == IF attempts[b] > MaxAttempts THEN "failed" ELSE "pending"

(* Where a failed or abandoned attempt sends the batch.                     *)
AfterFailure(b) == IF attempts[b] >= MaxAttempts THEN "failed" ELSE "pending"

(* Fault: recovery looks only at batches that have attempts left.           *)
AbandonedWithAttempts(locked) == {b \in Batches \ locked :
    InScope(b) /\ status[b] = "running" /\ lease[b] = "expired" /\ attempts[b] < MaxAttempts}

(* Leases found expired, among the rows no other transaction has locked.    *)
Abandoned(locked) == {b \in Batches \ locked :
    InScope(b) /\ status[b] = "running" /\ lease[b] = "expired"}

(* Batches ready to be claimed once the abandoned ones are back in line.    *)
Ready(locked) == {b \in Batches \ locked :
    /\ InScope(b)
    /\ state[b] \in Claimable
    /\ IF b \in Abandoned(locked) THEN AfterFailure(b) = "pending"
                                  ELSE status[b] = "pending" /\ ~wait[b]}

(* The abandoned batches go back to the queue and "picked", unless it is    *)
(* NoBatch, becomes the worker's.                                           *)
Take(w, picked, back) ==
    /\ status' = [b \in Batches |-> IF b = picked THEN "running"
                                    ELSE IF b \in back THEN AfterFailure(b) ELSE status[b]]
    /\ attempts' = [b \in Batches |-> IF b = picked THEN attempts[b] + 1 ELSE attempts[b]]
    /\ owner' = [b \in Batches |-> IF b = picked THEN w
                                   ELSE IF b \in back THEN NoWorker ELSE owner[b]]
    /\ lease' = [b \in Batches |-> IF b = picked THEN "live"
                                   ELSE IF b \in back THEN "none" ELSE lease[b]]
    /\ wait' = [b \in Batches |-> wait[b] /\ b # picked /\ b \notin back]
    /\ IF picked = NoBatch
         THEN UNCHANGED <<pc, job, fresh>>
         ELSE /\ pc' = [pc EXCEPT ![w] = "claimed"]
              /\ job' = [job EXCEPT ![w] = picked]
              /\ fresh' = [fresh EXCEPT ![w] = TRUE]

(* Claiming first returns abandoned batches to the queue, then takes the    *)
(* oldest one that is ready; "locked" are the rows SKIP LOCKED passes over. *)
Claim(w, locked) ==
    /\ pc[w] = "idle"
    /\ \/ \E b \in Ready(locked) : /\ \A c \in Ready(locked) : b <= c
                                   /\ Take(w, b, Abandoned(locked))
       \/ /\ Ready(locked) = {}
          /\ Abandoned(locked) # {}
          /\ Take(w, NoBatch, Abandoned(locked))
    /\ UNCHANGED <<state, rev, linked, review, snap, scope, form, history>>

(* Fault: any running batch will do, whoever claimed it.                    *)
HoldsAnyLease(w) == status[job[w]] = "running"

(* The token on the row is the one this worker claimed with.                *)
HoldsLease(w) == status[job[w]] = "running" /\ owner[job[w]] = w

(* The pulse task runs while the worker awaits the external API.  It renews *)
(* a lease that nobody took over, even one that has already run out.        *)
Heartbeat(w) ==
    /\ pc[w] = "collect"
    /\ HoldsLease(w)
    /\ lease[job[w]] = "expired"
    /\ lease' = [lease EXCEPT ![job[w]] = "live"]
    /\ UNCHANGED <<state, rev, linked, review, status, attempts, owner, wait,
                   workers, scope, form, history>>

OwnsLease(w) == HoldsLease(w) /\ lease[job[w]] = "live"

Go(w, where) == pc' = [pc EXCEPT ![w] = where] /\ UNCHANGED <<job, fresh>>

(* The attempt is over, and with it everything the worker held in memory.   *)
Leave(w) ==
    /\ pc' = [pc EXCEPT ![w] = "idle"]
    /\ job' = [job EXCEPT ![w] = NoBatch]
    /\ snap' = [snap EXCEPT ![w] = NoRun]
    /\ fresh' = [fresh EXCEPT ![w] = FALSE]

(* First transaction, lease lost: the worker gives the batch up.            *)
LoseBeforeParse(w) ==
    /\ pc[w] = "claimed"
    /\ ~OwnsLease(w)
    /\ Leave(w)
    /\ UNCHANGED <<state, rev, linked, review, queue, scope, form, history>>

(* First transaction on a batch in quarantine: the manifest is written, the *)
(* PDF is refused, or the private storage does not answer.                  *)
Parse(w) ==
    LET b == job[w] IN
    /\ pc[w] = "claimed"
    /\ OwnsLease(w)
    /\ state[b] = "quarantined"
    /\ \/ /\ state' = [state EXCEPT ![b] = "parsed"]
          /\ manifest' = [manifest EXCEPT ![b] = "clean"]
          /\ Go(w, "collect")
       \/ /\ state' = [state EXCEPT ![b] = "needs_review"]
          /\ \E m \in {"flagged", "empty"} : manifest' = [manifest EXCEPT ![b] = m]
          /\ Go(w, "collect")
       \/ /\ state' = [state EXCEPT ![b] = "rejected"]
          /\ Go(w, "finish_ok")
          /\ UNCHANGED manifest
       \/ /\ state' = [state EXCEPT ![b] = "failed"]
          /\ Go(w, "finish_failed")
          /\ UNCHANGED manifest
    /\ UNCHANGED <<rev, linked, runs, latest, request, corrected, queue, snap,
                   scope, form, history>>

(* First transaction on a batch past quarantine, which has nothing to do,   *)
(* and the same transaction when it fails and is rolled back.               *)
SkipParse(w) ==
    /\ pc[w] = "claimed"
    /\ \/ OwnsLease(w) /\ state[job[w]] # "quarantined" /\ Go(w, "collect")
       \/ Go(w, "finish_failed")
    /\ UNCHANGED <<state, rev, linked, review, queue, snap, scope, form, history>>

(* Fault: a batch that was decided meanwhile is still reconciled.           *)
ReconcilableAfterParse(b) == state[b] \notin {"absent", "quarantined"}

Reconcilable(b) == state[b] \in {"parsed", "needs_review"}

(* Outside any transaction: read the keys of the manifest, scan the lawsuits*)
(* twice, and read the portfolio.  The answer is whatever the system held.  *)
Collect(w) ==
    /\ pc[w] = "collect"
    /\ \/ /\ Reconcilable(job[w])
          /\ \E d \in Snapshots : snap' = [snap EXCEPT ![w] = d]
          /\ Go(w, "persist")
       \/ Go(w, "finish_failed") /\ UNCHANGED snap
    /\ UNCHANGED <<state, rev, linked, review, queue, scope, form, history>>

(* Second transaction, lease lost while collecting.                         *)
LoseBeforePersist(w) ==
    /\ pc[w] = "persist"
    /\ ~OwnsLease(w)
    /\ Leave(w)
    /\ UNCHANGED <<state, rev, linked, review, queue, scope, form, history>>

Settle(b, outcome) ==
    /\ status' = [status EXCEPT ![b] = outcome]
    /\ owner' = [owner EXCEPT ![b] = NoWorker]
    /\ lease' = [lease EXCEPT ![b] = "none"]

(* Second transaction.  A snapshot with a digest seen before re-dates its   *)
(* run; a new digest makes a new run and hands the batch to the reviewers.  *)
Persist(w) ==
    LET b == job[w]
        d == snap[w]
    IN  /\ pc[w] = "persist"
        /\ OwnsLease(w)
        /\ InScope(b)
        /\ Reconcilable(b)
        /\ latest' = [latest EXCEPT ![b] = d]
        /\ IF d \in runs[b]
             THEN UNCHANGED <<state, rev, runs>>
             ELSE /\ runs' = [runs EXCEPT ![b] = @ \cup {d}]
                  /\ state' = [state EXCEPT ![b] = "needs_review"]
                  /\ rev' = [rev EXCEPT ![b] = @ + 1]
        /\ Settle(b, "succeeded")
        /\ asked' = [asked EXCEPT ![b] = @ /\ ~fresh[w]]
        /\ Leave(w)
        /\ UNCHANGED <<linked, manifest, request, corrected, attempts, wait,
                       scope, form, evidence, shown>>

(* Second transaction rolled back: the batch was decided or left the scope, *)
(* the snapshot grew too old, or the database refused.                      *)
PersistFails(w) ==
    /\ pc[w] = "persist"
    /\ Go(w, "finish_failed")
    /\ UNCHANGED <<state, rev, linked, review, queue, snap, scope, form, history>>

(* _finish: the outcome counts only for the holder of a live lease.         *)
Finish(w) ==
    LET b == job[w] IN
    /\ pc[w] \in {"finish_ok", "finish_failed"}
    /\ Leave(w)
    /\ IF ~OwnsLease(w)
         THEN UNCHANGED queue
         ELSE /\ Settle(b, IF pc[w] = "finish_ok" THEN "succeeded" ELSE AfterFailure(b))
              /\ wait' = [wait EXCEPT ![b] = pc[w] = "finish_failed" /\ AfterFailure(b) = "pending"]
              /\ UNCHANGED attempts
    /\ UNCHANGED <<state, rev, linked, review, scope, form, history>>

(* The process dies; its open transaction rolls back and its token is lost. *)
Crash(w) ==
    /\ pc[w] # "idle"
    /\ Leave(w)
    /\ UNCHANGED <<state, rev, linked, review, queue, scope, form, history>>

(* The operator's command: failed batches return to the queue from zero.    *)
RetryFailed(locked) ==
    LET back == {b \in Batches \ locked : InScope(b) /\ status[b] = "failed"} IN
    /\ back # {}
    /\ status' = [b \in Batches |-> IF b \in back THEN "pending" ELSE status[b]]
    /\ attempts' = [b \in Batches |-> IF b \in back THEN 0 ELSE attempts[b]]
    /\ wait' = [b \in Batches |-> wait[b] /\ b \notin back]
    /\ UNCHANGED <<state, rev, linked, review, owner, lease, workers, scope, form, history>>

-----------------------------------------------------------------------------
(* The review page *)

(* A request stays pending until the run it named is no longer the latest,  *)
(* or processing has succeeded after it.                                    *)
ReprocessingPending(b) ==
    /\ latest[b] # NoRun
    /\ request[b] = latest[b]
    /\ status[b] # "succeeded"

(* What the latest run says of the items; "none" without a run or an item.  *)
VerdictNow(b) ==
    IF latest[b] = NoRun \/ manifest[b] = "empty" THEN "none" ELSE VerdictOf[b][latest[b]]

HasIssues(b) ==
    \/ VerdictNow(b) = "invalid"
    \/ VerdictNow(b) = "correctable" /\ latest[b] \notin corrected[b]

(* Fault: only batches received earlier are looked for.                     *)
SamePeriodEarlier(b) == {c \in 1 .. b : /\ PartnerOf[c] = PartnerOf[b]
                                        /\ PeriodOf[c] = PeriodOf[b]
                                        /\ state[c] = "approved"}

(* The approved portfolios of the batch's partner and exact period.         *)
SamePeriod(b) == {c \in Batches : /\ PartnerOf[c] = PartnerOf[b]
                                  /\ PeriodOf[c] = PeriodOf[b]
                                  /\ state[c] = "approved"}

ApprovalBlocked(b, u) ==
    \/ VerdictNow(b) \notin {"clean", "correctable"}
    \/ VerdictNow(b) = "correctable" /\ ~(Corrections /\ latest[b] \in corrected[b])
    \/ ReprocessingPending(b)
    \/ Cardinality(SamePeriod(b) \ {b}) > 1
    \/ manifest[b] # "clean"
    \/ FourEyes /\ Uploader[b] = u

(* Fault: a batch under review is shown as such while the queue has it.     *)
StageIgnoringQueue(b, u) ==
    CASE state[b] \in {"rejected", "superseded", "approved", "failed"} -> state[b]
      [] state[b] \in Claimable /\ status[b] = "failed" -> "failed"
      [] state[b] = "needs_review" /\ status[b] # "failed" ->
           IF HasIssues(b) THEN "issues" ELSE IF ApprovalBlocked(b, u) THEN "blocked" ELSE "ready"
      [] OTHER -> "processing"

(* The step of the flow the page announces (before any report exists).      *)
Stage(b, u) ==
    CASE state[b] \in {"rejected", "superseded", "approved"} -> state[b]
      [] state[b] = "failed" -> "failed"
      [] state[b] \in Claimable /\ status[b] = "failed" -> "failed"
      [] state[b] = "needs_review" /\ status[b] = "succeeded" ->
           IF HasIssues(b) THEN "issues" ELSE IF ApprovalBlocked(b, u) THEN "blocked" ELSE "ready"
      [] OTHER -> "processing"

(* The buttons of that step, and the correction forms further down.         *)
Offers(b, u) ==
    (CASE Stage(b, u) = "failed" -> {"reprocess"} \cup
            (IF state[b] \in {"quarantined", "needs_review"} THEN {"reject"} ELSE {})
       [] Stage(b, u) = "issues" -> {"reprocess", "reject"}
       [] Stage(b, u) = "blocked" -> {"reject"}
       [] Stage(b, u) = "ready" -> {"approve", "reject"}
       [] OTHER -> {})
    \cup (IF Corrections /\ VerdictNow(b) \in {"correctable", "invalid"}
                         /\ ~ReprocessingPending(b)
            THEN {"correct"} ELSE {})

OpenPage(u, b) ==
    /\ state[b] # "absent"
    /\ InScope(b)
    /\ form' = [form EXCEPT ![u] =
                  [batch |-> b, rev |-> rev[b], run |-> latest[b], offers |-> Offers(b, u)]]
    /\ UNCHANGED <<state, rev, linked, review, queue, workers, scope, history>>

(* Fault: the revision of the page is not compared.                         *)
SubmitsAnyRevision(u, b, action) ==
    form[u].batch = b /\ (OfferedOnly => action \in form[u].offers) /\ InScope(b)

(* Fault: the scope is checked when the page is rendered only.              *)
SubmitsAnyScope(u, b, action) ==
    form[u].batch = b /\ (OfferedOnly => action \in form[u].offers) /\ rev[b] = form[u].rev

(* A form arrives and its batch is locked: in scope, and nobody decided     *)
(* about it since the page was rendered.                                    *)
Submits(u, b, action) ==
    /\ form[u].batch = b
    /\ OfferedOnly => action \in form[u].offers
    /\ InScope(b)
    /\ rev[b] = form[u].rev

-----------------------------------------------------------------------------
(* Decisions *)

Reject(u, b) ==
    /\ Submits(u, b, "reject")
    /\ state[b] \in {"quarantined", "needs_review"}
    /\ state' = [state EXCEPT ![b] = "rejected"]
    /\ rev' = [rev EXCEPT ![b] = @ + 1]
    /\ UNCHANGED <<linked, review, queue, workers, scope, form, history>>

(* Either the automatic attempts are exhausted, or the reviewer wants the   *)
(* latest run of a batch under review to be repeated.                       *)
RequestReprocessing(u, b) ==
    LET exhausted == state[b] \in Claimable /\ status[b] = "failed" IN
    /\ Submits(u, b, "reprocess")
    /\ rev[b] < MaxRevision
    /\ \/ exhausted
       \/ state[b] = "needs_review" /\ latest[b] # NoRun /\ ~ReprocessingPending(b)
    /\ request' = [request EXCEPT ![b] = IF exhausted THEN NoRun ELSE latest[b]]
    /\ rev' = [rev EXCEPT ![b] = @ + 1]
    /\ status' = [status EXCEPT ![b] = "pending"]
    /\ attempts' = [attempts EXCEPT ![b] = 0]
    /\ wait' = [wait EXCEPT ![b] = FALSE]
    /\ asked' = [asked EXCEPT ![b] = TRUE]
    /\ fresh' = [w \in Workers |-> fresh[w] /\ job[w] # b]
    /\ UNCHANGED <<state, linked, manifest, runs, latest, corrected, owner, lease,
                   pc, job, snap, scope, form, evidence, shown>>

(* One exceptional item of the latest run is tied to an existing lawsuit:   *)
(* it may or may not have been the last one.                                *)
CorrectItem(u, b) ==
    /\ Corrections
    /\ Submits(u, b, "correct")
    /\ rev[b] < MaxRevision
    /\ state[b] = "needs_review"
    /\ VerdictNow(b) \in {"correctable", "invalid"}
    /\ ~ReprocessingPending(b)
    /\ \/ corrected' = [corrected EXCEPT ![b] = @ \cup {latest[b]}]
       \/ UNCHANGED corrected
    /\ rev' = [rev EXCEPT ![b] = @ + 1]
    /\ UNCHANGED <<state, linked, manifest, runs, latest, request, queue, workers,
                   scope, form, history>>

(* Fault: a batch that was replaced is approved again.                      *)
ApprovableAgain(b) ==
    /\ state[b] \in {"needs_review", "superseded"}
    /\ ~ReprocessingPending(b)
    /\ manifest[b] = "clean"
    /\ \/ VerdictNow(b) = "clean"
       \/ VerdictNow(b) = "correctable" /\ Corrections /\ latest[b] \in corrected[b]

(* _approved_items: the latest run resolves every item of a sound manifest. *)
Approvable(b) ==
    /\ state[b] = "needs_review"
    /\ ~ReprocessingPending(b)
    /\ manifest[b] = "clean"
    /\ \/ VerdictNow(b) = "clean"
       \/ VerdictNow(b) = "correctable" /\ Corrections /\ latest[b] \in corrected[b]

(* ex_partner_case_links_no_active_overlap: the database refuses a second   *)
(* active link of a lawsuit on any day, whoever the partner is.             *)
LinkConflict(b, old) == \E c \in Batches \ {b, old} :
    /\ PeriodOf[c][1] <= PeriodOf[b][2] /\ PeriodOf[b][1] <= PeriodOf[c][2]
    /\ linked[c] \cap Portfolio[b] # {}

(* Approval, replacing batch "old" unless it is NoBatch.  The handler reads *)
(* old before it takes the locks, so any choice may arrive.                 *)
Approve(u, b, old) ==
    /\ Submits(u, b, "approve")
    /\ FourEyes => Uploader[b] # u
    /\ Approvable(b)
    /\ SamePeriod(b) = {old} \ {NoBatch}
    /\ ~LinkConflict(b, old)
    /\ state' = [c \in Batches |-> IF c = b THEN "approved"
                                   ELSE IF c = old THEN "superseded" ELSE state[c]]
    /\ rev' = [c \in Batches |-> IF c \in {b, old} THEN rev[c] + 1 ELSE rev[c]]
    /\ linked' = [c \in Batches |-> IF c = b THEN Portfolio[b]
                                    ELSE IF c = old THEN {} ELSE linked[c]]
    /\ evidence' = [evidence EXCEPT ![b] = latest[b]]
    /\ shown' = [shown EXCEPT ![b] = form[u].run]
    /\ UNCHANGED <<review, queue, workers, scope, form, asked>>

-----------------------------------------------------------------------------
Decide(u, b) ==
    \/ Reject(u, b)
    \/ RequestReprocessing(u, b)
    \/ CorrectItem(u, b)
    \/ \E old \in Batches \cup {NoBatch} : Approve(u, b, old)

WorkerStep(w) ==
    \/ LoseBeforeParse(w) \/ Parse(w) \/ SkipParse(w) \/ Collect(w)
    \/ LoseBeforePersist(w) \/ Persist(w) \/ PersistFails(w) \/ Finish(w)

Next ==
    \/ \E b \in Batches : Upload(b) \/ LeaseExpires(b) \/ BackoffElapses(b)
    \/ \E p \in Partners : SetPilot(p)
    \/ \E w \in Workers : WorkerStep(w) \/ Heartbeat(w) \/ Crash(w)
    \/ \E w \in Workers, locked \in SUBSET Batches : Claim(w, locked)
    \/ \E locked \in SUBSET Batches : RetryFailed(locked)
    \/ \E u \in Users, b \in Batches : OpenPage(u, b) \/ Decide(u, b)

Spec == Init /\ [][Next]_vars

(* The timer starts a drain again and again, a drain runs to its end, and   *)
(* clocks advance.  Nothing is assumed of people, or of skipped locks.      *)
Fairness ==
    /\ \A w \in Workers : WF_vars(WorkerStep(w)) /\ WF_vars(Claim(w, {}))
    /\ \A b \in Batches : WF_vars(LeaseExpires(b)) /\ WF_vars(BackoffElapses(b))

FairSpec == Spec /\ Fairness
-----------------------------------------------------------------------------
(* Safety *)

(* Whoever approves a batch approves the run they were shown.  The revision *)
(* a form carries does not move when a run is re-dated, so this rests on    *)
(* when the page offers the approval, on what the queue lets a worker       *)
(* finish, and on which decisions send a batch back to the queue.           *)
ApprovedAsShown == \A b \in Batches :
    state[b] \in {"approved", "superseded"} => shown[b] = evidence[b] /\ evidence[b] # NoRun

(* reprocessing_pending: once reprocessing is asked for, nobody approves    *)
(* until a reconciliation that began after the request is on record.        *)
NoApprovalDuringReprocess == \A b \in Batches : state[b] = "approved" => ~asked[b]

(* A batch the queue reports as done was refused by the parser, or its      *)
(* latest run was collected after the last request to reprocess it, however *)
(* many workers, retries and lost leases came between.                      *)
SucceededMeansServed == \A b \in Batches :
    status[b] = "succeeded" /\ state[b] # "rejected" => latest[b] # NoRun /\ ~asked[b]

(* Each partner and exact period that ever had an approved portfolio has    *)
(* exactly one, and the partner's active links are that portfolio.          *)
OneCurrentPortfolio == \A b \in Batches :
    /\ state[b] \in {"approved", "superseded"} => \E c \in Batches : SamePeriod(b) = {c}
    /\ linked[b] = IF state[b] = "approved" THEN Portfolio[b] ELSE {}

(* ALLOWED_TRANSITIONS                                                      *)
Allowed == [s \in States \cup {"parsing", "reconciling"} |->
    CASE s = "absent" -> {"quarantined"}
      [] s = "quarantined" -> {"parsing", "rejected", "failed"}
      [] s = "parsing" -> {"parsed", "needs_review", "rejected", "failed"}
      [] s = "parsed" -> {"reconciling", "needs_review"}
      [] s = "reconciling" -> {"approved", "needs_review", "failed"}
      [] s = "needs_review" -> {"reconciling", "approved", "rejected", "superseded"}
      [] s = "failed" -> {"quarantined"}
      [] s = "approved" -> {"superseded"}
      [] OTHER -> {}]

(* A transaction makes one transition, or two through a passing state.      *)
Lawful(from, to) ==
    to \in Allowed[from] \/ \E mid \in Allowed[from] \ States : to \in Allowed[mid]

(* No handler ever attempts a transition require_transition would refuse;   *)
(* and once people have decided about a batch, no worker that was still     *)
(* busy with it changes what they decided on.                               *)
LifecycleRespected == [][\A b \in Batches :
    /\ state'[b] # state[b] => Lawful(state[b], state'[b])
    /\ state[b] \in {"approved", "rejected", "superseded"} =>
         UNCHANGED <<manifest[b], runs[b], latest[b], corrected[b]>>]_vars

(* A partner outside the data scope is left alone: nobody claims its        *)
(* batches, reconciles them or decides about them, though a worker or a     *)
(* page may have got hold of them while the pilot was enabled.              *)
OutOfScopeUntouched == [][\A b \in Batches : ~InScope(b) =>
    /\ status'[b] = "running" => status[b] = "running"
    /\ UNCHANGED <<rev[b], runs[b], latest[b], linked[b]>>]_vars

(* What the row of a batch says to the queue.  Its token and its attempts   *)
(* stay on the row when they have ceased to count.                          *)
Standing == [b \in Batches |->
    IF state[b] = "absent" THEN "idle"
    ELSE CASE status[b] = "pending" -> "queued"
           [] status[b] = "running" -> "held"
           [] status[b] = "succeeded" -> "done"
           [] OTHER -> "failed"]

Holder == [b \in Batches |-> IF status[b] = "running" THEN owner[b] ELSE NoWorker]

Tries == [b \in Batches |-> IF status[b] \in {"pending", "running"} THEN attempts[b] ELSE 0]

(* The import queue keeps the promises of a queue of leased work.           *)
ImportQueue == INSTANCE LeaseQueue WITH
    Items <- Batches, MaxTries <- MaxAttempts, EarlyEnd <- FALSE,
    NoItem <- NoBatch, NoHolder <- NoWorker,
    st <- Standing, holder <- Holder, tries <- Tries, busy <- job

(* Only the worker whose attempt counts settles a batch, whatever other     *)
(* workers, the operator and the reviewers do to its row meanwhile, and no  *)
(* batch is attempted more often than it was asked for.                     *)
ImportQueueKept == ImportQueue!Queue

(* The approved batches, those replaced, and what each is the portfolio of. *)
Approved == {b \in Batches : state[b] = "approved"}
Replaced == {b \in Batches : state[b] = "superseded"}
Slot == [b \in Batches |-> <<PartnerOf[b], PeriodOf[b]>>]

(* The approvals are a register of portfolios, which reports rest on.       *)
Portfolios == INSTANCE PortfolioRegister WITH
    SlotOf <- Slot, current <- Approved, past <- Replaced

(* Whatever is approved, by whom and from which request, replaces exactly   *)
(* what was current for its partner and period, in the same commit; nothing *)
(* else a worker, a reviewer or the operator does adds a current portfolio, *)
(* takes one away, or brings a replaced one back.                           *)
RegisterKept == Portfolios!Register

(* Liveness: a batch in the queue is eventually settled, by its success, by *)
(* its last attempt failing, or because people or the scope withdrew it.    *)
ImportSettles == \A b \in Batches :
    status[b] \in {"pending", "running"} /\ state[b] \in Claimable
        ~> status[b] \in {"succeeded", "failed"} \/ state[b] \notin Claimable \/ ~InScope(b)
-----------------------------------------------------------------------------
(* What the documents say of the program, and the code does not do          *)

(* Operators retry whatever the queue calls failed, and people keep opening *)
(* the page and asking for another attempt where they may.                  *)
PersistentSpec ==
    /\ FairSpec
    /\ WF_vars(RetryFailed({}))
    /\ \A u \in Users, b \in Batches :
         WF_vars(OpenPage(u, b)) /\ SF_vars(RequestReprocessing(u, b))

(* A batch whose PDF could not be read from the private storage is taken up *)
(* again once people ask for it.                                            *)
StorageFailureResumed == \A b \in Batches :
    state[b] = "failed" ~> state[b] # "failed" \/ ~InScope(b)

(* An approval replaces the earlier approval of the month.                  *)
OneApprovalPerMonth == \A b, c \in Batches :
    /\ state[b] = "approved" /\ state[c] = "approved"
    /\ PartnerOf[b] = PartnerOf[c] /\ PeriodOf[b][1] = PeriodOf[c][1]
    => b = c

(* The review service refuses approval until the reprocessing asked for has *)
(* produced a newer run, whichever page the request came from.              *)
RequestBlocksApproval == \A b \in Batches : state[b] = "approved" => ~asked[b]
=============================================================================
