-------------------------- MODULE PdfImportProofs --------------------------
(***************************************************************************)
(* Theorems about PdfImport, for every number of batches, workers, users   *)
(* and snapshots, every classification and every setting.                  *)
(***************************************************************************)
EXTENDS PdfImport, TLAPS

-----------------------------------------------------------------------------
(* Type correctness.  TypeOK bounds the attempts, and is not inductive: an  *)
(* attempt is only ever added to a batch that still has one, and a worker   *)
(* that is busy has a batch, and past its collection a snapshot.            *)

AttemptsLeft == \A b \in Batches : status[b] = "pending" => attempts[b] < MaxAttempts

Busy == \A w \in Workers :
    /\ pc[w] # "idle" => job[w] \in Batches
    /\ pc[w] = "persist" => snap[w] \in Snapshots

TypeInv == TypeOK /\ AttemptsLeft /\ Busy

LEMMA TypeInit == Init => TypeInv
  BY CountsAssumption DEF Init, TypeInv, TypeOK, AttemptsLeft, Busy, States, Runs

LEMMA TypeNext == TypeInv /\ [Next]_vars => TypeInv'
  <1> SUFFICES ASSUME TypeInv, [Next]_vars PROVE TypeInv'
    OBVIOUS
  <1> USE CountsAssumption, BatchesAssumption DEF TypeInv, TypeOK, AttemptsLeft, Busy,
        States, Runs, review, queue, workers, history
  <1>1. ASSUME NEW b \in Batches, Upload(b) PROVE TypeInv'
    BY <1>1 DEF Upload
  <1>2. ASSUME NEW b \in Batches, LeaseExpires(b) PROVE TypeInv'
    BY <1>2 DEF LeaseExpires
  <1>3. ASSUME NEW b \in Batches, BackoffElapses(b) PROVE TypeInv'
    BY <1>3 DEF BackoffElapses
  <1>4. ASSUME NEW p \in Partners, SetPilot(p) PROVE TypeInv'
    BY <1>4 DEF SetPilot
  <1>5. ASSUME NEW w \in Workers, LoseBeforeParse(w) PROVE TypeInv'
    BY <1>5 DEF LoseBeforeParse, Leave
  <1>6. ASSUME NEW w \in Workers, Parse(w) PROVE TypeInv'
    <2>1. job[w] \in Batches
      BY <1>6 DEF Parse
    <2>2. PICK s \in States, m \in {"none", "clean", "flagged", "empty"},
               where \in {"collect", "finish_ok", "finish_failed"} :
            /\ state' = [state EXCEPT ![job[w]] = s]
            /\ manifest' = [manifest EXCEPT ![job[w]] = m] \/ UNCHANGED manifest
            /\ pc' = [pc EXCEPT ![w] = where]
      <3> HIDE DEF TypeInv, TypeOK
      <3> QED
        BY <1>6, <2>1 DEF Parse, Go
    <2>3. UNCHANGED <<rev, linked, runs, latest, request, corrected, status, attempts, owner,
                      lease, wait, job, fresh, snap, scope, form, asked, evidence, shown>>
      BY <1>6 DEF Parse, Go
    <2> QED
      BY <2>1, <2>2, <2>3
  <1>7. ASSUME NEW w \in Workers, SkipParse(w) PROVE TypeInv'
    <2>1. /\ pc[w] = "claimed"
          /\ \E where \in {"collect", "finish_failed"} : pc' = [pc EXCEPT ![w] = where]
      BY <1>7 DEF SkipParse, Go
    <2>2. UNCHANGED <<state, rev, linked, manifest, runs, latest, request, corrected, status,
                      attempts, owner, lease, wait, job, fresh, snap, scope, form, asked,
                      evidence, shown>>
      BY <1>7 DEF SkipParse, Go
    <2> QED
      BY <2>1, <2>2
  <1>8. ASSUME NEW w \in Workers, Collect(w) PROVE TypeInv'
    <2>1. UNCHANGED <<state, rev, linked, manifest, runs, latest, request, corrected, status,
                      attempts, owner, lease, wait, job, fresh, scope, form, asked, evidence, shown>>
      BY <1>8 DEF Collect, Go
    <2>2. CASE \E d \in Snapshots : snap' = [snap EXCEPT ![w] = d] /\ Go(w, "persist")
      BY <1>8, <2>1, <2>2 DEF Collect, Go
    <2>3. CASE Go(w, "finish_failed") /\ UNCHANGED snap
      BY <1>8, <2>1, <2>3 DEF Collect, Go
    <2> QED
      BY <1>8, <2>2, <2>3 DEF Collect
  <1>9. ASSUME NEW w \in Workers, LoseBeforePersist(w) PROVE TypeInv'
    BY <1>9 DEF LoseBeforePersist, Leave
  <1>10. ASSUME NEW w \in Workers, Persist(w) PROVE TypeInv'
    <2>1. job[w] \in Batches /\ snap[w] \in Snapshots
      BY <1>10 DEF Persist
    <2>2. /\ runs' \in [Batches -> SUBSET Snapshots]
          /\ state' \in [Batches -> States]
          /\ rev' \in [Batches -> Nat]
      <3>1. CASE snap[w] \in runs[job[w]]
        BY <1>10, <3>1 DEF Persist
      <3>2. CASE snap[w] \notin runs[job[w]]
        <4>1. /\ runs' = [runs EXCEPT ![job[w]] = @ \cup {snap[w]}]
              /\ state' = [state EXCEPT ![job[w]] = "needs_review"]
              /\ rev' = [rev EXCEPT ![job[w]] = @ + 1]
          BY <1>10, <3>2 DEF Persist
        <4> QED
          BY <2>1, <4>1
      <3> QED
        BY <3>1, <3>2
    <2>3. /\ latest' \in [Batches -> Runs]
          /\ asked' \in [Batches -> BOOLEAN]
      BY <1>10, <2>1 DEF Persist
    <2>4. /\ status' = [status EXCEPT ![job[w]] = "succeeded"]
          /\ owner' \in [Batches -> Workers \cup {NoWorker}]
          /\ lease' \in [Batches -> {"none", "live", "expired"}]
      BY <1>10, <2>1 DEF Persist, Settle
    <2>5. /\ pc' = [pc EXCEPT ![w] = "idle"]
          /\ job' = [job EXCEPT ![w] = NoBatch]
          /\ snap' = [snap EXCEPT ![w] = NoRun]
          /\ fresh' = [fresh EXCEPT ![w] = FALSE]
      BY <1>10 DEF Persist, Leave
    <2>6. UNCHANGED <<linked, manifest, request, corrected, attempts, wait, scope, form,
                      evidence, shown>>
      BY <1>10 DEF Persist
    <2> QED
      BY <2>1, <2>2, <2>3, <2>4, <2>5, <2>6
  <1>11. ASSUME NEW w \in Workers, PersistFails(w) PROVE TypeInv'
    BY <1>11 DEF PersistFails, Go
  <1>12. ASSUME NEW w \in Workers, Finish(w) PROVE TypeInv'
    <2>1. job[w] \in Batches
      BY <1>12 DEF Finish
    <2>2. /\ status' \in [Batches -> {"pending", "running", "succeeded", "failed"}]
          /\ owner' \in [Batches -> Workers \cup {NoWorker}]
          /\ lease' \in [Batches -> {"none", "live", "expired"}]
          /\ AttemptsLeft'
      <3>1. CASE UNCHANGED queue
        BY <3>1
      <3>2. CASE OwnsLease(w)
        <4>1. PICK outcome \in {"succeeded", AfterFailure(job[w])} :
                /\ status' = [status EXCEPT ![job[w]] = outcome]
                /\ owner' = [owner EXCEPT ![job[w]] = NoWorker]
                /\ lease' = [lease EXCEPT ![job[w]] = "none"]
                /\ UNCHANGED attempts
          BY <1>12, <3>2 DEF Finish, Settle
        <4>2. outcome = "pending" => attempts[job[w]] < MaxAttempts
          BY <2>1 DEF AfterFailure
        <4> QED
          BY <2>1, <4>1, <4>2 DEF AfterFailure
      <3> QED
        BY <1>12, <3>1, <3>2 DEF Finish
    <2>3. wait' \in [Batches -> BOOLEAN] /\ UNCHANGED attempts
      BY <1>12, <2>1 DEF Finish
    <2>4. /\ pc' = [pc EXCEPT ![w] = "idle"]
          /\ job' = [job EXCEPT ![w] = NoBatch]
          /\ snap' = [snap EXCEPT ![w] = NoRun]
          /\ fresh' = [fresh EXCEPT ![w] = FALSE]
      BY <1>12 DEF Finish, Leave
    <2>5. UNCHANGED <<state, rev, linked, manifest, runs, latest, request, corrected, scope,
                      form, asked, evidence, shown>>
      BY <1>12 DEF Finish
    <2> QED
      BY <2>2, <2>3, <2>4, <2>5
  <1>13. ASSUME NEW w \in Workers, Heartbeat(w) PROVE TypeInv'
    BY <1>13 DEF Heartbeat
  <1>14. ASSUME NEW w \in Workers, Crash(w) PROVE TypeInv'
    BY <1>14 DEF Crash, Leave
  <1>15. ASSUME NEW w \in Workers, NEW locked \in SUBSET Batches, Claim(w, locked)
         PROVE  TypeInv'
    <2> DEFINE back == Abandoned(locked)
    <2>1. PICK picked \in Ready(locked) \cup {NoBatch} : Take(w, picked, back)
      BY <1>15 DEF Claim
    <2>2. picked # NoBatch => picked \in Batches /\ attempts[picked] < MaxAttempts
      BY DEF Ready, AfterFailure
    <2>3. attempts' \in [Batches -> 0 .. MaxAttempts]
      <3> attempts' = [b \in Batches |-> IF b = picked THEN attempts[b] + 1 ELSE attempts[b]]
        BY <2>1 DEF Take
      <3>1. ASSUME NEW b \in Batches
            PROVE  (IF b = picked THEN attempts[b] + 1 ELSE attempts[b]) \in 0 .. MaxAttempts
        <4>1. attempts[b] \in 0 .. MaxAttempts
          OBVIOUS
        <4>2. b = picked => attempts[b] < MaxAttempts
          BY <2>2 DEF NoBatch, Batches
        <4> HIDE DEF TypeInv
        <4> QED
          BY <4>1, <4>2
      <3> QED
        BY <3>1
    <2>4. status' \in [Batches -> {"pending", "running", "succeeded", "failed"}]
      BY <2>1 DEF Take, AfterFailure
    <2>5. AttemptsLeft'
      <3> SUFFICES ASSUME NEW b \in Batches, status'[b] = "pending"
                   PROVE  attempts'[b] < MaxAttempts
        OBVIOUS
      <3> status'[b] = IF b = picked THEN "running"
                       ELSE IF b \in back THEN AfterFailure(b) ELSE status[b]
        BY <2>1 DEF Take
      <3> b # picked
        OBVIOUS
      <3> attempts'[b] = attempts[b]
        BY <2>1 DEF Take
      <3> QED
        BY DEF AfterFailure
    <2>6. /\ owner' \in [Batches -> Workers \cup {NoWorker}]
          /\ lease' \in [Batches -> {"none", "live", "expired"}]
          /\ wait' \in [Batches -> BOOLEAN]
      BY <2>1 DEF Take
    <2>7. /\ pc' \in [Workers -> {"idle", "claimed", "collect", "persist",
                                  "finish_ok", "finish_failed"}]
          /\ job' \in [Workers -> Batches \cup {NoBatch}]
          /\ fresh' \in [Workers -> BOOLEAN]
      <3>1. CASE picked = NoBatch
        BY <2>1, <3>1 DEF Take
      <3>2. CASE picked # NoBatch
        <4>1. /\ pc' = [pc EXCEPT ![w] = "claimed"]
              /\ job' = [job EXCEPT ![w] = picked]
              /\ fresh' = [fresh EXCEPT ![w] = TRUE]
          BY <2>1, <3>2 DEF Take
        <4> QED
          BY <2>2, <3>2, <4>1
      <3> QED
        BY <3>1, <3>2
    <2>8. Busy'
      BY <2>1, <2>2, <1>15 DEF Take, Claim
    <2>9. UNCHANGED <<state, rev, linked, manifest, runs, latest, request, corrected, snap,
                      scope, form, asked, evidence, shown>>
      BY <1>15 DEF Claim
    <2> HIDE DEF back
    <2> QED
      BY <2>3, <2>4, <2>5, <2>6, <2>7, <2>8, <2>9
  <1>16. ASSUME NEW locked \in SUBSET Batches, RetryFailed(locked) PROVE TypeInv'
    BY <1>16 DEF RetryFailed
  <1>17. ASSUME NEW u \in Users, NEW b \in Batches, OpenPage(u, b) PROVE TypeInv'
    <2>1. Offers(b, u) \subseteq Forms
      BY DEF Offers, Forms
    <2>2. form' \in [Users -> [batch : Batches \cup {NoBatch}, rev : Nat,
                              run : Runs, offers : SUBSET Forms]]
      BY <1>17, <2>1 DEF OpenPage
    <2> QED
      BY <1>17, <2>2 DEF OpenPage
  <1>18. ASSUME NEW u \in Users, NEW b \in Batches, Reject(u, b) PROVE TypeInv'
    BY <1>18 DEF Reject
  <1>19. ASSUME NEW u \in Users, NEW b \in Batches, RequestReprocessing(u, b) PROVE TypeInv'
    BY <1>19 DEF RequestReprocessing
  <1>20. ASSUME NEW u \in Users, NEW b \in Batches, CorrectItem(u, b) PROVE TypeInv'
    <2>1. latest[b] \in Snapshots
      BY <1>20 DEF CorrectItem, VerdictNow
    <2>2. corrected' \in [Batches -> SUBSET Snapshots]
      <3>1. CASE corrected' = [corrected EXCEPT ![b] = @ \cup {latest[b]}]
        <4> corrected[b] \cup {latest[b]} \in SUBSET Snapshots
          BY <2>1
        <4> QED
          BY <3>1
      <3>2. CASE UNCHANGED corrected
        BY <3>2
      <3> QED
        BY <1>20, <3>1, <3>2 DEF CorrectItem
    <2>3. /\ rev' = [rev EXCEPT ![b] = @ + 1]
          /\ UNCHANGED <<state, linked, manifest, runs, latest, request, queue, workers,
                         scope, form, history>>
      BY <1>20 DEF CorrectItem
    <2> QED
      BY <2>2, <2>3
  <1>21. ASSUME NEW u \in Users, NEW b \in Batches, NEW old \in Batches \cup {NoBatch},
                Approve(u, b, old)
         PROVE  TypeInv'
    BY <1>21 DEF Approve
  <1>22. CASE UNCHANGED vars
    BY <1>22 DEF vars
  <1> QED
    BY <1>1, <1>2, <1>3, <1>4, <1>5, <1>6, <1>7, <1>8, <1>9, <1>10, <1>11, <1>12,
       <1>13, <1>14, <1>15, <1>16, <1>17, <1>18, <1>19, <1>20, <1>21, <1>22
    DEF Next, WorkerStep, Decide

(* PdfImport!TypeOK holds of every reachable state, with attempts never     *)
(* beyond _MAX_ATTEMPTS, however claims, retries and crashes interleave.    *)
THEOREM TypeCorrect == Spec => []TypeOK
  <1>1. Init => TypeInv
    BY TypeInit
  <1>2. TypeInv /\ [Next]_vars => TypeInv'
    BY TypeNext
  <1>3. TypeInv => TypeOK
    BY DEF TypeInv
  <1> QED
    BY <1>1, <1>2, <1>3, PTL DEF Spec

-----------------------------------------------------------------------------
(* What a settled queue row says.  A worker that still holds its batch      *)
(* claimed it after the last request to reprocess it, since a request takes *)
(* the row away from whoever has it; and only a refusal by the parser lets  *)
(* a worker report success without a reconciliation.                        *)

FreshHolder == \A w \in Workers : pc[w] # "idle" /\ HoldsLease(w) => fresh[w]

RefusedByParser == \A w \in Workers : pc[w] = "finish_ok" => state[job[w]] = "rejected"

ServedInv == FreshHolder /\ RefusedByParser /\ SucceededMeansServed

LEMMA ServedInit == Init => ServedInv
  BY DEF Init, ServedInv, FreshHolder, RefusedByParser, SucceededMeansServed

LEMMA ServedNext == TypeInv /\ ServedInv /\ [Next]_vars => ServedInv'
  <1> SUFFICES ASSUME TypeInv, ServedInv, [Next]_vars PROVE ServedInv'
    OBVIOUS
  <1>a. /\ state \in [Batches -> States]
        /\ status \in [Batches -> {"pending", "running", "succeeded", "failed"}]
        /\ owner \in [Batches -> Workers \cup {NoWorker}]
        /\ latest \in [Batches -> Runs]
        /\ asked \in [Batches -> BOOLEAN]
        /\ pc \in [Workers -> {"idle", "claimed", "collect", "persist",
                               "finish_ok", "finish_failed"}]
        /\ job \in [Workers -> Batches \cup {NoBatch}]
        /\ fresh \in [Workers -> BOOLEAN]
        /\ Busy
        /\ NoRun \notin Snapshots
    BY NullsAssumption DEF TypeInv, TypeOK
  <1> USE DEF ServedInv, FreshHolder, RefusedByParser, SucceededMeansServed, HoldsLease, Busy,
        review, queue, workers, history
  <1>1. ASSUME NEW b \in Batches, Upload(b) PROVE ServedInv'
    BY <1>1, <1>a DEF Upload
  <1>2. ASSUME NEW b \in Batches, LeaseExpires(b) PROVE ServedInv'
    BY <1>2, <1>a DEF LeaseExpires
  <1>3. ASSUME NEW b \in Batches, BackoffElapses(b) PROVE ServedInv'
    BY <1>3, <1>a DEF BackoffElapses
  <1>4. ASSUME NEW p \in Partners, SetPilot(p) PROVE ServedInv'
    BY <1>4, <1>a DEF SetPilot
  <1>5. ASSUME NEW w \in Workers, LoseBeforeParse(w) PROVE ServedInv'
    BY <1>5, <1>a DEF LoseBeforeParse, Leave
  <1>6. ASSUME NEW w \in Workers, Parse(w) PROVE ServedInv'
    BY <1>6, <1>a DEF Parse, OwnsLease, Go
  <1>7. ASSUME NEW w \in Workers, SkipParse(w) PROVE ServedInv'
    BY <1>7, <1>a DEF SkipParse, Go
  <1>8. ASSUME NEW w \in Workers, Collect(w) PROVE ServedInv'
    BY <1>8, <1>a DEF Collect, Go
  <1>9. ASSUME NEW w \in Workers, LoseBeforePersist(w) PROVE ServedInv'
    BY <1>9, <1>a DEF LoseBeforePersist, Leave
  <1>10. ASSUME NEW w \in Workers, Persist(w) PROVE ServedInv'
    <2>1. job[w] \in Batches /\ snap[w] \in Snapshots /\ fresh[w]
      BY <1>10, <1>a DEF Persist, OwnsLease
    <2>2. /\ status' = [status EXCEPT ![job[w]] = "succeeded"]
          /\ owner' = [owner EXCEPT ![job[w]] = NoWorker]
          /\ latest' = [latest EXCEPT ![job[w]] = snap[w]]
          /\ asked' = [asked EXCEPT ![job[w]] = @ /\ ~fresh[w]]
      BY <1>10 DEF Persist, Settle
    <2>3. /\ pc' = [pc EXCEPT ![w] = "idle"]
          /\ job' = [job EXCEPT ![w] = NoBatch]
          /\ fresh' = [fresh EXCEPT ![w] = FALSE]
      BY <1>10 DEF Persist, Leave
    <2>4. \A b \in Batches : (state[b] = "rejected") <=> (state'[b] = "rejected")
      BY <1>10, <1>a, <2>1 DEF Persist, Reconcilable
    <2>5. FreshHolder'
      BY <1>a, <2>1, <2>2, <2>3
    <2>6. RefusedByParser'
      BY <1>a, <2>3, <2>4
    <2>7. SucceededMeansServed'
      BY <1>a, <2>1, <2>2, <2>4
    <2> QED
      BY <2>5, <2>6, <2>7
  <1>11. ASSUME NEW w \in Workers, PersistFails(w) PROVE ServedInv'
    BY <1>11, <1>a DEF PersistFails, Go
  <1>12. ASSUME NEW w \in Workers, Finish(w) PROVE ServedInv'
    BY <1>12, <1>a DEF Finish, OwnsLease, Settle, AfterFailure, Leave
  <1>13. ASSUME NEW w \in Workers, Heartbeat(w) PROVE ServedInv'
    BY <1>13, <1>a DEF Heartbeat
  <1>14. ASSUME NEW w \in Workers, Crash(w) PROVE ServedInv'
    BY <1>14, <1>a DEF Crash, Leave
  <1>15. ASSUME NEW w \in Workers, NEW locked \in SUBSET Batches, Claim(w, locked) PROVE ServedInv'
    BY <1>15, <1>a DEF Claim, Take, Ready, Abandoned, AfterFailure
  <1>16. ASSUME NEW locked \in SUBSET Batches, RetryFailed(locked) PROVE ServedInv'
    BY <1>16, <1>a DEF RetryFailed
  <1>17. ASSUME NEW u \in Users, NEW b \in Batches, OpenPage(u, b) PROVE ServedInv'
    BY <1>17, <1>a DEF OpenPage
  <1>18. ASSUME NEW u \in Users, NEW b \in Batches, Reject(u, b) PROVE ServedInv'
    BY <1>18, <1>a DEF Reject
  <1>19. ASSUME NEW u \in Users, NEW b \in Batches, RequestReprocessing(u, b) PROVE ServedInv'
    BY <1>19, <1>a DEF RequestReprocessing
  <1>20. ASSUME NEW u \in Users, NEW b \in Batches, CorrectItem(u, b) PROVE ServedInv'
    BY <1>20, <1>a DEF CorrectItem
  <1>21. ASSUME NEW u \in Users, NEW b \in Batches, NEW old \in Batches \cup {NoBatch},
                Approve(u, b, old)
         PROVE  ServedInv'
    <2>1. old \in Batches => state[old] = "approved"
      BY <1>21 DEF Approve, SamePeriod, NoBatch, Batches
    <2>2. \A c \in Batches : /\ (state'[c] = "rejected") <=> (state[c] = "rejected")
                            /\ UNCHANGED <<status[c], latest[c], asked[c]>>
      BY <1>21, <2>1 DEF Approve, Approvable
    <2>3. UNCHANGED <<status, owner, pc, job, fresh>>
      BY <1>21 DEF Approve
    <2>4. \A w \in Workers : pc[w] # "idle" => job[w] \in Batches
      BY <1>a
    <2> QED
      BY <2>2, <2>3, <2>4
  <1>22. CASE UNCHANGED vars
    BY <1>22 DEF vars
  <1> QED
    BY <1>1, <1>2, <1>3, <1>4, <1>5, <1>6, <1>7, <1>8, <1>9, <1>10, <1>11, <1>12,
       <1>13, <1>14, <1>15, <1>16, <1>17, <1>18, <1>19, <1>20, <1>21, <1>22
    DEF Next, WorkerStep, Decide

-----------------------------------------------------------------------------
(* What a page still current says.  If nobody has decided since a page      *)
(* offered the approval, the queue has not touched its batch since either:  *)
(* the batch was settled when the page was rendered, and only a decision or *)
(* the retry of a failed batch puts one back.                               *)

FormsFromThePast == \A u \in Users :
    form[u].batch # NoBatch => form[u].rev <= rev[form[u].batch]

OfferStillGood == \A u \in Users, b \in Batches :
    form[u].batch = b /\ form[u].rev = rev[b] /\ "approve" \in form[u].offers
        => status[b] = "succeeded" /\ form[u].run = latest[b]

ApprovalInv == /\ FormsFromThePast
               /\ OfferStillGood
               /\ ApprovedAsShown
               /\ NoApprovalDuringReprocess
LEMMA ApprovalInit == Init => ApprovalInv
  BY DEF Init, ApprovalInv, FormsFromThePast, OfferStillGood, ApprovedAsShown,
         NoApprovalDuringReprocess, NoBatch, Batches

(* Pages stay truthful through a step that opens none, if it leaves a       *)
(* settled batch as it is wherever it does not advance the revision.        *)
LEMMA PagesKept ==
    ASSUME FormsFromThePast, OfferStillGood, UNCHANGED form,
           form \in [Users -> [batch : Batches \cup {NoBatch}, rev : Nat,
                              run : Runs, offers : SUBSET Forms]],
           rev \in [Batches -> Nat], rev' \in [Batches -> Nat],
           \A b \in Batches :
               /\ rev[b] <= rev'[b]
               /\ rev'[b] = rev[b] /\ status[b] = "succeeded"
                    => status'[b] = "succeeded" /\ latest'[b] = latest[b]
    PROVE  FormsFromThePast' /\ OfferStillGood'
  <1>1. ASSUME NEW u \in Users, form[u].batch # NoBatch
        PROVE  form[u].rev <= rev'[form[u].batch]
    <2>1. form[u].batch \in Batches /\ form[u].rev \in Nat /\ form[u].rev <= rev[form[u].batch]
      BY <1>1 DEF FormsFromThePast
    <2> QED
      BY <2>1
  <1>2. ASSUME NEW u \in Users, NEW b \in Batches, form[u].batch = b,
               form[u].rev = rev'[b], "approve" \in form[u].offers
        PROVE  status'[b] = "succeeded" /\ form[u].run = latest'[b]
    <2>1. form[u].rev <= rev[b]
      BY <1>2 DEF FormsFromThePast, NoBatch, Batches
    <2>2. rev'[b] = rev[b]
      BY <1>2, <2>1
    <2> QED
      BY <1>2, <2>2 DEF OfferStillGood
  <1> QED
    BY <1>1, <1>2 DEF FormsFromThePast, OfferStillGood

LEMMA ApprovalNext ==
    ASSUME OfferedOnly, TypeInv, ServedInv, ApprovalInv, [Next]_vars
    PROVE  ApprovalInv'
  <1>a. /\ state \in [Batches -> States]
        /\ rev \in [Batches -> Nat]
        /\ latest \in [Batches -> Runs]
        /\ status \in [Batches -> {"pending", "running", "succeeded", "failed"}]
        /\ asked \in [Batches -> BOOLEAN]
        /\ evidence \in [Batches -> Runs]
        /\ shown \in [Batches -> Runs]
        /\ form \in [Users -> [batch : Batches \cup {NoBatch}, rev : Nat,
                               run : Runs, offers : SUBSET Forms]]
        /\ Busy
    BY DEF TypeInv, TypeOK
  <1>b. rev' \in [Batches -> Nat]
    BY TypeNext DEF TypeInv, TypeOK
  <1> USE DEF ApprovalInv, ApprovedAsShown, NoApprovalDuringReprocess,
        review, queue, workers, history
  <1>1. ASSUME NEW b \in Batches, Upload(b) PROVE ApprovalInv'
    BY <1>1, <1>a, <1>b, PagesKept DEF Upload
  <1>2. ASSUME NEW b \in Batches, LeaseExpires(b) PROVE ApprovalInv'
    BY <1>2, <1>a, <1>b, PagesKept DEF LeaseExpires
  <1>3. ASSUME NEW b \in Batches, BackoffElapses(b) PROVE ApprovalInv'
    BY <1>3, <1>a, <1>b, PagesKept DEF BackoffElapses
  <1>4. ASSUME NEW p \in Partners, SetPilot(p) PROVE ApprovalInv'
    BY <1>4, <1>a, <1>b, PagesKept DEF SetPilot
  <1>5. ASSUME NEW w \in Workers, LoseBeforeParse(w) PROVE ApprovalInv'
    BY <1>5, <1>a, <1>b, PagesKept DEF LoseBeforeParse
  <1>6. ASSUME NEW w \in Workers, Parse(w) PROVE ApprovalInv'
    BY <1>6, <1>a, <1>b, PagesKept DEF Parse, Busy
  <1>7. ASSUME NEW w \in Workers, SkipParse(w) PROVE ApprovalInv'
    BY <1>7, <1>a, <1>b, PagesKept DEF SkipParse
  <1>8. ASSUME NEW w \in Workers, Collect(w) PROVE ApprovalInv'
    BY <1>8, <1>a, <1>b, PagesKept DEF Collect
  <1>9. ASSUME NEW w \in Workers, LoseBeforePersist(w) PROVE ApprovalInv'
    BY <1>9, <1>a, <1>b, PagesKept DEF LoseBeforePersist
  <1>10. ASSUME NEW w \in Workers, Persist(w) PROVE ApprovalInv'
    <2>1. \A c \in Batches :
               /\ rev[c] <= rev'[c]
               /\ rev'[c] = rev[c] /\ status[c] = "succeeded"
                    => status'[c] = "succeeded" /\ latest'[c] = latest[c]
      BY <1>10, <1>a DEF Persist, OwnsLease, HoldsLease, Reconcilable, Settle, Busy
    <2>2. UNCHANGED form
      BY <1>10 DEF Persist
    <2>3. FormsFromThePast' /\ OfferStillGood'
      BY <2>1, <2>2, <1>a, <1>b, PagesKept
    <2>4. ApprovedAsShown' /\ NoApprovalDuringReprocess'
      BY <1>10, <1>a DEF Persist, OwnsLease, HoldsLease, Reconcilable, Settle, Busy
    <2> QED
      BY <2>3, <2>4
  <1>11. ASSUME NEW w \in Workers, PersistFails(w) PROVE ApprovalInv'
    BY <1>11, <1>a, <1>b, PagesKept DEF PersistFails
  <1>12. ASSUME NEW w \in Workers, Finish(w) PROVE ApprovalInv'
    BY <1>12, <1>a, <1>b, PagesKept DEF Finish, OwnsLease, HoldsLease, Settle, Busy
  <1>13. ASSUME NEW w \in Workers, Heartbeat(w) PROVE ApprovalInv'
    BY <1>13, <1>a, <1>b, PagesKept DEF Heartbeat
  <1>14. ASSUME NEW w \in Workers, Crash(w) PROVE ApprovalInv'
    BY <1>14, <1>a, <1>b, PagesKept DEF Crash
  <1>15. ASSUME NEW w \in Workers, NEW locked \in SUBSET Batches, Claim(w, locked) PROVE ApprovalInv'
    <2>1. \A c \in Batches :
               /\ rev[c] <= rev'[c]
               /\ rev'[c] = rev[c] /\ status[c] = "succeeded"
                    => status'[c] = "succeeded" /\ latest'[c] = latest[c]
      <3>1. PICK picked \in Ready(locked) \cup {NoBatch} : Take(w, picked, Abandoned(locked))
        BY <1>15 DEF Claim
      <3>2. \A c \in Batches : status[c] = "succeeded" => c # picked /\ c \notin Abandoned(locked)
        BY DEF Ready, Abandoned, NoBatch, Batches
      <3>3. UNCHANGED <<rev, latest>>
        BY <1>15 DEF Claim
      <3> QED
        BY <1>a, <3>1, <3>2, <3>3 DEF Take
    <2>2. UNCHANGED form
      BY <1>15 DEF Claim
    <2>3. FormsFromThePast' /\ OfferStillGood'
      BY <2>1, <2>2, <1>a, <1>b, PagesKept
    <2>4. ApprovedAsShown' /\ NoApprovalDuringReprocess'
      BY <1>15 DEF Claim
    <2> QED
      BY <2>3, <2>4
  <1>16. ASSUME NEW locked \in SUBSET Batches, RetryFailed(locked) PROVE ApprovalInv'
    BY <1>16, <1>a, <1>b, PagesKept DEF RetryFailed
  <1>17. ASSUME NEW u \in Users, NEW b \in Batches, OpenPage(u, b) PROVE ApprovalInv'
    BY <1>17, <1>a DEF OpenPage, Offers, Stage, FormsFromThePast, OfferStillGood
  <1>18. ASSUME NEW u \in Users, NEW b \in Batches, Reject(u, b) PROVE ApprovalInv'
    <2>1. \A c \in Batches :
               /\ rev[c] <= rev'[c]
               /\ rev'[c] = rev[c] /\ status[c] = "succeeded"
                    => status'[c] = "succeeded" /\ latest'[c] = latest[c]
      BY <1>18, <1>a DEF Reject
    <2>2. UNCHANGED form
      BY <1>18 DEF Reject
    <2>3. FormsFromThePast' /\ OfferStillGood'
      BY <2>1, <2>2, <1>a, <1>b, PagesKept
    <2>4. ApprovedAsShown' /\ NoApprovalDuringReprocess'
      BY <1>18, <1>a DEF Reject
    <2> QED
      BY <2>3, <2>4
  <1>19. ASSUME NEW u \in Users, NEW b \in Batches, RequestReprocessing(u, b) PROVE ApprovalInv'
    <2>1. \A c \in Batches :
               /\ rev[c] <= rev'[c]
               /\ rev'[c] = rev[c] /\ status[c] = "succeeded"
                    => status'[c] = "succeeded" /\ latest'[c] = latest[c]
      BY <1>19, <1>a DEF RequestReprocessing
    <2>2. UNCHANGED form
      BY <1>19 DEF RequestReprocessing
    <2>3. FormsFromThePast' /\ OfferStillGood'
      BY <2>1, <2>2, <1>a, <1>b, PagesKept
    <2>4. ApprovedAsShown' /\ NoApprovalDuringReprocess'
      BY <1>19, <1>a DEF RequestReprocessing, Claimable
    <2> QED
      BY <2>3, <2>4
  <1>20. ASSUME NEW u \in Users, NEW b \in Batches, CorrectItem(u, b) PROVE ApprovalInv'
    <2>1. \A c \in Batches :
               /\ rev[c] <= rev'[c]
               /\ rev'[c] = rev[c] /\ status[c] = "succeeded"
                    => status'[c] = "succeeded" /\ latest'[c] = latest[c]
      BY <1>20, <1>a DEF CorrectItem
    <2>2. UNCHANGED form
      BY <1>20 DEF CorrectItem
    <2>3. FormsFromThePast' /\ OfferStillGood'
      BY <2>1, <2>2, <1>a, <1>b, PagesKept
    <2>4. ApprovedAsShown' /\ NoApprovalDuringReprocess'
      BY <1>20, <1>a DEF CorrectItem
    <2> QED
      BY <2>3, <2>4
  <1>21. ASSUME NEW u \in Users, NEW b \in Batches, NEW old \in Batches \cup {NoBatch},
                Approve(u, b, old)
         PROVE  ApprovalInv'
    <2>1. \A c \in Batches :
               /\ rev[c] <= rev'[c]
               /\ rev'[c] = rev[c] /\ status[c] = "succeeded"
                    => status'[c] = "succeeded" /\ latest'[c] = latest[c]
      BY <1>21, <1>a DEF Approve
    <2>2. UNCHANGED form
      BY <1>21 DEF Approve
    <2>3. FormsFromThePast' /\ OfferStillGood'
      BY <2>1, <2>2, <1>a, <1>b, PagesKept
    <2>4. /\ form[u].run = latest[b]
          /\ latest[b] # NoRun
          /\ ~asked[b]
      BY <1>21 DEF Approve, Submits, Approvable, OfferStillGood, ServedInv, SucceededMeansServed
    <2>5. old \in Batches => state[old] = "approved"
      BY <1>21 DEF Approve, SamePeriod, NoBatch, Batches
    <2>6. ApprovedAsShown' /\ NoApprovalDuringReprocess'
      <3> SUFFICES ASSUME NEW c \in Batches
                   PROVE  /\ state'[c] \in {"approved", "superseded"}
                               => shown'[c] = evidence'[c] /\ evidence'[c] # NoRun
                          /\ state'[c] = "approved" => ~asked'[c]
        OBVIOUS
      <3>1. CASE c = b
        BY <1>21, <1>a, <2>4, <3>1 DEF Approve
      <3>2. CASE c # b
        BY <1>21, <1>a, <2>5, <3>2 DEF Approve
      <3> QED
        BY <3>1, <3>2
    <2> QED
      BY <2>3, <2>6
  <1>22. CASE UNCHANGED vars
    BY <1>22 DEF vars, FormsFromThePast, OfferStillGood
  <1> QED
    BY <1>1, <1>2, <1>3, <1>4, <1>5, <1>6, <1>7, <1>8, <1>9, <1>10, <1>11, <1>12,
       <1>13, <1>14, <1>15, <1>16, <1>17, <1>18, <1>19, <1>20, <1>21, <1>22
    DEF Next, WorkerStep, Decide

(* PdfImport!SucceededMeansServed: a batch whose processing succeeded has   *)
(* an answer younger than the last request for one, or was refused by the   *)
(* parser, whatever the interleaving of workers, retries and requests.      *)
THEOREM QueueTruthful == Spec => []SucceededMeansServed
  <1>1. Init => TypeInv /\ ServedInv
    BY TypeInit, ServedInit
  <1>2. TypeInv /\ ServedInv /\ [Next]_vars => (TypeInv /\ ServedInv)'
    BY TypeNext, ServedNext
  <1>3. TypeInv /\ ServedInv => SucceededMeansServed
    BY DEF ServedInv
  <1> QED
    BY <1>1, <1>2, <1>3, PTL DEF Spec

(* PdfImport!ApprovedAsShown and PdfImport!NoApprovalDuringReprocess: when  *)
(* people submit what their page offers, every approval is granted on the   *)
(* run its reviewer was shown, with no reprocessing outstanding.            *)
THEOREM ApprovalsInformed ==
    OfferedOnly => (Spec => [](ApprovedAsShown /\ NoApprovalDuringReprocess))
  <1> DEFINE Inv == TypeInv /\ ServedInv /\ ApprovalInv
  <1> SUFFICES ASSUME OfferedOnly PROVE Spec => [](ApprovedAsShown /\ NoApprovalDuringReprocess)
    OBVIOUS
  <1>1. Init => Inv
    BY TypeInit, ServedInit, ApprovalInit
  <1>2. Inv /\ [Next]_vars => Inv'
    BY TypeNext, ServedNext, ApprovalNext
  <1>3. Inv => ApprovedAsShown /\ NoApprovalDuringReprocess
    BY DEF ApprovalInv
  <1> QED
    BY <1>1, <1>2, <1>3, PTL DEF Spec

(* PdfImport!NoApprovalDuringReprocess by itself: a batch whose reprocessing *)
(* was asked for is not approved before the newer run, from any page.       *)
COROLLARY ReprocessingAwaited == OfferedOnly => (Spec => []NoApprovalDuringReprocess)
  <1> SUFFICES ASSUME OfferedOnly PROVE Spec => []NoApprovalDuringReprocess
    OBVIOUS
  <1>1. Spec => [](ApprovedAsShown /\ NoApprovalDuringReprocess)
    BY ApprovalsInformed
  <1> QED
    BY <1>1, PTL

-----------------------------------------------------------------------------
(* What an approval does to the other batches of its partner and period.    *)

LEMMA OnlyApprovals ==
    ASSUME TypeInv, [Next]_vars
    PROVE  \/ \E u \in Users, b \in Batches, old \in Batches \cup {NoBatch} : Approve(u, b, old)
           \/ /\ UNCHANGED linked
              /\ \A b \in Batches : state'[b] # state[b] =>
                   {state[b], state'[b]} \cap {"approved", "superseded"} = {}
  <1> DEFINE Undecided == /\ UNCHANGED linked
                          /\ \A b \in Batches : state'[b] # state[b] =>
                               {state[b], state'[b]} \cap {"approved", "superseded"} = {}
  <1>a. state \in [Batches -> States] /\ Busy
    BY DEF TypeInv, TypeOK
  <1>1. ASSUME NEW b \in Batches, Upload(b) PROVE Undecided
    BY <1>1, <1>a DEF Upload
  <1>2. ASSUME NEW w \in Workers, Parse(w) PROVE Undecided
    BY <1>2, <1>a DEF Parse, Busy
  <1>3. ASSUME NEW w \in Workers, Persist(w) PROVE Undecided
    BY <1>3, <1>a DEF Persist, Reconcilable, Busy
  <1>4. ASSUME NEW u \in Users, NEW b \in Batches, Reject(u, b) PROVE Undecided
    BY <1>4, <1>a DEF Reject
  <1>5. CASE UNCHANGED <<state, linked>>
    BY <1>5
  <1> QED
    BY <1>1, <1>2, <1>3, <1>4, <1>5
    DEF Next, WorkerStep, Decide, vars, LeaseExpires, BackoffElapses, SetPilot, LoseBeforeParse,
        SkipParse, Collect, LoseBeforePersist, PersistFails, Finish, Heartbeat, Crash, Claim,
        RetryFailed, OpenPage, RequestReprocessing, CorrectItem

LEMMA PortfolioNext == TypeInv /\ OneCurrentPortfolio /\ [Next]_vars => OneCurrentPortfolio'
  <1> SUFFICES ASSUME TypeInv, OneCurrentPortfolio, [Next]_vars PROVE OneCurrentPortfolio'
    OBVIOUS
  <1>a. /\ state \in [Batches -> States]
        /\ linked \in [Batches -> SUBSET Lawsuits]
    BY DEF TypeInv, TypeOK
  <1> DEFINE Past == {"approved", "superseded"}
  <1>1. ASSUME UNCHANGED linked,
               \A b \in Batches : state'[b] # state[b] => {state[b], state'[b]} \cap Past = {}
        PROVE  OneCurrentPortfolio'
    <2>1. ASSUME NEW b \in Batches
          PROVE  /\ (state'[b] = "approved") <=> (state[b] = "approved")
                 /\ (state'[b] \in Past) <=> (state[b] \in Past)
      BY <1>1
    <2>2. ASSUME NEW b \in Batches PROVE SamePeriod(b)' = SamePeriod(b)
      <3>1. \A c \in Batches : (state'[c] = "approved") <=> (state[c] = "approved")
        BY <2>1
      <3> QED
        BY <3>1, Zenon DEF SamePeriod
    <2> QED
      BY <1>1, <2>1, <2>2 DEF OneCurrentPortfolio
  <1>2. ASSUME NEW u \in Users, NEW b \in Batches, NEW old \in Batches \cup {NoBatch},
               Approve(u, b, old)
        PROVE  OneCurrentPortfolio'
    <2>1. /\ state' = [c \in Batches |-> IF c = b THEN "approved"
                                         ELSE IF c = old THEN "superseded" ELSE state[c]]
          /\ linked' = [c \in Batches |-> IF c = b THEN Portfolio[b]
                                          ELSE IF c = old THEN {} ELSE linked[c]]
          /\ SamePeriod(b) = {old} \ {NoBatch}
          /\ state[b] = "needs_review"
      BY <1>2 DEF Approve, Approvable
    <2>2. \A c \in Batches : linked'[c] = IF state'[c] = "approved" THEN Portfolio[c] ELSE {}
      BY <1>a, <2>1 DEF OneCurrentPortfolio
    <2>3. SamePeriod(b)' = {b}
      BY <1>a, <2>1 DEF SamePeriod
    <2>4. ASSUME NEW c \in Batches, state'[c] \in Past
          PROVE  \E d \in Batches : SamePeriod(c)' = {d}
      <3>1. CASE PartnerOf[c] = PartnerOf[b] /\ PeriodOf[c] = PeriodOf[b]
        <4> SamePeriod(c)' = SamePeriod(b)'
          BY <3>1 DEF SamePeriod
        <4> QED
          BY <2>3
      <3>2. CASE ~(PartnerOf[c] = PartnerOf[b] /\ PeriodOf[c] = PeriodOf[b])
        <4>1. old # NoBatch => old \in SamePeriod(b)
          BY <2>1
        <4>2. c # b /\ c # old
          BY <3>2, <4>1 DEF SamePeriod, NoBatch, Batches
        <4>3. SamePeriod(c)' = SamePeriod(c)
          BY <1>a, <2>1, <3>2, <4>1 DEF SamePeriod, NoBatch, Batches
        <4>4. state[c] \in Past
          BY <2>1, <2>4, <4>2
        <4> QED
          BY <4>3, <4>4 DEF OneCurrentPortfolio
      <3> QED
        BY <3>1, <3>2
    <2> QED
      BY <2>2, <2>4 DEF OneCurrentPortfolio
  <1> QED
    BY <1>1, <1>2, OnlyApprovals

(* PdfImport!OneCurrentPortfolio: an approval and the replacements that     *)
(* follow leave each partner and exact period with one approved portfolio,  *)
(* to which the partner's active links belong.                              *)
THEOREM PortfolioUnique == Spec => []OneCurrentPortfolio
  <1>1. Init => TypeInv /\ OneCurrentPortfolio
    BY TypeInit DEF Init, OneCurrentPortfolio
  <1>2. TypeInv /\ OneCurrentPortfolio /\ [Next]_vars => (TypeInv /\ OneCurrentPortfolio)'
    BY TypeNext, PortfolioNext
  <1> QED
    BY <1>1, <1>2, PTL DEF Spec

(* PdfImport!OneApprovalPerMonth holds where two uploads of a partner that  *)
(* begin on one day are of one period, as those of months that are over: it *)
(* is the month in progress, which ends on the day of the upload, that may  *)
(* be approved twice.                                                       *)
THEOREM PastMonthsOnce ==
    ASSUME \A b, c \in Batches :
             PartnerOf[b] = PartnerOf[c] /\ PeriodOf[b][1] = PeriodOf[c][1]
               => PeriodOf[b] = PeriodOf[c]
    PROVE  Spec => []OneApprovalPerMonth
  <1>1. OneCurrentPortfolio => OneApprovalPerMonth
    <2> SUFFICES ASSUME OneCurrentPortfolio,
                        NEW b \in Batches, NEW c \in Batches,
                        state[b] = "approved", state[c] = "approved",
                        PartnerOf[b] = PartnerOf[c], PeriodOf[b][1] = PeriodOf[c][1]
                 PROVE  b = c
      BY DEF OneApprovalPerMonth
    <2>1. PeriodOf[b] = PeriodOf[c]
      OBVIOUS
    <2>2. b \in SamePeriod(b) /\ c \in SamePeriod(b)
      BY <2>1 DEF SamePeriod
    <2>3. PICK d \in Batches : SamePeriod(b) = {d}
      BY DEF OneCurrentPortfolio
    <2> QED
      BY <2>2, <2>3
  <1> QED
    BY <1>1, PortfolioUnique, PTL

-----------------------------------------------------------------------------
(* The register of portfolios: to it, an approval with the batch it asks to *)
(* replace is the approval of the slot, and everything else is nothing.     *)

LEMMA RegisterApproval ==
    ASSUME TypeInv,
           NEW u \in Users, NEW b \in Batches, NEW old \in Batches \cup {NoBatch},
           Approve(u, b, old)
    PROVE  Portfolios!Approve(b)
  <1>1. state \in [Batches -> States] /\ NoBatch \notin Batches
    BY DEF TypeInv, TypeOK, NoBatch, Batches
  <1>2. /\ state' = [c \in Batches |-> IF c = b THEN "approved"
                                       ELSE IF c = old THEN "superseded" ELSE state[c]]
        /\ SamePeriod(b) = {old} \ {NoBatch}
        /\ state[b] = "needs_review"
    BY DEF Approve, Approvable
  <1>3. \A c \in Batches : Slot[c] = Slot[b]
                           <=> PartnerOf[c] = PartnerOf[b] /\ PeriodOf[c] = PeriodOf[b]
    BY DEF Slot
  <1>4. {c \in Approved : Slot[c] = Slot[b]} = SamePeriod(b)
    BY <1>3 DEF Approved, SamePeriod
  <1>5. old # NoBatch => old \in Batches /\ state[old] = "approved"
    BY <1>2 DEF SamePeriod
  <1>6. b # old
    BY <1>1, <1>2, <1>5
  <1>7. Approved' = (Approved \ SamePeriod(b)) \cup {b}
    BY <1>1, <1>2, <1>5, <1>6 DEF Approved
  <1>8. Replaced' = Replaced \cup SamePeriod(b)
    BY <1>1, <1>2, <1>5, <1>6 DEF Replaced
  <1>9. b \notin Approved \cup Replaced
    BY <1>2 DEF Approved, Replaced
  <1> QED
    BY <1>4, <1>7, <1>8, <1>9 DEF Portfolios!Approve

LEMMA RegisterNext ==
    ASSUME TypeInv, [Next]_vars
    PROVE  [Portfolios!Next]_<<Approved, Replaced>>
  <1>1. ASSUME \A b \in Batches : state'[b] # state[b] =>
                 {state[b], state'[b]} \cap {"approved", "superseded"} = {}
        PROVE  UNCHANGED <<Approved, Replaced>>
    <2>1. \A b \in Batches : /\ state'[b] = "approved" <=> state[b] = "approved"
                             /\ state'[b] = "superseded" <=> state[b] = "superseded"
      BY <1>1
    <2> QED
      BY <2>1 DEF Approved, Replaced
  <1> QED
    BY <1>1, OnlyApprovals, RegisterApproval DEF Portfolios!Next

(* PdfImport!RegisterKept: whoever approves, from whichever request, what   *)
(* reports rest on is a register with one current portfolio for a partner   *)
(* and period, whose replaced portfolios stay replaced.                     *)
THEOREM RegisterImplemented == Spec => RegisterKept
  <1>1. Init => Portfolios!Init
    BY DEF Init, Portfolios!Init, Approved, Replaced
  <1>2. TypeInv /\ [Next]_vars => [Portfolios!Next]_<<Approved, Replaced>>
    BY RegisterNext
  <1> QED
    BY <1>1, <1>2, TypeInit, TypeNext, PTL DEF Spec, RegisterKept, Portfolios!Register

-----------------------------------------------------------------------------
(* What a step may do to a batch. *)

LEMMA LawfulSteps ==
    /\ Lawful("absent", "quarantined")
    /\ \A to \in {"parsed", "needs_review", "rejected", "failed"} : Lawful("quarantined", to)
    /\ Lawful("parsed", "needs_review")
    /\ \A to \in {"approved", "rejected"} : Lawful("needs_review", to)
    /\ Lawful("approved", "superseded")
  <1>1. "parsing" \in Allowed["quarantined"] \ States
    BY DEF Allowed, States
  <1>2. /\ Allowed["absent"] = {"quarantined"}
        /\ Allowed["quarantined"] = {"parsing", "rejected", "failed"}
        /\ Allowed["parsing"] = {"parsed", "needs_review", "rejected", "failed"}
        /\ Allowed["parsed"] = {"reconciling", "needs_review"}
        /\ Allowed["needs_review"] = {"reconciling", "approved", "rejected", "superseded"}
        /\ Allowed["approved"] = {"superseded"}
    BY DEF Allowed, States
  <1> QED
    BY <1>1, <1>2 DEF Lawful

LEMMA LifecycleStep ==
    TypeInv /\ [Next]_vars => \A b \in Batches :
        /\ state'[b] # state[b] => Lawful(state[b], state'[b])
        /\ state[b] \in {"approved", "rejected", "superseded"} =>
             UNCHANGED <<manifest[b], runs[b], latest[b], corrected[b]>>
  <1> DEFINE Step == \A b \in Batches :
        /\ state'[b] # state[b] => Lawful(state[b], state'[b])
        /\ state[b] \in {"approved", "rejected", "superseded"} =>
             UNCHANGED <<manifest[b], runs[b], latest[b], corrected[b]>>
  <1> SUFFICES ASSUME TypeInv, [Next]_vars PROVE Step
    OBVIOUS
  <1>a. /\ state \in [Batches -> States]
        /\ manifest \in [Batches -> {"none", "clean", "flagged", "empty"}]
        /\ runs \in [Batches -> SUBSET Snapshots]
        /\ latest \in [Batches -> Runs]
        /\ corrected \in [Batches -> SUBSET Snapshots]
        /\ Busy
    BY DEF TypeInv, TypeOK
  <1> USE DEF review
  <1>1. ASSUME NEW b \in Batches, Upload(b) PROVE Step
    BY <1>1, <1>a, LawfulSteps DEF Upload
  <1>2. ASSUME NEW w \in Workers, Parse(w) PROVE Step
    BY <1>2, <1>a, LawfulSteps DEF Parse, Busy
  <1>3. ASSUME NEW w \in Workers, Persist(w) PROVE Step
    BY <1>3, <1>a, LawfulSteps DEF Persist, Reconcilable, Busy
  <1>4. ASSUME NEW u \in Users, NEW b \in Batches, Reject(u, b) PROVE Step
    BY <1>4, <1>a, LawfulSteps DEF Reject
  <1>5. ASSUME NEW u \in Users, NEW b \in Batches, CorrectItem(u, b) PROVE Step
    BY <1>5, <1>a DEF CorrectItem
  <1>6. ASSUME NEW u \in Users, NEW b \in Batches, NEW old \in Batches \cup {NoBatch},
               Approve(u, b, old)
        PROVE  Step
    <2>1. old \in Batches => state[old] = "approved"
      BY <1>6 DEF Approve, SamePeriod, NoBatch, Batches
    <2> QED
      BY <1>6, <1>a, <2>1, LawfulSteps DEF Approve, Approvable
  <1>7. CASE UNCHANGED <<state, manifest, runs, latest, corrected>>
    BY <1>7
  <1> QED
    BY <1>1, <1>2, <1>3, <1>4, <1>5, <1>6, <1>7
    DEF Next, WorkerStep, Decide, vars, LeaseExpires, BackoffElapses, SetPilot, LoseBeforeParse,
        SkipParse, Collect, LoseBeforePersist, PersistFails, Finish, Heartbeat, Crash, Claim,
        RetryFailed, OpenPage, RequestReprocessing

(* PdfImport!LifecycleRespected: no handler attempts a transition outside   *)
(* ALLOWED_TRANSITIONS, and no worker touches what was decided.             *)
THEOREM LifecycleKept == Spec => LifecycleRespected
  <1>1. Init => TypeInv
    BY TypeInit
  <1>2. TypeInv /\ [Next]_vars => TypeInv'
    BY TypeNext
  <1>3. TypeInv /\ [Next]_vars => [\A b \in Batches :
        /\ state'[b] # state[b] => Lawful(state[b], state'[b])
        /\ state[b] \in {"approved", "rejected", "superseded"} =>
             UNCHANGED <<manifest[b], runs[b], latest[b], corrected[b]>>]_vars
    BY LifecycleStep
  <1> QED
    BY <1>1, <1>2, <1>3, PTL DEF Spec, LifecycleRespected

-----------------------------------------------------------------------------
(* The mapping needs to know more than the types: a row that does not exist *)
(* has not been tried, and a worker has a batch exactly while it is busy.   *)

NotTried == \A b \in Batches :
    state[b] = "absent" => status[b] = "pending" /\ attempts[b] = 0

FreeWhenIdle == \A w \in Workers : pc[w] = "idle" => job[w] = NoBatch

MapInv == TypeInv /\ NotTried /\ FreeWhenIdle

LEMMA MapInit == Init => MapInv
  BY TypeInit DEF Init, MapInv, NotTried, FreeWhenIdle

LEMMA MapTypes ==
    ASSUME MapInv
    PROVE  /\ state \in [Batches -> States]
           /\ status \in [Batches -> {"pending", "running", "succeeded", "failed"}]
           /\ attempts \in [Batches -> Nat]
           /\ \A b \in Batches : status[b] = "pending" => attempts[b] < MaxAttempts
           /\ owner \in [Batches -> Workers \cup {NoWorker}]
           /\ pc \in [Workers -> {"idle", "claimed", "collect", "persist",
                                  "finish_ok", "finish_failed"}]
           /\ job \in [Workers -> Batches \cup {NoBatch}]
           /\ \A w \in Workers : pc[w] # "idle" => job[w] \in Batches
           /\ \A w \in Workers : pc[w] = "idle" => job[w] = NoBatch
           /\ NoBatch \notin Batches
           /\ MaxAttempts \in Nat \ {0}
  BY CountsAssumption DEF MapInv, FreeWhenIdle, TypeInv, TypeOK, AttemptsLeft, Busy, Batches, NoBatch

-----------------------------------------------------------------------------
(* Rows that, to the queue, stay as they are; and rows that are asked for.  *)

Unmoved(b) ==
    /\ (state'[b] = "absent") <=> (state[b] = "absent")
    /\ UNCHANGED <<status[b], attempts[b], owner[b]>>

AskedFor(b) == state'[b] # "absent" /\ status'[b] = "pending" /\ attempts'[b] = 0

LEMMA MapSame ==
    ASSUME \A b \in Batches : Unmoved(b)
    PROVE  UNCHANGED <<Standing, Holder, Tries>>
  BY DEF Unmoved, Standing, Holder, Tries

LEMMA MapAsk ==
    ASSUME NEW S \in SUBSET Batches,
           \A b \in S : AskedFor(b),
           \A b \in Batches \ S : Unmoved(b),
           UNCHANGED job
    PROVE  ImportQueue!Ask(S)
  <1>1. Standing' = [b \in Batches |-> IF b \in S THEN "queued" ELSE Standing[b]]
    BY DEF AskedFor, Unmoved, Standing
  <1>2. Holder' = [b \in Batches |-> IF b \in S THEN NoWorker ELSE Holder[b]]
    BY DEF AskedFor, Unmoved, Holder
  <1>3. Tries' = [b \in Batches |-> IF b \in S THEN 0 ELSE Tries[b]]
    BY DEF AskedFor, Unmoved, Tries
  <1> QED
    BY <1>1, <1>2, <1>3 DEF ImportQueue!Ask

(* A worker that ends its attempt without a word about the row.             *)
LEMMA MapGone ==
    ASSUME MapInv, NEW w \in Workers, pc[w] # "idle", Leave(w),
           \A b \in Batches : Unmoved(b)
    PROVE  ImportQueue!Leave(w)
  <1>1. job[w] # NoBatch /\ job' = [job EXCEPT ![w] = NoBatch]
    BY MapTypes DEF Leave
  <1>2. UNCHANGED <<Standing, Holder, Tries>>
    BY MapSame
  <1> QED
    BY <1>1, <1>2 DEF ImportQueue!Leave

(* A worker that settles the row it holds.                                  *)
LEMMA MapSettled ==
    ASSUME MapInv, NEW w \in Workers, pc[w] # "idle", Leave(w), HoldsLease(w),
           NEW outcome \in {"succeeded", AfterFailure(job[w])}, Settle(job[w], outcome),
           UNCHANGED attempts,
           \A b \in Batches : (state'[b] = "absent") <=> (state[b] = "absent")
    PROVE  ImportQueue!Leave(w)
  <1> DEFINE b == job[w]
             s == IF outcome = "succeeded" THEN "done"
                  ELSE IF outcome = "pending" THEN "queued" ELSE "failed"
  <1>a. /\ b \in Batches
        /\ status[b] = "running" /\ owner[b] = w
        /\ status' = [status EXCEPT ![b] = outcome]
        /\ owner' = [owner EXCEPT ![b] = NoWorker]
        /\ job' = [job EXCEPT ![w] = NoBatch]
        /\ outcome \in {"succeeded", "pending", "failed"}
    BY MapTypes DEF Leave, HoldsLease, Settle, AfterFailure
  <1>b. state[b] # "absent"
    BY <1>a DEF MapInv, NotTried
  <1>1. Standing[b] = "held" /\ Holder[b] = w /\ Tries[b] = attempts[b] /\ b # NoBatch
    BY <1>a, <1>b, MapTypes DEF Standing, Holder, Tries
  <1>2. s \in {"done"} \cup IF attempts[b] >= MaxAttempts THEN {"failed"} ELSE {"queued"}
    BY <1>a, MapTypes DEF AfterFailure
  <1>3. Standing' = [Standing EXCEPT ![b] = s]
    BY <1>a, <1>b, MapTypes DEF Standing
  <1>4. Tries' = [Tries EXCEPT ![b] = IF s = "queued" THEN @ ELSE 0]
    BY <1>a, <1>1, MapTypes DEF Tries
  <1>5. Holder' = [Holder EXCEPT ![b] = NoWorker]
    BY <1>a, MapTypes DEF Holder
  <1> HIDE DEF b, s
  <1>6. /\ b # NoBatch
        /\ job' = [job EXCEPT ![w] = NoBatch]
        /\ b = job[w]
    BY <1>a, <1>1 DEF b
  <1> QED
    BY <1>1, <1>2, <1>3, <1>4, <1>5, <1>6 DEF ImportQueue!Leave, ImportQueue!Unserved

(* A claim: abandoned rows go back, and one row may become the worker's.    *)
LEMMA MapClaim ==
    ASSUME MapInv, NEW w \in Workers, NEW locked \in SUBSET Batches, Claim(w, locked)
    PROVE  \E picked \in Batches \cup {NoBatch} : ImportQueue!Take(w, Abandoned(locked), picked)
  <1> DEFINE back == Abandoned(locked)
  <1>1. PICK picked \in Ready(locked) \cup {NoBatch} : Take(w, picked, back)
    BY DEF Claim
  <1>2. /\ pc[w] = "idle" /\ job[w] = NoBatch
        /\ UNCHANGED state
    BY MapTypes DEF Claim
  <1>3. /\ picked \in Batches \cup {NoBatch}
        /\ \A b \in back : b \in Batches /\ status[b] = "running" /\ state[b] # "absent"
        /\ picked # NoBatch =>
             /\ state[picked] # "absent"
             /\ attempts[picked] < MaxAttempts
             /\ status[picked] = IF picked \in back THEN "running" ELSE "pending"
    <2>1. picked # NoBatch => picked \in Ready(locked)
      OBVIOUS
    <2>2. \A b \in back : b \in Batches /\ status[b] = "running"
      BY DEF Abandoned
    <2>3. \A b \in Batches : status[b] = "running" => state[b] # "absent"
      BY DEF MapInv, NotTried
    <2>4. picked # NoBatch =>
             /\ picked \in Batches
             /\ state[picked] # "absent"
             /\ IF picked \in back THEN AfterFailure(picked) = "pending"
                ELSE status[picked] = "pending"
      BY <2>1 DEF Ready, Claimable
    <2>5. \A b \in Batches : AfterFailure(b) = "pending" => attempts[b] < MaxAttempts
      BY MapTypes DEF AfterFailure
    <2> QED
      BY <2>2, <2>3, <2>4, <2>5, MapTypes
  <1> HIDE DEF back
  <1>4. /\ \A b \in back : Standing[b] = "held" /\ Tries[b] = attempts[b]
        /\ picked # NoBatch =>
             /\ Tries[picked] = attempts[picked]
             /\ picked \notin back => Standing[picked] = "queued"
    BY <1>3 DEF Standing, Tries
  <1>5. Standing' = [b \in Batches |-> IF b = picked THEN "held"
                       ELSE IF b \in back
                         THEN IF Tries[b] >= MaxAttempts THEN "failed" ELSE "queued"
                         ELSE Standing[b]]
    <2>1. ASSUME NEW b \in Batches
          PROVE  Standing'[b] = IF b = picked THEN "held"
                       ELSE IF b \in back
                         THEN IF attempts[b] >= MaxAttempts THEN "failed" ELSE "queued"
                         ELSE Standing[b]
      BY <1>1, <1>2, <1>3, MapTypes DEF Take, Standing, AfterFailure
    <2>2. Standing' = [b \in Batches |-> Standing'[b]]
      BY DEF Standing
    <2> QED
      BY <1>4, <2>1, <2>2
  <1>6. Holder' = [b \in Batches |-> IF b = picked THEN w
                     ELSE IF b \in back THEN NoWorker ELSE Holder[b]]
    BY <1>1, <1>3, MapTypes DEF Take, Holder, AfterFailure
  <1>7. Tries' = [b \in Batches |-> IF b = picked THEN Tries[b] + 1
                    ELSE IF b \in back /\ Tries[b] >= MaxAttempts THEN 0 ELSE Tries[b]]
    <2>1. ASSUME NEW b \in Batches
          PROVE  Tries'[b] = IF b = picked THEN attempts[b] + 1
                    ELSE IF b \in back /\ attempts[b] >= MaxAttempts THEN 0 ELSE Tries[b]
      BY <1>1, <1>3, MapTypes DEF Take, Tries, AfterFailure
    <2>2. Tries' = [b \in Batches |-> Tries'[b]]
      BY DEF Tries
    <2> QED
      BY <1>3, <1>4, <2>1, <2>2, MapTypes
  <1>8. job' = [job EXCEPT ![w] = picked]
    BY <1>1, <1>2, MapTypes DEF Take
  <1>9. picked \in back => "queued" \in IF Tries[picked] >= MaxAttempts THEN {"failed"} ELSE {"queued"}
    BY <1>3, <1>4, MapTypes
  <1>10. ImportQueue!Take(w, back, picked)
    BY <1>2, <1>3, <1>4, <1>5, <1>6, <1>7, <1>8, <1>9
    DEF ImportQueue!Take, ImportQueue!Unserved
  <1> QED
    BY <1>3, <1>10 DEF back

-----------------------------------------------------------------------------
(* Every step, for the queue.                                               *)

LEMMA MapNext ==
    MapInv /\ [Next]_vars => (NotTried /\ FreeWhenIdle)' /\ [ImportQueue!Next]_(ImportQueue!qvars)
  <1> DEFINE Kept == (NotTried /\ FreeWhenIdle)'
             Mapped == [ImportQueue!Next]_(ImportQueue!qvars)
  <1> SUFFICES ASSUME MapInv, [Next]_vars PROVE Kept /\ Mapped
    OBVIOUS
  <1>a. NotTried /\ FreeWhenIdle
    BY DEF MapInv
  <1> USE DEF queue, workers, review, history
  (* A step that leaves the rows' part in the queue, and the workers' hold. *)
  <1>b. ASSUME UNCHANGED <<status, attempts, owner, job>>,
               \A b \in Batches : (state'[b] = "absent") <=> (state[b] = "absent"),
               \A w \in Workers : pc'[w] = "idle" => pc[w] = "idle"
        PROVE  Kept /\ Mapped
    <2>1. UNCHANGED <<Standing, Holder, Tries>>
      BY <1>b, MapSame DEF Unmoved
    <2>2. Kept
      BY <1>a, <1>b DEF NotTried, FreeWhenIdle
    <2> QED
      BY <1>b, <2>1, <2>2 DEF ImportQueue!qvars
  <1>1. ASSUME NEW b \in Batches, Upload(b) PROVE Kept /\ Mapped
    <2>1. /\ \A c \in Batches \ {b} : Unmoved(c)
          /\ AskedFor(b)
          /\ UNCHANGED <<job, pc>>
      BY <1>1, <1>a, MapTypes DEF Upload, Unmoved, AskedFor, NotTried
    <2>2. ImportQueue!Ask({b})
      BY <2>1, MapAsk
    <2>3. Kept
      BY <2>1, <1>a DEF NotTried, FreeWhenIdle, Unmoved, AskedFor
    <2> QED
      BY <2>2, <2>3 DEF ImportQueue!Next
  <1>2. ASSUME NEW locked \in SUBSET Batches, RetryFailed(locked) PROVE Kept /\ Mapped
    <2> DEFINE S == {b \in Batches \ locked : InScope(b) /\ status[b] = "failed"}
    <2>1. /\ \A c \in Batches \ S : Unmoved(c)
          /\ \A c \in S : AskedFor(c)
          /\ UNCHANGED <<job, pc>>
      BY <1>2, <1>a, MapTypes DEF RetryFailed, Unmoved, AskedFor, NotTried
    <2>2. ImportQueue!Ask(S)
      <3> HIDE DEF S
      <3>1. S \in SUBSET Batches
        BY DEF S
      <3> QED
        BY <2>1, <3>1, MapAsk
    <2>3. Kept
      BY <2>1, <1>a DEF NotTried, FreeWhenIdle, Unmoved, AskedFor
    <2> QED
      BY <2>2, <2>3 DEF ImportQueue!Next
  <1>3. ASSUME NEW u \in Users, NEW b \in Batches, RequestReprocessing(u, b)
        PROVE  Kept /\ Mapped
    <2>1. /\ \A c \in Batches \ {b} : Unmoved(c)
          /\ AskedFor(b)
          /\ UNCHANGED <<job, pc>>
      BY <1>3, MapTypes DEF RequestReprocessing, Unmoved, AskedFor, Claimable
    <2>2. ImportQueue!Ask({b})
      BY <2>1, MapAsk
    <2>3. Kept
      BY <2>1, <1>a DEF NotTried, FreeWhenIdle, Unmoved, AskedFor
    <2> QED
      BY <2>2, <2>3 DEF ImportQueue!Next
  <1>4. ASSUME NEW w \in Workers, NEW locked \in SUBSET Batches, Claim(w, locked)
        PROVE  Kept /\ Mapped
    <2>1. Mapped
      <3>1. PICK picked \in Batches \cup {NoBatch} :
              ImportQueue!Take(w, Abandoned(locked), picked)
        BY <1>4, MapClaim
      <3>2. Abandoned(locked) \in SUBSET Batches
        BY DEF Abandoned
      <3> QED
        BY <3>1, <3>2 DEF ImportQueue!Next
    <2>2. NotTried'
      BY <1>4, <1>a, MapTypes DEF Claim, Take, NotTried, Ready, Abandoned, Claimable
    <2>3. FreeWhenIdle'
      BY <1>4, <1>a, MapTypes DEF Claim, Take, FreeWhenIdle
    <2> QED
      BY <2>1, <2>2, <2>3
  (* A worker that leaves.                                                  *)
  <1>c. ASSUME NEW w \in Workers, pc[w] # "idle", Leave(w),
               \A b \in Batches : (state'[b] = "absent") <=> (state[b] = "absent"),
               \/ UNCHANGED <<status, attempts, owner>>
               \/ /\ HoldsLease(w)
                  /\ \E outcome \in {"succeeded", AfterFailure(job[w])} : Settle(job[w], outcome)
                  /\ UNCHANGED attempts
        PROVE  Kept /\ Mapped
    <2>1. ImportQueue!Leave(w)
      <3>1. CASE UNCHANGED <<status, attempts, owner>>
        BY <1>c, <3>1, MapGone DEF Unmoved
      <3>2. CASE /\ HoldsLease(w)
                 /\ \E outcome \in {"succeeded", AfterFailure(job[w])} : Settle(job[w], outcome)
                 /\ UNCHANGED attempts
        BY <1>c, <3>2, MapSettled
      <3> QED
        BY <1>c, <3>1, <3>2
    <2>2. NotTried'
      BY <1>c, <1>a, MapTypes DEF NotTried, HoldsLease, Settle
    <2>3. FreeWhenIdle'
      BY <1>c, <1>a, MapTypes DEF FreeWhenIdle, Leave
    <2> QED
      BY <2>1, <2>2, <2>3 DEF ImportQueue!Next
  <1>5. ASSUME NEW w \in Workers, LoseBeforeParse(w) \/ LoseBeforePersist(w) \/ Crash(w)
        PROVE  Kept /\ Mapped
    BY <1>5, <1>c DEF LoseBeforeParse, LoseBeforePersist, Crash
  <1>6. ASSUME NEW w \in Workers, Persist(w) PROVE Kept /\ Mapped
    <2>1. \A b \in Batches : (state'[b] = "absent") <=> (state[b] = "absent")
      BY <1>6, MapTypes DEF Persist, Reconcilable
    <2> QED
      BY <1>6, <1>c, <2>1 DEF Persist, OwnsLease
  <1>7. ASSUME NEW w \in Workers, Finish(w) PROVE Kept /\ Mapped
    BY <1>7, <1>c DEF Finish, OwnsLease
  (* A worker that goes on.                                                 *)
  <1>8. ASSUME NEW w \in Workers, Parse(w) PROVE Kept /\ Mapped
    BY <1>8, <1>b, MapTypes DEF Parse, Go
  <1>9. ASSUME NEW w \in Workers,
               SkipParse(w) \/ Collect(w) \/ PersistFails(w) \/ Heartbeat(w)
        PROVE  Kept /\ Mapped
    BY <1>9, <1>b, MapTypes DEF SkipParse, Collect, PersistFails, Heartbeat, Go
  (* People.                                                                *)
  <1>10. ASSUME NEW u \in Users, NEW b \in Batches, Reject(u, b) PROVE Kept /\ Mapped
    BY <1>10, <1>b, MapTypes DEF Reject
  <1>11. ASSUME NEW u \in Users, NEW b \in Batches, NEW old \in Batches \cup {NoBatch},
                Approve(u, b, old)
         PROVE  Kept /\ Mapped
    <2>1. old \in Batches => state[old] = "approved"
      BY <1>11, MapTypes DEF Approve, SamePeriod
    <2> QED
      BY <1>11, <1>b, <2>1, MapTypes DEF Approve, Approvable
  <1>12. CASE UNCHANGED <<state, status, attempts, owner, job, pc>>
    BY <1>12, <1>b
  <1> QED
    BY <1>1, <1>2, <1>3, <1>4, <1>5, <1>6, <1>7, <1>8, <1>9, <1>10, <1>11, <1>12
    DEF Next, WorkerStep, Decide, vars, LeaseExpires, BackoffElapses, SetPilot, OpenPage, CorrectItem

(* PdfImport!ImportQueueKept: however workers, crashes, lost leases, the    *)
(* operator and the reviewers interleave, only the worker whose attempt     *)
(* counts settles a batch, and none is attempted more than it was asked for.*)
THEOREM ImportQueueImplemented == Spec => ImportQueueKept
  <1>1. Init => MapInv /\ ImportQueue!Init
    <2>1. Init => ImportQueue!Init
      BY DEF Init, ImportQueue!Init, Standing, Holder, Tries
    <2> QED
      BY <2>1, MapInit
  <1>2. MapInv /\ [Next]_vars => MapInv'
    BY MapNext, TypeNext DEF MapInv
  <1>3. MapInv /\ [Next]_vars => [ImportQueue!Next]_(ImportQueue!qvars)
    BY MapNext
  <1> QED
    BY <1>1, <1>2, <1>3, PTL DEF Spec, ImportQueueKept, ImportQueue!Queue

-----------------------------------------------------------------------------
(* PdfImport!OutOfScopeUntouched: disabling a partner's pilot stops every   *)
(* worker and every page that had got hold of one of its batches before.    *)
THEOREM ScopeRespected == Spec => OutOfScopeUntouched
  <1> DEFINE Step == \A b \in Batches : ~InScope(b) =>
               /\ status'[b] = "running" => status[b] = "running"
               /\ UNCHANGED <<rev[b], runs[b], latest[b], linked[b]>>
  <1>1. ASSUME TypeInv, [Next]_vars PROVE Step
    <2>a. /\ rev \in [Batches -> Nat]
          /\ status \in [Batches -> {"pending", "running", "succeeded", "failed"}]
          /\ runs \in [Batches -> SUBSET Snapshots]
          /\ latest \in [Batches -> Runs]
          /\ linked \in [Batches -> SUBSET Lawsuits]
          /\ Busy
      BY <1>1 DEF TypeInv, TypeOK
    <2> USE DEF queue, review, workers, history
    <2>1. ASSUME NEW w \in Workers, Persist(w) PROVE Step
      <3>1. /\ job[w] \in Batches /\ InScope(job[w])
            /\ \A b \in Batches \ {job[w]} :
                 UNCHANGED <<status[b], rev[b], runs[b], latest[b], linked[b]>>
        BY <2>1, <2>a DEF Persist, Settle, Busy
      <3> QED
        BY <3>1
    <2>2. ASSUME NEW w \in Workers, Finish(w) PROVE Step
      <3>1. \A b \in Batches : status'[b] = "running" => status[b] = "running"
        BY <2>2, <2>a DEF Finish, Settle, AfterFailure
      <3> QED
        BY <2>2, <3>1 DEF Finish
    <2>3. ASSUME NEW w \in Workers, NEW locked \in SUBSET Batches, Claim(w, locked) PROVE Step
      <3>1. PICK picked \in Ready(locked) \cup {NoBatch} : Take(w, picked, Abandoned(locked))
        BY <2>3 DEF Claim
      <3>2. \A b \in Batches : ~InScope(b) => b # picked /\ b \notin Abandoned(locked)
        BY DEF Ready, Abandoned, NoBatch, Batches
      <3> QED
        BY <2>3, <2>a, <3>1, <3>2 DEF Claim, Take
    <2>4. ASSUME NEW locked \in SUBSET Batches, RetryFailed(locked) PROVE Step
      BY <2>4, <2>a DEF RetryFailed
    <2>5. ASSUME NEW u \in Users, NEW b \in Batches, Reject(u, b) PROVE Step
      BY <2>5, <2>a DEF Reject, Submits
    <2>6. ASSUME NEW u \in Users, NEW b \in Batches, RequestReprocessing(u, b) PROVE Step
      BY <2>6, <2>a DEF RequestReprocessing, Submits
    <2>7. ASSUME NEW u \in Users, NEW b \in Batches, CorrectItem(u, b) PROVE Step
      BY <2>7, <2>a DEF CorrectItem, Submits
    <2>8. ASSUME NEW u \in Users, NEW b \in Batches, NEW old \in Batches \cup {NoBatch},
                 Approve(u, b, old)
          PROVE  Step
      <3>1. InScope(b) /\ (old \in Batches => InScope(old))
        BY <2>8 DEF Approve, Submits, SamePeriod, NoBatch, Batches, InScope
      <3> QED
        BY <2>8, <2>a, <3>1 DEF Approve
    <2>9. CASE UNCHANGED <<status, rev, runs, latest, linked>>
      BY <2>9
    <2> QED
      BY <1>1, <2>1, <2>2, <2>3, <2>4, <2>5, <2>6, <2>7, <2>8, <2>9
      DEF Next, WorkerStep, Decide, vars, Upload, LeaseExpires, BackoffElapses, SetPilot,
          LoseBeforeParse, Parse, SkipParse, Collect, LoseBeforePersist, PersistFails, Heartbeat,
          Crash, OpenPage, Go
  <1>2. Init => TypeInv
    BY TypeInit
  <1>3. TypeInv /\ [Next]_vars => TypeInv'
    BY TypeNext
  <1>4. TypeInv /\ [Next]_vars => [Step]_vars
    BY <1>1
  <1> QED
    BY <1>2, <1>3, <1>4, PTL DEF Spec, OutOfScopeUntouched

=============================================================================
