----------------------------- MODULE AdvboxSync -----------------------------
(* The synchronisation of one collection into the database: a resumable run *)
(* whose pages are each one transaction, after failures, crashes and partial*)
(* executions, and the reprocessing of references that were missing.  One   *)
(* operator runs it; the rows its records refer to arrive meanwhile.        *)
EXTENDS AdvboxSource

CONSTANTS
    Resource,   \* customers, lawsuits, transactions or last_movements
    References,  \* rows that records may refer to
    RefersTo,    \* [Records -> SUBSET References]
    MaxBatches   \* bound: batch keys used

ASSUME SyncAssumption ==
    /\ MaxBatches \in Nat \ {0}
    /\ Resource \in {"customers", "lawsuits", "transactions", "last_movements"}
    /\ RefersTo \in [Records -> SUBSET References]
    /\ Resource = "customers" => \A r \in Records : RefersTo[r] = {}

VARIABLES
    known,  \* references that have a row
    rows,   \* rows of the collection, with the references they are linked to
    run,    \* the SyncRun of the present batch key, with its open SyncErrors
    job,    \* the execution that is under way
    batch   \* how many batch keys there were

syncVars == <<known, rows, run, job, batch>>

Row == [id : Ids, v : Versions, links : SUBSET References]
Offsets == 0 .. Cardinality(Ids)
Totals == {Unread} \cup Offsets
Codes == {"missing", "page"}

NoRun == [status |-> "none", next |-> 0, total |-> Unread, fetched |-> FALSE,
          errors |-> {}, born |-> 0]
NoJob == [on |-> FALSE, offset |-> 0, total |-> Unread, tries |-> 0, read |-> FALSE,
          heals |-> FALSE]

SyncTypeOK ==
    /\ known \subseteq References
    /\ rows \subseteq Row
    /\ run \in [status : {"none", "running", "partial", "failed", "succeeded"},
            next : Offsets, total : Totals, fetched : BOOLEAN,
            errors : SUBSET [at : Offsets, code : Codes], born : 0 .. MaxChanges]
    /\ job \in [on : BOOLEAN, offset : Offsets, total : Totals, tries : 0 .. MaxRetries,
            read : BOOLEAN, heals : BOOLEAN]
    /\ batch \in 1 .. MaxBatches

SyncInit ==
    /\ known \in SUBSET References
    /\ rows = {}
    /\ run = NoRun
    /\ job = NoJob
    /\ batch = 1

-----------------------------------------------------------------------------
(* Beginning *)

Least(S) == CHOOSE n \in S : \A m \in S : n <= m

Begin(offset, heals) ==
    /\ job' = [NoJob EXCEPT !.on = TRUE, !.offset = offset, !.total = run.total,
                            !.heals = heals]
    /\ run' = [run EXCEPT !.status = "running",
                          !.born = IF run.status = "none" THEN changes ELSE @]
    /\ UNCHANGED <<sourceVars, known, rows, batch>>

(* initial and incremental: a new run, or the old one from where it got to. *)
Start ==
    /\ ~job.on
    /\ run.status # "succeeded"
    /\ Begin(run.next, FALSE)

(* Every reference of the source as it is has a row.                        *)
Resolvable == \A i \in DOMAIN source : RefersTo[source[i]] \subseteq known

(* Fault: reprocessing resumes where the run got to.                        *)
FirstPendingSkipped == run.next

FirstPending == Least({e.at : e \in run.errors})

(* reprocess: from the first page with an open error.                       *)
Reprocess ==
    /\ ~job.on
    /\ run.status # "none"
    /\ run.errors # {}
    /\ Begin(FirstPending, Resolvable /\ changes = run.born)

(* A new batch key reconciles everything again.                             *)
NewBatch ==
    /\ ~job.on
    /\ run.status # "none"
    /\ batch < MaxBatches
    /\ batch' = batch + 1
    /\ run' = NoRun
    /\ UNCHANGED <<sourceVars, known, rows, job>>

ReferenceArrives ==
    /\ \E c \in References \ known : known' = known \cup {c}
    /\ UNCHANGED <<sourceVars, rows, run, job, batch>>

-----------------------------------------------------------------------------
(* Pages *)

Wanted == job.on /\ (job.total = Unread \/ job.offset < job.total)

(* The row a record becomes.  A movement without its lawsuit becomes none.  *)
Upserted(r) ==
    IF Resource = "last_movements" /\ RefersTo[r] \ known # {} THEN {}
    ELSE {[id |-> r.id, v |-> r.v, links |-> RefersTo[r] \cap known]}

(* The row a record replaces.  A movement that reads otherwise is another.  *)
Replaced(r, old) == {o \in old : /\ o.id = r.id
                                 /\ Resource = "last_movements" => o.v = r.v}

Stored(old, records) ==
    LET fresh == UNION {Upserted(records[i]) : i \in DOMAIN records}
        stale == UNION {IF Upserted(records[i]) = {} THEN {}
                        ELSE Replaced(records[i], old) : i \in DOMAIN records}
    IN  (old \ stale) \cup fresh

(* Fault: a record whose reference is missing is stored without a trace.    *)
MissingUnnoticed(records, offset) == {}

Missing(records, offset) ==
    {[at |-> offset, code |-> "missing"] :
        i \in {j \in DOMAIN records : RefersTo[records[j]] \ known # {}}}

(* One transaction: the errors of the page are resolved, its records stored,*)
(* missing references noted, and the run moves on.                          *)
ReadPage ==
    /\ Wanted
    /\ ~Refused(job.offset, job.total)
    /\ LET page == Page(job.offset) IN
         /\ rows' = Stored(rows, page)
         /\ run' = [run EXCEPT !.total = Len(source),
                               !.next = job.offset + Len(page),
                               !.fetched = @ \/ page # <<>>,
                               !.errors = {e \in @ : e.at # job.offset}
                                            \cup Missing(page, job.offset)]
         /\ job' = [job EXCEPT !.total = Len(source), !.offset = @ + Len(page), !.tries = 0,
                               !.read = TRUE]
    /\ UNCHANGED <<sourceVars, known, batch>>

(* Fault: a page that fails again and again is asked for again and again.   *)
RetryEndless ==
    /\ Wanted
    /\ job' = [job EXCEPT !.tries = @ + 1]
    /\ UNCHANGED <<sourceVars, known, rows, run, batch>>

(* A timeout, a 429 or a 5xx is tried again after a pause.                  *)
Retry ==
    /\ Wanted
    /\ job.tries < MaxRetries
    /\ job' = [job EXCEPT !.tries = @ + 1]
    /\ UNCHANGED <<sourceVars, known, rows, run, batch>>

(* The page cannot be had, is refused or holds what cannot be normalised:   *)
(* nothing of it is stored and the execution ends.                          *)
FailPage ==
    /\ Wanted
    /\ run' = [run EXCEPT !.status = IF run.fetched THEN "partial" ELSE "failed",
                          !.errors = @ \cup {[at |-> job.offset, code |-> "page"]}]
    /\ job' = NoJob
    /\ UNCHANGED <<sourceVars, known, rows, batch>>

AllRead == job.total # Unread /\ job.offset >= job.total

(* The end of the pages, or of those the operator allowed with --max-pages. *)
Finish ==
    /\ job.on
    /\ job.read \/ AllRead
    /\ run' = [run EXCEPT !.status = IF AllRead /\ run.errors = {} THEN "succeeded"
                                     ELSE "partial"]
    /\ job' = NoJob
    /\ UNCHANGED <<sourceVars, known, rows, batch>>

Crash ==
    /\ job.on
    /\ job' = NoJob
    /\ UNCHANGED <<sourceVars, known, rows, run, batch>>

SyncNext ==
    \/ Start \/ Reprocess \/ NewBatch \/ ReferenceArrives
    \/ ReadPage \/ Retry \/ FailPage \/ Finish \/ Crash
    \/ SourceChanges /\ UNCHANGED syncVars

SyncSpec == SourceInit /\ SyncInit /\ [][SyncNext]_<<sourceVars, syncVars>>
-----------------------------------------------------------------------------
(* Properties *)

(* A run that is reported succeeded, over however many failures, crashes,   *)
(* resumptions and reprocessings, has stored every record of a source that  *)
(* did not change meanwhile, linked to all the record refers to.            *)
SucceededComplete ==
    run.status = "succeeded" /\ changes = run.born =>
        \A i \in DOMAIN source :
            [id |-> source[i].id, v |-> source[i].v, links |-> RefersTo[source[i]]] \in rows

(* A reprocessing that reads to the end, of a source that is the same and   *)
(* whose references are there by now, leaves nothing to reprocess.          *)
ReprocessHeals ==
    [][job.on /\ ~job'.on /\ job.heals /\ AllRead /\ changes = run.born
       => run'.status # "partial"]_<<run, job>>
=============================================================================
