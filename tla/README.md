# Partner reports: a TLA+ model

The program receives, for each business partner of a law office, a PDF with the
partner's portfolio of lawsuits; reads it, matches every line against the Advbox
API, lets people review the result, and produces an HTML/PDF report for the
partner. It is a FastAPI portal and a few worker commands around one PostgreSQL
database (READ COMMITTED), a private file store, and a read-only external API.
Paths below are relative to `src/src/partner_reports/` of the repository.

## Inventory

| Component | State it keeps | Operations | Hard behaviour | Model |
|---|---|---|---|---|
| PDF import lifecycle and review (`pdf_imports/lifecycle.py`, `service.py`, `processing.py`, `review_service.py`) | the batch row: `state`, `review_revision`, manifest, reviews, case links | upload, parse, reject, request reprocessing, correct, approve and replace | decisions from stale pages; approvals that replace one another | `PdfImport`, implements `PortfolioRegister` |
| PDF processing queue (`pdf_imports/automation.py`) | the same row: `processing_status`, attempts, lease token, availability | claim with recovery, heartbeat, finish, operator's retry | leases that run out under a live worker; crashes; results computed outside any transaction | `PdfImport`, implements `LeaseQueue` |
| Reconciliation runs (`pdf_imports/reconciliation_service.py`) | runs and items, named by snapshot digest | create a run, re-date a run | a run becomes the latest again without a new revision | `PdfImport`, partly |
| Review pages (`web/routes/portal.py`, its templates) | the page in front of a person | show stage and forms, submit a form | what a page offers against what the service accepts | `PdfImport`, partly |
| Data scope (`partner_scope.py`) | `pilot_enabled` | enable, disable | changes while work is in flight | `PdfImport`, `ReportJobs` |
| Report generation (`jobs/automation.py`, `jobs/pdf_batch_reports.py`) | requests, versions | ask, daily cycle, claim, render, commit, retry | files and rows in two stores; a batch superseded while its report renders; version numbers read minutes before their use | `ReportJobs`, implements `LeaseQueue` |
| Batch report and revision key (`pdf_imports/reporting.py`) | none | read a portfolio, decide whether it changed | what was read is issued later | `ReportJobs` (when), `PartnerReports` (what) |
| Artifacts, restore, retention (`web/artifacts.py`, `retention.py`, `portal.py`) | files, version status | restore, purge | plan and execution apart | `ReportJobs`, partly |
| Snapshot scan (`pdf_imports/reconciliation.py`, `enrichment.py`) | checkpoints in memory | page, compare two scans | the source changes between pages | `SnapshotRead`; with the synchronisation, `Advbox` |
| Matching (`reconcile_items`) | none | classify items | ambiguity, repetition | `ItemMatching` (pure) |
| Synchronisation (`jobs/sync.py`, `sync_cli.py`) | run rows with offsets and errors | page, resume, reprocess | paging by offset over a moving source; partial failure | `AdvboxSync` |
| API client (`integrations/advbox/client.py`) | rate limiter | retry loop | retries; answers that contradict each other | `AdvboxSource` and its readers, partly |
| Linkage, report view (`domain/`, `jobs/homologation.py`) | link rows | who owns a lawsuit on a date | overlapping validity; one rule written three times | `Linkage` (pure), `PartnerReports` |
| Settlement (`reports/financial.py`, `full_report.py`) | entries, percentages | account for a case | rounding, negative balances | `Settlement` (pure), `PartnerReports` |
| Accounts and sessions (`web/accounts.py`, `web/security.py`, `web/user_cli.py`) | users, roles, sessions, links | log in, change, reset, deactivate, demote | requests authorised before they act; a command beside the portal | `Accounts` |
| Upload storage, parser, normalisation, rendering, homologation tools, shell scripts | files | | pure input or output | not modelled, see the end |

The parts meet in the database. The portal writes the batch row and commits; the
worker, started by a systemd timer that drains the queue again and again and
possibly by hand at the same time, finds the row by polling and takes it by
`SELECT ... FOR UPDATE SKIP LOCKED`. The worker works in three steps, two of them
transactions and the middle one minutes of paged HTTP reads; a pulse task renews its
lease meanwhile. People see pages rendered from one state of the database and post
forms that carry the `review_revision` they saw. An approved batch becomes a request
for a report, which a second queue of the same shape serves: it reads the portfolio
with its links, entries and percentage, prints for a while, and commits a version if
what it read still holds. The normalised rows it reads come from the same external
system by the synchronisation. Who may do any of it is decided by the accounts.

## Modules

    LeaseQueue        <---- implemented by ---- PdfImport     one upload, arrival to approval
                      <---- implemented by ---- ReportJobs    approval to report
    PortfolioRegister <---- implemented by ---- PdfImport     what approvals promise
                      <---- taken as given by - ReportJobs
    AdvboxSource <- AdvboxSync                                a collection into the database
                 <- SnapshotRead -> ItemMatching              a manifest against a collection
                 Advbox                                       both at the same time
    PartnerReports -> Linkage, Settlement                     whose lawsuits, what they say
    Accounts                                                  who may

`PdfImport` and `ReportJobs` meet in approvals, and the module they meet in is
`PortfolioRegister`: `PdfImport` implements it, with its pages, runs and people, and
`ReportJobs` has its `Approve` for the approvals that go on beside requests and
workers. What is proved of reports thus holds beside any uploads and reviews.
`ReportJobs` says *when* a report is issued, with a portfolio's content as a
number that changes; `PartnerReports` says *what* is issued, with the queue reduced to
one report that is read, rendered, and issued or not. Each `MC*` module gives a module
its instances.

One action is one transaction, or what a handler or worker does between two of them.
Whatever a worker, a page or a request carries from one to the next is state of its own.

### `LeaseQueue`: what a queue of leased work promises

Items are idle, queued, held, done or failed. Work is asked for, a worker takes it
(perhaps after giving up attempts that were abandoned), and ends its attempt: it settles the item if
it holds it, and otherwise changes nothing. Attempts are bounded. There are no tokens,
clocks, heartbeats or transactions; that both queues implement it (`ImportQueueKept`,
`QueueKept`) says those do their work. `EarlyEnd` tells the two apart: a
report attempt may find that further ones are pointless.

### `PortfolioRegister`: what approvals promise

Batches are current or past. An approval makes a batch that was neither the current one of
its slot, and what was current there past, in one step; nothing else happens. For `PdfImport`
a slot is a partner and an exact period, current is `approved` and past is `superseded`
(`RegisterKept`). `ReportJobs` is about one partner: the slots of different partners are
different, so what its batches see of the register is a register again. It adds to an
approval only the partner's lock, which the daily cycle may hold.

### `PdfImport`: one upload from arrival to approval

A transaction on a batch holds the lock of its row (a decision that of the partner
before it), so transactions on a batch are atomic steps.

| Variable | Code |
|---|---|
| `state`, `rev`, `manifest` | `PdfImportBatch.state`, `.review_revision`, the items and their quality flags (`clean`, `flagged`, `empty`) |
| `runs`, `latest`, `request`, `corrected` | reconciliation runs by snapshot digest, the one with the latest `created_at`, the run the last `reprocess_requested` review names, the runs all of whose exceptional items are corrected |
| `linked` | lawsuits of the batch's active `PartnerCaseLink`s |
| `status`, `attempts`, `owner`, `lease`, `wait` | the `processing_*` columns: status, attempt count, token, lease (none, live, expired), `available_at` in the future |
| `pc`, `job`, `snap` | where a worker process is in `process_one_pdf_import`, its batch, the snapshot it holds in memory |
| `scope` | the partners with the pilot enabled |
| `form` | the page each user last opened: batch, revision, run, forms offered |
| `asked`, `evidence`, `shown`, `fresh` | history for the properties only |

Actions and code: `Upload` (`receive_pdf`), `Claim` (`claim_pdf_import` with
`_recover_expired`), `Heartbeat`, `LoseBeforeParse`/`Parse`/`SkipParse` (the first
transaction), `Collect` (manifest keys, the two scans, the portfolio reads),
`LoseBeforePersist`/`Persist`/`PersistFails` (the second), `Finish` (`_finish`), `Crash`,
`RetryFailed` (the operator's command), `OpenPage` (`pdf_import_detail` with
`_batch_stage` and the template), `Reject`, `RequestReprocessing`, `CorrectItem`,
`Approve` (both approval routes: `old` is the batch the route asked to replace),
`SetPilot`.

Abstractions, all on data: a lease token is the worker incarnation that holds it (two
claims of one worker never overlap, and a crash drops the token with the incarnation); a
snapshot is its digest, and a digest decides how the items of a batch are classified
(`VerdictOf`), the items being seen together as all matched, some to correct, or some
beyond correction; rows another transaction has locked are the set that `SKIP LOCKED`
passes over, any set at any time; a partner's scope, status and deletion are one flag;
a page is rendered in one step although it is several reads, since what later reads could see
differently is refused by the revision, which is read first.

`OfferedOnly` chooses between people who use the buttons of their page and any
authenticated request with a current revision.

### `ReportJobs`: from an approved portfolio to a report

One partner: requests, versions and locks of two partners never meet.

| Variable | Code |
|---|---|
| `approved`, `retired` | batches in state `approved` and `superseded` |
| `content` | what the report of each source would show now: the revision key, or the revision of the synthetic portfolio |
| `asked` | a request between the portal's or the cycle's checks and its insert |
| `act`, `failed` | the active `ReportGenerationRequest` (a unique index allows one), or how the last one ended; what failed ones asked for |
| `versions` | `ReportVersion` rows in the order of their commits: source, key, number, status, whether the two files are there, `purged_at` |
| `plan` | the versions a running retention has chosen |
| `pc`, `mine`, `num` | each worker: where it is in `process_one` or `generate_pdf_batch_request`, its request, the number it read |

Actions and code: `Approve`; `AskForBatch` and `AskForFixture` (`enqueue_approved_batch`,
`enqueue_cycle`) with `Enqueue`; `Claim`, `Recover`, `Heartbeat`, `GiveUp` (`claim`,
`_recover`, `heartbeat`, `_failure`); `ReadFails`/`AlreadyMade`/`Read`, `Render`, `Recheck`,
`Insert`/`InsertFails`, `Fail` (the two generators, from the read to the removal of the
files); `RetryFailed`; `Restore` (`restore`); `PlanRetention`, `ExecuteRetention`;
`SetPilot`, `ContentChanges`, `BumpRevision`. `Recheck` locks the request's row until
`Insert`: `Unlocked` is the guard of whoever else needs it.

`content` takes any value at any time, also an earlier one, since a percentage may be set
back. `versions` is in the order of commits. The code orders by `generated_at`, the time of the
first read, long before the commit; the two orders are the same, because a partner's next request is asked
for only after the one before is settled, and of the attempts of one request only one commits.

`Faults` names two things the code does not survive and the runs leave out, because
nothing in the repository claims them: `"ack"`, the answer of a commit
being lost, and `"overlap"`, a restoration between the plan of a retention and its execution.
With either `VisibleComplete` is violated (see *Observations*).

### `PartnerReports`, `Linkage`, `Settlement`: what a report says

`Linkage` has the mapping rule as it is written three times: for the whole mapping
(`validate_partner_linkage`), for the homologation (`public_summary`, over the links the
database selects for a day) and for one portfolio (`build_internal_report` over what
`load_batch_report` reads). `Settlement` is `account_case` and the totals, in integer cents, with
ROUND_HALF_UP; the tax of 7.5 % is 3/40. In `PartnerReports` they act on one database:

| Variable | Code |
|---|---|
| `links`, `customersOf` | `PartnerCaseLink` and `PartnerCustomerLink` rows; the clients of a lawsuit |
| `portfolio[p][d]` | the approved batch of a partner and period, its lawsuits, and whether the stored rows of these are newer than the reading the batch was matched in |
| `entries`, `percentage` | `FinancialTransaction` rows of a lawsuit; the partnership's percentage |
| `job` | the report of the worker, rendering, read again (`rechecked`) or issued: what was read, and the revision key it was read with |
| `budget` | the bound: changes of links or clients, and of money, left |

`Approve` writes links under the exclusion constraint of the schema
(`ex_partner_case_links_no_active_overlap`), `MapCustomer` stands for the mapping of
clients outside the program, `ClientsChange` for the synchronisation of the clients of a lawsuit,
`PayInstalment`/`PayOut` for that of entries, `SetPercentage` is the portal's form. A report is
`Build` (the first read), `Recheck` (the second, of the key alone, which locks nothing but the request),
`Issue` (insert and commit) or, at any point, `Discard`; everything else may happen in between.

### `AdvboxSource`, `AdvboxSync`, `SnapshotRead`, `ItemMatching`: reading Advbox

`AdvboxSource` is the external collection: a list the office edits (a record changes,
one is entered or removed at any place) and pages by offset with the total, of which a
contradictory one is refused. Pages are full except the last.

`AdvboxSync` is `SyncRunner.run_resource` for any of the four resources: `run` is the
`SyncRun` row of the batch key with its open errors, `job` the execution in memory,
`rows` the stored records with the references they were linked to, `known` the rows there
are to refer to. `Start` (new or resumed), `Reprocess` (from the first page with an open
error), `ReadPage` (one transaction: errors of the page resolved, records stored,
missing references noted, the run moved on), `Retry`, `FailPage`, `Finish` (the end, or
`--max-pages`), `Crash`, `NewBatch`, `ReferenceArrives`.

`SnapshotRead` is `collect_verified_snapshot`: two reads to the end, compared on what
concerns the items (`RelevantKeys`), used if they agree. `ItemMatching` is
`reconcile_items`. `photo` and `steady` are history. `Advbox` runs both readers over one
source, which is all they share; what the office does while the lawsuits are read is
the reading's `OfficeEdits`.

### `Accounts`: who may

| Variable | Code |
|---|---|
| `status`, `admin`, `password`, `greeted` | `AppUser`: status, role, hash (with who let its holder choose it), `last_login_at` |
| `links` | `PortalAccessLink` rows in the order they were issued |
| `sessions` | `PortalSession`: of whom, opened with which password |
| `request` | what a person's handler, already authorised, waits to do: `_need_user` looks the session up, then the form is awaited |
| `failures` | the login limiter's count for the address |
| `console` | the administrators `portal-user` commands have looked up, and whether role and password were found right |
| `entering` | the login whose password was verified |
| `removing` | the handler that has locked the account it removes and has counted administrators |
| `crossed` | history: a command closed an administrator when its operator was no longer an active one, or a login committed after what it had looked up changed |

The portal is one process with one event loop: a handler runs from its form to its
commit alone, and other handlers run while it waits for the form. `portal-user` runs on
the host beside it. So `Arrive` and the handlers are two steps; `Login` and `Enter`, and
`Count` and the removal (`Deactivate`, `Demote`), are two steps between which only the host acts. A command is three:
the account is looked up (`Ask`), the role is read once the password is typed (`Admit`), and what it does is
committed after the password was verified and, for a new account, another was asked for.

The portal's count takes no lock against a command. What orders the two is the row
of the account to be removed: the portal has it locked from before the count until its commit
(`web/routes/portal.py:2042`), and a command needs the rows of the account it acts on and, for the foreign key of
its audit record (`web/user_cli.py:158`), of its operator. `Leaving` is the guard
that says so; without it `AlwaysAnAdmin` is violated.

## Runs

| Run | Instance | What it shows |
|---|---|---|
| `pdf_import` | 1 batch, 2 workers, uploader and reviewer, a correctable and a clean snapshot, four eyes, corrections, 4 revisions | `ApprovedAsShown`, `NoApprovalDuringReprocess`, `SucceededMeansServed`, `LifecycleRespected`, `OutOfScopeUntouched`, `TypeOK` |
| `pdf_live` | the same with 1 person and 2 revisions, under `FairSpec` | `ImportSettles`; the refinement `ImportQueueKept` |
| `pdf_replace` | 2 batches of one partner and period sharing a lawsuit, 1 worker, 2 people, any request | `OneCurrentPortfolio`; the refinement `RegisterKept` |
| `reports` | 2 uploads of a period, 2 workers, 2 versions, 1 key (a batch is reportable or not) | `VisibleComplete`, `AlwaysOneToRead`, `InsertNeverCollides`, `ReplacementNotOverridden`, `TypeOK`; the refinement `QueueKept` |
| `reports_live` | a synthetic partner with an upload and a portfolio of 2 revisions, 1 worker, under `FairSpec` | `DoneMeansMade`, `RequestSettles` |
| `accounts` | 2 people, 2 passwords, 2 links, 1 command at a time | `AlwaysAnAdmin`, `SessionsOfPresentPassword`, `OneOpenLink`, `ResetLocksOut`, `TypeOK` |
| `advbox` | 3 records in any order, pages of 2, 2 changes, 1 retry, 2 batch keys; a manifest of 3 items | `SucceededComplete`, `ReprocessHeals`, `MatchedAsInSource`, `OneItemPerLawsuit`, `TypeOK` |
| `portfolio` | 2 partners, 2 lawsuits and 1 client, who may change, periods of 1 and 2 days, a third and a refused percentage | `OneClaimPerDay`, `ClassificationsAgree`, `CustomersConfined`, `ShareWithinNet`, `RecheckedAsOfNow`, `EstimateKept`, `TypeOK` |
| `pdf_storage` | under `PersistentSpec` | violated: `StorageFailureResumed` |
| `pdf_blocked` | any request | violated: `RequestBlocksApproval` |
| `pdf_month` | 2 batches, the month up to two different days | violated: `OneApprovalPerMonth` |
| `accounts_stale` | as `accounts` | violated: `DeactivatedHasNoSession` |

### Bounds, and why they are enough

- `MaxRevision` (pdf) stops people from asking and correcting for ever. The properties of
  one batch relate one worker with another that took the batch over, and one page with
  one later decision; two workers and two people have every such pair, two snapshots have
  a run that is replaced and one that comes back, and four revisions leave room for
  request, run, correction and decision in every order. Replacement relates two batches.
- `MaxAttempts` is the program's 3; the runs take 2, which has a first and a last attempt.
- `MaxKey`, `MaxBump`, `MaxVersions` (reports): a key changes away from what a worker read and
  back; a late report needs a second version beside the first; a collision two
  workers on one request.
- `MaxLinks`, `LoginLimit` (accounts): an earlier and a later link of an account; the limiter
  counts to 1. Two people are what mutual deactivation takes.
  `MaxCommands` is one command under way beside the portal; two with one link have been checked as well. The run ends a
  behaviour where `crossed` becomes true: `crossed` stays true for ever and every property that
  mentions it says nothing from there on, so only behaviours of `OneOpenLink` and `ResetLocksOut` are cut,
  and those two are proved without the cut.
- `MaxChanges`, `MaxRetries`, `MaxBatches`, `Limit` (advbox): three records are two pages, so there is a
  first, a last and a short page; one change moves records across the boundary of pages,
  two move them and move them back or leave the total as it was; the second batch key
  starts over rows of the first.
- `Budgets`, `LastDay`, `Amounts` (portfolio): three changes of links or clients let two partners and two periods
  meet on one client, three money changes let a settlement go negative and back; the two budgets are
  not both large in one behaviour, since links and money only meet in a report. The amounts are
  chosen for halves: 333 cents at 33.33 % and 7.5 %.

- `OneReader` (advbox) is the one state constraint: TLC looks at the two readers one at a time, since
  their product is too large; that they do not disturb each other is proved (`ReadsHarmless`,
  `ReadsTrustworthy`, both about `Advbox` without the constraint).

Other constraints are none; symmetry is used for workers, people, passwords and partners,
only with invariants and action properties, never with liveness. `advbox` and `portfolio`
end when their bounds do, and so leave deadlock out.

### Fairness

`FairSpec` of both queues: the timer starts a drain again and again and a drain works
until its item is settled, so each worker's steps and its claims are weakly fair (with
no rows locked by others: transactions are short); clocks advance, so a lease that is
not renewed expires and a back-off elapses. Nothing is assumed of people, of the pilot,
of retries by operators or of heartbeats, and crashes are never assumed to stop:
attempts are bounded, so even a worker that always crashes settles the item as failed.
`PersistentSpec` adds, for one run only, an operator who goes on retrying and people who
go on opening the page and asking.

### Violated properties

Sentences of the repository the code does not keep (`findings` in PROJECT.json quotes them):

- *a batch whose PDF the storage did not serve is lost*: `failed` has no way out; the
  retry of operators puts it back in a queue that never takes it, the button "Tentar
  novamente" shown on its page is refused, and the same PDF cannot be sent again;
- *a retry after exhausted attempts does not block approval* in the review service; the
  pages hide the approval (`NoApprovalDuringReprocess`), not the correction;
- *two uploads of the current month on two days are both approved*, as their periods differ; of
  months that are over one upload is approved, which is proved (`PastMonthsOnce`);
- *a deactivated account can get a session*: a change of password whose form arrives
  after the deactivation opens one, which is good again once the account is reactivated.

### Observations that no run is spent on

Met while modelling; each is visible in the module named.

- A run that is re-dated becomes the latest without advancing `review_revision`, although
  `docs/IMPORTACAO_PDF.md:66` lets a reader expect it; `ApprovedAsShown` shows that nobody
  approves another run than the one shown, by an argument that needs the whole queue (`PdfImport`).
- Of two uploads of overlapping, different periods that share a lawsuit, the second can never be
  approved: the exclusion constraint refuses its link (`PdfImport!LinkConflict`).
- A commit whose answer is lost makes the worker delete the files of a report it has just
  published, and a retry finds the version there and leaves it so (`ReportJobs`, `"ack"`;
  compare `docs/PORTAL.md:40`).
- A version restored while a retention holds its plan loses its files (`ReportJobs`, `"overlap"`).
- A percentage set back to an earlier value finds the version of that time and makes no new
  one (`ReportJobs!AskForBatch`).
- `portal-user disable` does not count administrators, and reads the operator's role before it verifies
  the password, and the status before that: given by an administrator who is deactivated or demoted in
  between, it can leave none (`Accounts`, `crossed`; `docs/PORTAL.md:13`). A login whose password is being verified while the host resets it is let in.
- `reset-password` holds the row lock of the account while it prompts; a portal handler that
  wants the row, and so the event loop, waits for it.
- A lawsuit is marked for its partners by links that may have been deleted since
  (`docs/OPERACAO_SINCRONIZACAO.md:9`); pages shorter than the limit before the last one would
  put reprocessing at other offsets than the errors name (`AdvboxSync` has full pages).
- A removal and an entry between pages, alike in both reads of a snapshot, hide a lawsuit from
  both; `MatchedAsInSource` asks for one undisturbed read for that reason.
- The revision key has no links in it (`ADR-001:71`). `RecheckedAsOfNow` shows that at the second read
  portfolio, figures and mapping to this partner are those of then all the same. But a client mapped to another partner
  while the report renders makes a lawsuit ambiguous, which `docs/RELATORIO_PDF6.md:7` says prevents a
  report; the second read does not look, and the report is issued.
- What changes between the second read and the commit is not in the report either: the read locks neither
  batch nor entries nor percentage (`docs/RELATORIO_PDF6.md:13` has the commit check). A batch replaced in
  between is `ReplacementNotOverridden`'s matter; new figures are in the next cycle's version.

## Proofs

What TLC shows on small instances is proved for all values of the constants, under the
`ASSUME`s of the modules only: counts and bounds are naturals, given functions
have their types, null values are no members, collections of people, partners and records are finite.

| Module | Theorem | Property | Argument |
|---|---|---|---|
| `PdfImportProofs` | `TypeCorrect` | `TypeOK` | `attempts` stays in range because a pending batch has attempts left (`AttemptsLeft`) and a worker past `idle` has a batch (`Busy`): `TypeInv` |
| | `QueueTruthful` | `SucceededMeansServed` | `ServedInv`: the holder of the token either claimed after the last request or the batch is not running (`FreshHolder`); a worker about to report a refusal holds a rejected batch (`RefusedByParser`) |
| | `ApprovalsInformed`, `ReprocessingAwaited` | `ApprovedAsShown`, `NoApprovalDuringReprocess` | assuming `OfferedOnly`, `ApprovalInv`: a page is never from the future (`FormsFromThePast`), and while its revision is current and it offers approval, the batch is settled and its latest run is the page's (`OfferStillGood`) |
| | `PortfolioUnique` | `OneCurrentPortfolio` | inductive once typed: only an approval makes or ends an approved portfolio (`OnlyApprovals`) |
| | `RegisterImplemented` | `RegisterKept` | step simulation: what `Approve` finds in `SamePeriod` is what the register has in the slot (`RegisterApproval`); by `OnlyApprovals` every other step is a stutter |
| | `PastMonthsOnce` | (`OneApprovalPerMonth`) | under the condition that uploads that begin on one day have one period |
| | `LifecycleKept` | `LifecycleRespected` | each action against the transition table |
| | `ImportQueueImplemented` | `ImportQueueKept` | step simulation: each action is one of `Ask`, `Take`, `Leave` or a stutter; `MapInv` says that whoever the row names serves the batch, so that a late worker's step is a `Leave` without effect |
| | `ScopeRespected` | `OutOfScopeUntouched` | every step that writes a batch looks at the scope |
| `ReportJobsProofs` | `RequestsTyped` | `TypeOK` | |
| | `NumbersFree` | `InsertNeverCollides` | numbers of a period are 1 to k (`Contiguous`); a worker that will pass its recheck still has the number after them (`NumberHeld`), because whoever commits has the row locked and the lease (`RowLocked`) |
| | `ReportsReadable`, `OneToRead` | `VisibleComplete`, `AlwaysOneToRead` | assuming `Faults = {}`: a retention plan holds superseded versions only, some version is always visible, visible ones have files |
| | `DoneIsMade` | `DoneMeansMade` | from the same invariant |
| | `LateReportsHarmless` | `ReplacementNotOverridden` | `OrderInv`: of each period one batch is approved, what has versions and is not approved is retired, and versions are in the order of approvals |
| | `ReportQueueImplemented` | `QueueKept` | step simulation, as for the import |
| `AccountsProofs` | `AccountsTyped` | `TypeOK` | |
| | `AdministratorRemains` | `AlwaysAnAdmin` | whoever is being removed is not the last administrator, from the count to the removal (`Counted`): a command in between keeps its operator, whose row the portal does not hold (`CommandKeepsAdmin`), and nobody else acts; only known accounts act (`KnownPeople`) |
| | `OldSessionsEnd` | `SessionsOfPresentPassword` | every step that replaces a password ends or exempts its sessions |
| | `OneLinkOpens`, `ResetHolds` | `OneOpenLink`, `ResetLocksOut` | a link is issued only together with the closing of the others; the second needs the first |
| `PartnerReportsProofs` | `ReportsTyped` | `TypeOK` | |
| | `ClaimsExclusive` | `OneClaimPerDay` | two active links of one entity have disjoint periods (`Apart`) |
| | `RulesAgree` | `ClassificationsAgree` | the three rules define one set of partners |
| | `ClientsConfined` | `CustomersConfined` | a client of a lawsuit with one claimant has no other |
| | `ReportsRecheckedFresh` | `RecheckedAsOfNow` | a portfolio is linked, in full, by its own links (`PortfolioLinked`), so the partner claims each of its lawsuits (`PortfolioClaimed`), and what a worker holds is the report of its key (`JobRead`): equal keys then mean equal reports, though the key has no links in it |
| | `SharesWithinNet` | `ShareWithinNet` | a lawsuit's entries are finitely many (`Books`), and `SharesWithin` holds of any such |
| | `EstimatesKept` | `EstimateKept` | an instalment is in the books once, due or paid (`Books`), and an entry leaves them only by being paid (`PaidKept`): then `PaidAsEstimated` |
| `SettlementProofs` | `SharesWithin` | | rounding half up is within half a cent, and a share of at most the whole is therefore within the net |
| | `PaidAsEstimated` | | totals move by exactly the amount paid (`TotalPaid`); what is left are the roundings of tax, share and estimate, each within half a cent (`RoundsTax`, `RoundsShare`, `RoundsFuture`) |
| | `SummaryBalances` | | sums of a report's lawsuits add up (`SumOfSums`) |
| `AdvboxSyncProofs` | `SyncsComplete` | `SucceededComplete` | up to every place an execution may go on from, a record is stored with all it refers to or on a page with an open error (`Reached`); storing a page spoils no other record, because IDs differ, and links are to rows there are (`Linked`) |
| | `ReprocessingHeals` | `ReprocessHeals` | open errors lie at beginnings of pages and not before the place a reprocessing has come to (`Placed`) |
| `AdvboxProofs` | `RelevantSuffices` | | `reconcile_items` looks at no lawsuit that `RelevantKeys` leaves out, for every manifest and collection |
| | `AdvboxTyped` | `TypeOK` | both readers at once, with all bounds |
| | `ReadsHarmless` | `SucceededComplete`, `ReprocessHeals` | to the synchronisation a step of the reading is an edit of the source or nothing (`NextIsSync`), so `Spec` implements `SyncSpec` |
| | `ReadsTrustworthy` | `MatchedAsInSource` | while a read is steady it has collected the beginning of its photograph (`Prefix`), which is the source (`Current`); the synchronisation keeps both (`SyncKeepsReads`) |
| | `LawsuitsGivenOnce` | `OneItemPerLawsuit` | `Taken` is symmetric |

`SettlementProofs` is about sums over finite sets, which a fold of the community modules defines
by a recursive function on the parts of the set. That the function exists and what it is cannot be
had from the library's induction theorems, which take an operator; it is had from the one
about well-founded relations that takes a set: proper inclusion among the parts of a finite
set is well-founded (`FS_StrictSubsetOrderingWellFounded`, `WFMin`), so what holds of a part
whenever it holds of all smaller ones holds of every part (`PartsInduction`).

`AdvboxSourceProofs` has what both readers rest on: whatever the office does, the
collection is a sequence of records with different IDs, and a page holds exactly the records
after its offset. The invariants were checked by TLC on the instances of the runs before they were proved.
They are conjunctions of named parts, and every proof that a step keeps one has a
case for each action.

Only model-checked:

- `ImportSettles`, `RequestSettles`: liveness under fairness is out of the prover's reach.
- The violated properties.

## Not modelled

- *Text extraction from PDFs and its validation* (`parser.py`, `validation.py`): pattern matching on
  file contents; its outcomes are the choices of `PdfImport!Parse`.
- *Normalisation and contracts* (`normalize.py`, `contracts/`, `upsert.py`): field shapes; a record that cannot be
  normalised is an outcome of `AdvboxSync!FailPage`.
- *Upload storage*: one file per upload under a fresh name; its failure is an outcome of `Parse`, and a crash between
  file and row leaves a file nobody reads.
- *Layout of reports*, *audit and homologation tools*, *shell scripts*: output, or one-shot commands over the same services.
- *Schema and migrations*: the constraints handlers rely on are guards; the rest is types.
- *Enrichment reads* of movements and entries after a reconciliation, the stages and texts of a
  report, listings and downloads of the portal, retention of sources and of the audit trail: they only read, or write what nobody else does.
- *Rate limiting and `Retry-After`*: pauses without effect on a result.
- *Finer interleavings than transactions*: under READ COMMITTED the several reads of one
  `load_batch_report` may see different commits; `Build` and `Recheck` each take them as one. What a first read has mixed
  is caught by the second, unless that is itself mixed.
