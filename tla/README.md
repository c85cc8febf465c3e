# finance-erp: specifications and proofs

TLA+ models of the loan-servicing backend (`src/backend/app`), of the way a request takes
to it (`src/ops/wake-worker`, `src/frontend/src/api`) and of what the screens do over time
(`src/frontend/src/features`), checked with TLC and, for the parts named below, proved with
TLAPS. Paths are relative to `src/backend/app` or `src/frontend/src` unless they start with
`src/`.

## 1. The system

FastAPI routes call services on a PostgreSQL database through SQLAlchemy sessions
(`core/db.py`: READ COMMITTED, `autoflush=False`, a pool of 10 + 20 connections). One request
is one transaction. A scheduler thread runs a nightly job over all running loans. Documents
are in S3. Each franchise is one container on a host that powers off when idle and is woken
by a Cloudflare worker; the frontend repeats requests while the host wakes. The frontend
is a React application that keeps what it reads in a query cache and its filters in the URL.

| Component | State | Operations | Interacts with |
|---|---|---|---|
| Loan lifecycle (`services/loan.py`, `routes/loans.py`) | `loans.status`, `is_deleted`, terms | create, approve (writes schedule and down payment), edit, delete | ledger, cycles, proposals, closure |
| Bad-debt proposals (`services/bad_debt.py`) | `bad_debt_proposals` | propose, review, reopen; automatic propose and withdraw | called by penalties and payments; writes the loan's status |
| Closure (`services/loan_closure.py`) | `loan_closures` | close (four types) | reads the balance, writes the loan's status |
| Payment ledger (`services/transaction.py`) | `transactions`, `due_cycles.total_received` | create, confirm, fail, update, delete, restore | moves the loan to AWAITING_CLOSURE, classifies paid cycles |
| Cycles and penalties (`services/penalty.py`, `services/due_cycle.py`) | `due_cycles`, `penalty_events` | classify, reclassify, re-anchor | proposes and withdraws bad debt at the cap |
| Nightly job (`jobs/nightly_cycle_check.py`, `core/scheduler.py`) | audit rows that say what was recorded, an advisory lock | promote cycles, milestones, cap | one transaction per loan, penalties, proposals |
| Documents (`services/document.py`, `utils/s3.py`) | rows and S3 objects | upload, delete, restore | two stores without a common transaction |
| Sleep and wake (`src/ops/idle-shutdown.sh`, `src/ops/wake-worker`, `api/serverWake.ts`, `api/client.ts`) | power state, retry timers, idempotency keys | power off, wake, send again, give up | every request of the browser |
| Query cache (`api/queries/*.ts`, `app/providers.tsx`) | one entry per query | fetch, invalidate, seed, remove | every screen |
| Screens (`features/**`, `components/**`) | dialogs, forms, boxes, filters, wizard steps, undo windows | open, type, save, leave | query cache, URL, API |
| Auth (`services/auth.py`) | failed attempts, lockout, `token_version` | login, change, reset | every request |
| Migrate and release (`src/backend/migrate.py`, `src/ops/release.sh`) | `schema_migrations`, image tags | migrate, switch, health check, roll back | per franchise |

Vehicles, customers, personnel, proofs, cash entries, settings, reports, audit and the
maintenance scripts are listed in `PROJECT.json` with the reason each is left out on the
side of the server (single-row writes, read-only queries, pure helpers); their screens are
in the browser modules.

What is hard, and where it bites, is the hazard list of `PROJECT.json`. Most hazards have
one of these shapes:

* **read, then lock.** A route reads a row without a lock, decides, then locks
  the loan (or never does). The locked query does not refresh what the session
  already holds.
* **partial write.** The ORM writes the columns that differ from what it read,
  over whatever the row holds by then, and nothing when they do not differ. The edit forms
  of the browser do the same with the copy they hold.
* **status written by many.** Eight handlers write `loans.status`; several never
  look at what it was.
* **lock order.** Cycles are locked in the order of a Python set, after a foreign
  key has taken a share lock on one of them.
* **a lock that is somewhere else.** The nightly job's advisory lock belongs to a connection
  that the job gives back after every loan.
* **two stores.** A file moves in S3 between the flush and the commit of its row.
* **an answer nobody waits for.** A request that failed for the browser may have been
  carried out: it is sent again, its record exists without being attached, the row it deleted
  is still on the screen.
* **an answer that comes late.** A dialog was closed and opened for another row, the URL
  was changed by the Back button, a list was read again before the write.

## 2. Modules

| Module | What it is |
|---|---|
| `LoanLifecycle` | one loan: status, proposals, events at the cap, payments, closure |
| `LoanCase` | what the requests amount to when they do not overlap: a status, a place in the review queue, a closure, a balance |
| `LoanLifecycle_proofs` | its theorems: for any overlap of requests, for requests that do not overlap, and that these implement `LoanCase` |
| `Sums`, `SumTheorems` | the sum of a function over a finite set, and the facts about it that the proofs about money need |
| `LedgerRows` | payment rows and the total of a cycle, shared by the ledger modules |
| `PaymentLedger` | the six payment handlers with row locks, flushes, commits, deadlocks |
| `AtomicLedger` | what the ledger promises: every operation at once, totals always right |
| `PaymentLedger_proofs` | types, totals always match, `PaymentLedger` implements `AtomicLedger`; which requests can lock each other out |
| `CyclePenalties`, `CyclePenalties_proofs` | verdicts on cycles, penalty events, addons, replay, nightly job |
| `NightlyRuns` | runs of the nightly job that overlap, stop half way and are repeated |
| `DocumentVault` | rows and files under failures at every step |
| `BackendParts_proofs` | the theorems about these two |
| `ApiGateway` | a request from the browser through the worker to the backend and back |
| `SubmitOnce` | what the gateway promises: a call is recorded at most once, and what is told is true |
| `ApiGateway_proofs` | `ApiGateway` implements `SubmitOnce` |
| `ApiHooks` | all queries and mutations of `api/queries` as data: tables read and written, keys invalidated |
| `QueryCache` | one cache entry, one mutation, and the pages that show them together |
| `Dialogs` | the dialogs that collect input and send it, over several openings |
| `SearchBox` | the debounced search box and the browser's history |
| `ListFilters` | which parameter narrows which list, who shows it, and how rows are sorted |
| `EditForms` | forms that send what changed, while the record changes under them |
| `SaveSteps` | forms that save in two requests |
| `WizardGuard` | the wizard for a new finance and its question before leaving |
| `UndoWindow` | deletions that can be undone for a few seconds |
| `Browser_proofs` | the theorems about the eight modules above, from `QueryCache` on |
| `MCLoanLifecycle`, `MCPaymentLedger`, `MCCyclePenalties`, `MCApiGateway`, `MCParts` | model values and symmetry for TLC; `MCParts` extends the parts that share nothing and puts them side by side |
| `MCParts_proofs` | what was proved of each part holds when they are side by side |

The three loan modules are about one loan: the code never locks two loans in one transaction
and no column of one loan depends on another. They are separate because they share few
facts:

* `LoanLifecycle` keeps only the *sums* of the other two: `paid` (the SUCCESS
  payments) and `late`/`capped` (active penalty events, one unit of payable each).
  `EditLedger` and the `Classify…`/`Reclassify…` actions are what the other modules
  do, seen from the loan. A confirmation is one action there because
  `confirm_transaction` holds the loan lock from its first query of the loan to its commit;
  its steps are in `PaymentLedger`.
* `PaymentLedger` leaves the loan's status out: a refused confirmation is `Abort`.
* `CyclePenalties` leaves the payments behind `total_received` out: `Payments` is any
  change of one total that reads its cycle under its lock (a confirmation, a restoration,
  an edit that does not name the cycle), and `LoadForEdit`/`EditPayment` is an edit that
  names its cycle, with the status and the total it read before the lock.

The other parts share no state with the loan modules or with each other, with one
exception that is kept as data: `QueryCache` takes its queries and mutations from
`ApiHooks`.

### How actions correspond to code: the backend

A handler that opens with `SELECT … FOR UPDATE` is one action. A handler that
reads first is two: `LoadFor…(s)` with the route's checks on the unlocked row, which
remembers in `req[s]` what is used later, and the step that acts. Between the two
the other requests commit.

`LoanLifecycle`

| Action | Code |
|---|---|
| `LoadForApprove`, `Approve` | `approve_loan_route`, `approve_loan`. The loan is not locked; the unique index on (loan, cycle number) makes the second of two approvals fail |
| `LoadForEdit`, `UpdateLoan` | `update_loan`: changed columns only. `PatchedStatuses` is the set of `status` values clients send; `{}` means no client uses the field |
| `LoadForDelete`, `SoftDeleteLoan` | `delete_loan_route`, `soft_delete_loan` |
| `Propose`, `LoadForReview`, `ReviewApprove`, `ReviewReject`, `LoadForReopen`, `Reopen`, `Refuse` | `routes/bad_debt.py`, `services/bad_debt.py`: proposals are read before the loan is locked |
| `ClassifyLate`, `ClassifyCapped`, `ReclassifyDown`, `ReclassifyCapped` | the effect of `services/penalty.py` on the loan, with `auto_propose_bad_debt` and `_withdraw_auto_proposal_if_no_cap_remains` |
| `LoadForNightly`, `NightlyCap`, `NightlyNothingCapped` | `run_once`: the loan's object is in the session before the row lock |
| `ConfirmTransaction` | `confirm_transaction`, including the balance read without a flush when the payment has no cycle |
| `CloseLoan` | `close_loan`: allowed statuses, active closure, balance by closure type |

`PaymentLedger`: `LoadFor…` is the route's read; `LockLoan` only for a confirmation;
`Flush` sends the UPDATE (waits for the row, takes the share lock on a newly set cycle);
`RecomputeCycle` locks the next cycle and sums; `Commit` publishes and releases;
`Abort` is every rollback. `WaitsFor`, `Rings` and `BreakDeadlock` are PostgreSQL's
deadlock detector, `ColumnWritten` SQLAlchemy's identity map: both are outside the
repository and marked external in the map.

`CyclePenalties`: `Penalise` is `apply_penalty`, `Recomputed` is
`recompute_addons_for_loan`, `Supersede` the chain `superseded_by_id`, `Share` and
`HalfEven` the rounded spread. A penalty is any amount up to its cap, which stands for
every rate, date and number of days. `NightlyRun` folds `ProcessCycle` over the cycles
that are past due and commits once, as `process_loan` does. Both routes read
their cycle unlocked; only `classify` goes on to use the shortfall it read,
`reclassify` refreshes the cycle first. An edit of a payment that names a cycle reads it
(`services/transaction.py:712`), locks it without a refresh (745) and settles it by what it
read (757): `EditPayment` may move the payment from another cycle, changes both totals, and
may write PAID_ON_TIME over a verdict and a penalty given in between (`overwritten`).

`NightlyRuns`: a run is `Start` (the advisory lock, unless it was started by hand), then for
each loan `Work` (lock the loan, read its cycles and what was recorded about them) and
`CommitLoan` or `LoanFails`, then `FinishRun` (the unlock). Between two loans a run has no
connection and may get another one (`ConnsFor`), as the session gives its connection back
with every commit: so the unlock may do nothing, and the lock of a finished run may stay
(`MaxHeld` bounds how often). `Dies` is a power-off, `Recycle` the pool's `pool_recycle`.
Others change the cycle meanwhile: `Judged` is a classification, under the loan's row lock,
`PaidInFull` a payment that completes the cycle, and `ReadForEdit`/`EditSettles` an edit that
settles it by an earlier read; the last two lock the cycle and not the loan, and the job reads
cycles without a lock. Milestones are looked for on the days of their window (`DueOn`), the cap
from its day on.

`DocumentVault`: a request reads (`Begin`), flushes its row (`Flush`, which waits for another
transaction on the row or on the unique hash, `Blocked`, and fails on a live duplicate), copies
and removes the object (`Copy`, `Remove`: S3 has no move) and commits; an upload puts the
object first (`Put`). After an error the handler moves the object back if it is at
the new key (`Undo`, `UndoRemove`). Faults: `Fails` is an error the handler catches,
`CommitUnanswered` a commit that was carried out and reported as an error, `Stops` an error
in the undo itself or of a kind that is not caught, `Crash` the process.

`ApiGateway`: `Submit` and `Resend` send a call with the key it was given once; `FetchFails` is
the worker's 503 (the host is off, booting, or the connection was lost, whatever the
backend made of the request) and `HoldOrGiveUp` the client's 5-second timer and its
4 minutes; `LookUp` and `Execute` are the backend's look at the key, the insert, and
the second look after a violated unique key; `SignedOut` the 401 that reloads the page;
`PowerOff` takes everything under way with it. `RefusedByState` is why the routes
that do not read the key are safe (the loan is no longer a DRAFT, the chassis number is
taken): except `POST /loans`, for which neither holds.

### How actions correspond to code: the browser

| Module | Source | State and actions |
|---|---|---|
| `ApiHooks` | `api/queries/*.ts` | no state: `Queries` (key, tables read) and `Mutations` (tables written, `invalidateQueries`, `setQueryData`, `removeQueries` of its `onSuccess`) |
| `QueryCache` | `app/providers.tsx`, the pages' hooks | an entry and a mutation of one page (`Screens` says which are together). The library's behaviour (`Mount`, `ServerAnswers`, `QuerySucceeds`, `QueryFails`, `Refetches`, `Matches`) is external, as configured here: `staleTime`, one retry |
| `Dialogs` | 21 dialogs | a record per dialog: does it hold while its request is under way, what clears its input, what its success does. `Open`, `Type`, `SendForm`, `Close`, `PageUnmounts` (Back, a reload, the error branch of a page: no dialog holds that), `Succeeds`, `Refused`, `Reseed`; `stray` says how requests lost whoever hears them |
| `SearchBox` | the five list pages | `TypeTerm`, `Tick` (300 ms after the last key), `Push`, `Go` (Back and Forward), `LeaveLists`, `Return` |
| `ListFilters` | list pages, `CollectionsWorklistPage.tsx`, `SortSelect.tsx` | parameters that narrow, that have a control, that the empty text knows; `OpenList`, `HeaderClick`, `SelectSort`, `SwitchLens` |
| `EditForms` | customer, personnel, vehicle, financials, assignment, organization forms | `OpenForm` seeds from the copy, `SetField`, `SaveForm` sends `FieldsSent`, `Write`, `Accepted`, `Refresh` (the copy is read again under the form), `WrittenElsewhere` |
| `SaveSteps` | vehicle, personnel, proof and stability forms | `Try`, `FirstDone`/`FirstAnswered`, `SecondDone`/`SecondAnswered`, `ProofAnswered`, `TryFails` at either request, `LeavePage` or `UploaderHidden` in between, and trying again. `first` and `second` are the requests the form follows, one of each at most: a replacement can be uploaded while the last file is being recorded. `UploaderGoes` and `ReadRecord` take the uploader off the screen when an earlier record is there, whatever it is uploading (`overtaken`) |
| `WizardGuard` | `FinanceWizardPage.tsx` and its sections | `Report` is what each form tells the guard; `GoTo`, `Stay`, `LeaveAnyway`, `GoElsewhere`, `SaveStep`, `SaveSucceeds`, `Attached`, `RefetchFails` (which unmounts the forms) |
| `UndoWindow` | `TransactionsTab.tsx`, the document lists | `Delete`, `DeleteAnswered` (opens the window), `TimeIsUp`, `Restore`, `ReadList` and `Received` with reads of the list under way at any time, errors after the change was carried out |

## 3. Runs

| Run | Instance | Shows |
|---|---|---|
| `lifecycle_overlap` | 2 sessions, 2 proposals, 1 event, payable up to 2 | `TypeOK`, `ProposedLoanHasLiveProposal`, `TerminalLoanHasItsClosure`, `OneOpenProposal`, `DownPaymentOnce`, `ClosureIsFinal`, `TerminalLeftOnlyByRejectOrStaleRead` hold however requests overlap |
| `lifecycle_serial` | requests one at a time, 3 proposals, 2 events, payments up to 4 | `NoOpenProposalOnRunningLoan`, `AwaitingClosureHasNoAutoProposal`, `ActiveLoanIsNotDeleted`, `RejectedStaysRejected`, refinement of `LoanCase` |
| `ledger_totals` | 2 sessions, 2 payments, 2 cycles, amounts 1 and 2 | `TypeOK`, `TotalsMatch`, refinement of `AtomicLedger` when requests on one payment do not overlap and no stale cycle is read |
| `ledger_ends` | the same with one amount and stale reads, under `FairSpec` | `EveryRequestEnds`; only edits can lock each other out (`OnlyEditsDeadlock`) |
| `penalties` | 3 cycles, payments on two of them (`Allocated`), 2 sessions, 2 events, totals 0 or 2 | `TypeOK`, `VerdictMatchesPenalty`, `AddonsAreReplay`, `RecoveredInFull`, `HistoryIsImmutable` when one cycle is not classified twice at once |
| `parts` | eleven parts, one at a time (below) | 18 properties of the job, the vault, the gateway and the browser |
| `lifecycle_reject_after_close` | serial | **violated** `TerminalIsTerminal` |
| `lifecycle_draft_proposal` | serial | **violated** `ActiveLoanHasSchedule` |
| `lifecycle_patch_status` | serial, clients may send `BAD_DEBT` | **violated** `TerminalLoanHasItsClosure` |
| `ledger_same_txn` | two requests on one payment | **violated** `TotalsMatch` |
| `ledger_stale_cycle` | an edit and another request on one cycle | **violated** `TotalsMatch` |
| `penalties_same_cycle` | two classifications of one cycle | **violated** `OneActivePenalty` |

The last six are disagreements between the code and its own documentation, described
with both lines under `findings` in `PROJECT.json`:

1. rejecting a proposal that outlived the loan's closure makes the closed loan ACTIVE;
2. a DRAFT can be proposed as bad debt, and rejecting that activates it unapproved;
3. `PATCH /loans/{id}` still writes `status` directly;
4. confirming and failing one payment at once leaves it FAILED but counted;
5. an edit that named its new cycle may not write the total it recomputed;
6. two classifications of a cycle penalise it twice.

The constants `Overlap`, `SameTxnOverlap`, `StaleCycleReads` and `SameCycleOverlap` draw the
line between what holds always and what needs users not to collide: each pass run
that sets one of them to FALSE answers "what else is wrong besides the finding?", and the
matching violation run shows the finding with it TRUE (for `Overlap` the findings
need no overlap; the four serial properties fail under overlap, as the hazards of
`routes/bad_debt.py:324` and `routes/loans.py:521` describe).

Every property also has a mutant in `PROJECT.json`: a small change of one definition, such
as a guard that is missing or a total that is not flushed, under which TLC finds the
property violated.

### What `LoanCase` says

`LoanCase` is the loan as a clerk sees it. It knows nothing of sessions, of the table of proposals
or of penalty events; `queue` says whether a user, the system or nobody asks for a review, and
`outstanding` what is left to pay. `LoanLifecycle` maps to it with `queue <- InQueue` (who made the
open proposal) and `outstanding <- Outstanding`; status, deletion and closure are the same. What it
adds to the invariants is which changes go together:

* a loan waits for closure only with nothing left to pay, although the balance that decides it is
  read before the payment is flushed (`services/transaction.py:598`); the same step takes the
  system's proposal out of the queue and leaves a user's in it;
* a lost cap takes back the system's proposal and nobody else's, and makes the loan run again only
  if it is still proposed;
* a loan enters the queue while nobody else asks about it, and never once it is closed;
* a closure is written once: as paid when nothing is left, as a write-off of all that is left, or
  with a part of it forgiven.

A rejection may still make any loan ACTIVE: that is what the code does (finding 1), and `Review` says
so instead of hiding it.

### The run `parts`

The parts of `MCParts` share no variable, so their product would show nothing their sum does
not: the variable `part` is chosen in the initial state and never changes, that part takes
the steps, and the others stay in one of their initial states. The states of the run are the
states of each part, added up (279,481). Fairness is conjoined for the gateway and the cache; for
the parts that are not chosen it is vacuous, as none of their steps is enabled.
The type invariants are asked of the part that is chosen; the properties hold of the other
parts in their initial states as well.

| Property | Says |
|---|---|
| `AllTypesOK` | the type invariant of each part |
| `AlertedOnce` | however runs overlap, die and are repeated, each milestone is recorded once, and no run changes a cycle that has a verdict, except that it may cap one that a payment has settled after the run read it |
| `FilesFollowRows` | between requests a file is where its row says; after a failed undo or a crash it is at least somewhere |
| `ImplementsSubmitOnce` | calls that are sent again are recorded at most once, and a call that was told "ok" was recorded |
| `EveryCallEnds` | a call that was sent is settled, also if the host never starts |
| `OldCopyIsMarked`, `OwnChangeShows` | after a mutation no copy from before it passes for current; a page that stays open shows the change in the end, or an error; both but for the pairs of `KnownGaps`, which are exactly those that no hook reaches |
| `StartsClean`, `SentOnce`, `AnswerMeetsItsOpening` | a dialog shows no input of an earlier opening, sends no second request while one is unanswered (unless the page was left in between), and an answer acts on the opening that asked |
| `BoxMatchesSearch`, `TypingIsKept` | the box and the URL agree once the timer has run; the timer does not take back what was typed |
| `FiltersAreSeen`, `SortIsOffered` | what narrows a list can be seen, cleared and is known to its empty text; on all nine lists, every sort order that can be reached has a label in the select, but for 16 that are named (`Unlabelled`) |
| `OnlyChosenIsSent` | a save sends a field the user did not set only if the copy was read again with another value meanwhile (and then sends the old value), or in a form that always sends everything |
| `HalfSavesAreTold` | a save that stopped between its two requests was reported, unless the user took the form away or put another try in its place, or the record of an earlier try took the form off the screen |
| `TextIsAskedFor` | unsaved text leaves the wizard by its save, after the question, or by a way that is named: a link elsewhere, a failed refetch, a form that never reports, a record made and not attached |
| `RowsTellTheTruth` | what can be restored is deleted, and the list shows what is there, once everything is answered |

The exceptions these properties name (a pair of hooks in `KnownGaps`, a dialog, a lens) are
behaviours of the code, listed in section 6; each exception is as narrow as TLC allows.

### Bounds

* *Two sessions.* Every stale read needs one request between another's read and its
  write; a third adds no new kind of interference for these properties, and the proofs
  cover any number.
* *Two or three proposals.* A second one is opened after the first is decided, and
  reopening the first while the second is open needs both.
* *One or two events, `MaxPaid`, `MaxTerms`.* Below, at and above the payable amount; a
  reclassification that removes the only cap, or one of two.
* *Two payments, two cycles.* A move, a swap and two changes of one cycle are all there.
* *Three cycles, two events, totals 0 and 2 over an EMI of 1.* The smallest tenure with
  rounding (two later cycles, odd amounts, halves); unpaid, partly paid (once there is an
  addon) and overpaid cycles. `Allocated`: payments go to the first two, which is enough for
  an edit that moves one between a penalised cycle and another.
* *Gateway: a payment and an approval, 3 attempts, 1 outage.* One call the backend finds by
  its key and one that its state refuses; an attempt that was executed and lost, the one that
  finds its record, and one more to give up with. The proof covers any number.
* *Nightly: one loan, two runs, one of which may be by hand, two connections, 3 days, 2
  holds.* Loans are independent under their row locks; the two windows, the cap day and a
  day without any are within the days; two connections are what an unlock on the wrong one
  needs. The proof covers any number.
* *Vault: two documents of one file, two requests, 1 fault.* A duplicate, a request that waits
  for another, and one failure at any step. The proof covers any number.
* *Browser: 3 openings, 3 history entries, fields by twos where they interact (`Together`), 1
  write of another user, 2 tries, 2 rows.* An answer that comes back to a second opening and
  input that survives to a third; a Back and a Forward; a first try that was carried out and
  a second that is refused for it; two deletions whose windows follow each other.

`CHECK_DEADLOCK FALSE` is set for `LoanLifecycle` and for `parts`: a closed or deleted loan
with nothing in flight stops, calls end, pages are left alone, and what has used up its
bounds stops.

### Fairness

* `ledger_ends`. `SF(Progress(s))`: a handler does not stop between two
  statements and PostgreSQL grants row locks in the order they are asked for, so a request
  that is again and again able to go on does. `WF(BreakDeadlock(s))`: PostgreSQL aborts a
  victim of every deadlock. Nothing is assumed of clients: new requests may or may not
  come, and `Abort` is never forced. The run uses no symmetry.
* `parts`, gateway. Timers fire (`Resend`), a request that arrived is worked on (`Arrive`,
  `Backend`), one that is under way is answered or fails (`Answer`, `SignedOut`, `FetchFails`: a
  connection to a host that went off does not stay open), a host that boots comes up (`Boot`).
  Nothing makes the host start or stop, so `EveryCallEnds` rests on the client giving up.
* `parts`, cache. The server answers a read, and an answer arrives or fails. Nothing is assumed
  of the user: a page may be left at any moment.

The run `parts` checks its two liveness properties without symmetry.

## 4. Proofs

Every invariant and action property that a passing run checks is also a theorem, for any
values of the constants that meet the named assumptions: any sets of sessions, proposals,
payments, cycles, loans, runs, connections, documents, requests, calls and rows, any tenure
and any amounts. What the theorems assume of constants is

* `ConstantsAssumption`, `PatchAssumption`, `RowsAssumption`, `LedgerAssumption`,
  `PenaltyAssumption`, `GatewayAssumption`: amounts and bounds are natural numbers, "nobody" and
  "none" are none of the sessions, payments or cycles, every call has a path, clients send
  statuses that exist, and there are finitely many payments (a total is a sum over them);
* `FaultsAssumption`, `BoundsAssumption`, `OpeningsAssumption`, `EntriesAssumption`,
  `ElsewhereAssumption`, `TriesAssumption`, `NoneIsNoRow`: the counters that keep TLC's instances
  finite are bounded by a natural number, however large, and "no row" is not a row.

Where a theorem assumes more (`~Overlap`, `~SameTxnOverlap`, `~StaleCycleReads`,
`~SameCycleOverlap`, `PatchedStatuses = {}`, `WritesAreRecordedOnce`), the assumption is the one
under which the run checks the property, and a violation run or section 6 shows what happens
without it.

### Sums (`SumTheorems`)

`SumOver(f, S)` is a fold over a finite set. The library's induction theorems take an operator as a
parameter, which the provers cannot be given, so the inductions are stated with sets:
`SetInduction` (a set of natural numbers with 0 and with successors is all of them; otherwise
a smallest number outside of it would have a predecessor in it) and `SubsetInduction` (the same
for the subsets of a finite set). On them rest the lemmas the other proofs cite: a sum is a
number (`SumInt`, `SumNat`), the order does not matter (`SumRemove`), a new element adds its
value (`SumAdd`), sums of equal functions, of sums and of zeros (`SumSame`, `SumLinear`, `SumZero`,
`SumWhere`), and a table added up by rows or by columns (`SumExchange`).

### `LoanLifecycle_proofs`

* `TypeCorrect`, `OneOpenProposalAlways`, `DownPaymentAtMostOnce` and `ClosureNeverReplaced`
  need only the constants' assumptions.
* `ProposedLoanAlwaysHasLiveProposal`, `TerminalLoanAlwaysHasItsClosure` and
  `TerminalLeftOnlyByThose` also assume `PatchedStatuses = {}`; finding 3 shows why.

What makes each of them inductive:

* `TypeOK` carries what requests in flight have read (a review names a row of the table, a
  nightly run a loan status) and is an assumption of all the other steps.
* One open proposal is proved as "any two open proposals are the same"; the lemma
  `StepOpens` says of every step that it opens none, or one that is then the only one.
  Cardinality comes in at the end.
* Live proposals: a step either leaves status and proposals alone, leaves
  `BAD_DEBT_PROPOSED`, or writes a live proposal itself. No fact about the loan's history
  is needed, which is why it survives stale reads.
* Terminal statuses: `TerminalStep`, a step that ends in a terminal status is the closure that
  explains it or changes neither.
* One down payment needs `DownPaymentInv`: the payment and the schedule are written
  together, and the schedule is what makes the second approval fail.

Requests that do not overlap have four more theorems, `RunningLoanHasNoOpenProposal`,
`PaidLoanHasNoAutoProposal`, `ActiveLoanNeverDeleted` and `RejectionIsFinal`, all assuming
`~Overlap` and `PatchedStatuses = {}`. Their invariant is `Alone` (at most one request is in flight),
`ReadsHold` (so what it has read is still so), one open proposal, and `Queue`, the conjunction of
the three state properties. They lean on each other: a payment in full withdraws *the* open
automatic proposal, which leaves none only because there was one; an approval activates a
loan that it read as a live DRAFT. Dropping `Alone` breaks `ReadsHold`, and with it all four.

`RequestsImplementLoanCase` uses the same invariant under the same assumptions. Every step is mapped
to one step of `LoanCase` or to a stutter (the reads, `Refuse`). The lemmas about the queue carry it:
`SameQueue` (a step that leaves the open proposals alone leaves the queue alone), `InsertEntersQueue` (a
new proposal is the one in the queue, because only one was possible) and `EmptyQueue` (deciding it
leaves nobody). `NothingLeft` is where the old balance matters: a payment that moves the loan leaves
nothing to pay also when it is not in the sum that was read, because the sum it is missing from is
the smaller one.

Two theorems bound the findings about the status. `UnscheduledOnlyByRejection` (any overlap,
`PatchedStatuses = {}`): an ACTIVE loan without a schedule comes from a rejection and from nothing
else, so a guard there is enough for what `models/loan.py:60` promises. `TerminalLeftOnlyByRejection`
(`~Overlap`, `PatchedStatuses = {}`): without overlap the same is true of leaving CLOSED and BAD_DEBT;
the approval and the nightly job, which `TerminalLeftOnlyByThose` has to name, do it only with a
stale read.

### `PaymentLedger_proofs`

* `LedgerTypeCorrect`, whatever overlaps. That a total is a natural number needs that a request
  computes it as a sum of natural numbers over finitely many rows.
* `TotalsAlwaysMatch` and `LedgerIsAtomic`, both assuming `~SameTxnOverlap` and
  `~StaleCycleReads` (findings 4 and 5).
* `DeadlocksNeedAnEdit`, without any assumption on overlaps: it covers the schedules of
  findings 4 and 5 as well.

The inductive invariant for the totals is a conjunction of

* `Shape`: the form of the variables the proof uses;
* `TotalsMatch` itself;
* `ReadsHold`: what a request in flight has read is still what the row holds;
* `Apart`: requests in flight work on different payments;
* `WorkAhead`: after its flush, a request has locked, or still has to visit, every cycle its change
  affects;
* `LockedTotal`: the total a request computed for a cycle it has locked is the one that
  will be right once its change is committed.

`LockedTotal` is the core: between the computation and the commit other requests
commit changes of their own, and the total stays right because none of them can
change a cycle that is locked without locking it first. The refinement follows: a commit is
one step of `AtomicLedger` (`Decide`, `Edit` or `DeleteOrRestore`, or a stutter if nothing
changed), everything else but `CreateTransaction` is a stutter.

For the deadlocks: a request that is not an edit leaves its payment in its cycle
(`StaysInCycle`), so it has at most one cycle to lock and nothing to do once it has (`OneCycle`);
it locks loan, then payment, then cycle (`LoanHolder`, `WorkAfterFlush`). In a ring without an
edit nobody could be past its flush: it could wait only for one that has its cycle, and that one
waits for nobody. So everybody waits for the loan or a payment, the holder of the loan is in the
ring and before its flush, and it has nobody to wait for.

### `CyclePenalties_proofs`

* `PenaltyTypeCorrect`, `AlwaysRecoveredInFull` and `HistoryNeverRewritten`, whatever requests
  overlap.
* `VerdictsMatchPenalties`, `AddonsAlwaysReplay` and `PenalisedOnce`, assuming `~SameCycleOverlap`:
  the overlap of finding 6 is the only way to a second active penalty on a cycle. The first
  says that a late or missed cycle has one active event and every other cycle none, except the
  cycles in `overwritten`: those that an edit has settled by a stale read over a penalty
  are PAID_ON_TIME with their one event, until a reclassification supersedes it.

There are two invariants. `Replay` holds for any overlap: the account is well formed and its addons
are what a replay of the active events gives, although they are kept by adding to them. It is
inductive because `apply_penalty` reads the addons it adds to under the loan's lock, and adds what
a replay would give its event (`PenaliseKeeps`, from `OneEventMore`); superseding an event is
followed by the replay itself. `AlwaysRecoveredInFull` is arithmetic on top of it: the shares of one
event add up to its amount, the remainder of the rounding being in the last of them
(`SharesAddUp`), and `SumExchange` turns the sum over cycles of sums over events into the sum over events.

`Serial` adds the penalties, the verdicts, and what a classification under way has read:
`penalty_amount` is written as "what I read plus the new penalty", which is right only while nobody
else penalises the cycle (`Reading`). This is the line between the addons, which are safe for any
overlap, and the penalties, which are not. The nightly run, a function defined by recursion over the
cycles that are due, is handled by an induction over the cycles (`SweepExists`, `SweepKeeps`).

### `BackendParts_proofs`

Two sections, for the nightly runs and for the documents.

* `AlertsAreSingle`, with no assumption on the advisory lock. The invariant is `RunsApart` (two
  runs do not work on one loan: the row lock), `FoundHolds` (what a run found missing when it
  locked the loan is still missing; a cycle it read as UPCOMING still is, and one it will cap
  is without a verdict or was paid since) and `EditsHold` (a cycle that an edit
  has read as AWAITING_REVIEW is not UPCOMING again). The advisory lock appears nowhere in the
  argument: the row lock alone keeps alerts single. It does not keep verdicts: payments that
  settle a cycle do not take it, and the theorem allows a run to put MISSED_CAPPED over
  PAID_ON_TIME, and nothing else.
* `FilesAlwaysFollowRows`. For documents whose requests do not overlap and whose commits
  are answered, the invariant says where the file is at each stage of the request
  (`VaultStages`): ahead of its row, at least at one of the two keys, or in place, and at the
  place of the row when no request works on it and none was cut short. The lemma
  `OwnDocument` says that a step of a request on one document changes nothing about another.
* `NightlyTypeCorrect` and `VaultTypeCorrect`.

### `ApiGateway_proofs`

* `GatewayTypeCorrect` and `RetriesRecordOnce`, assuming `WritesAreRecordedOnce`: every writing call
  goes to a path where the backend reads the key or its state refuses a repetition. This is
  true of all such paths but `POST /loans` and `POST /cash-entries`, which are therefore
  not in the instance that is checked. The invariant adds
  `AttemptsLeft` (an attempt that was not made has no execution) and `Recorded` (at most one
  record per call, and one if an execution answered "ok").

### `Browser_proofs`

A section for each module, with its type theorem (`DialogTypeCorrect`, `SearchTypeCorrect`,
`FilterTypeCorrect`, `EditTypeCorrect`, `SaveTypeCorrect`, `WizardTypeCorrect`, `UndoTypeCorrect`,
`CacheTypeCorrect`), its invariant and its properties. The invariants:

* *Dialogs* (`DialogsStartClean`, `DialogsSendOnce`, `AnswersMeetTheirOpening`): input that is cleared
  on closing is clean while closed (`ClosedIsClean`), a request that nobody hears was lost with the
  page, or belongs to one of the two dialogs that can leave one behind (`StrayNeedsAReason`), and what a component waits for
  was asked by the opening it shows (`WaitsForItsOpening`). Of the table of dialogs the proof needs
  four facts (`KindFacts`).
* *Search box* (`BoxAgreesWithList`, `TypingIsNeverOverwritten`): `BoxFollows`, the box was last filled
  from, or written to, the entry that is shown, so a write of the page's own is recognised and
  does not come back into the box.
* *Filters* (`FiltersCanBeCleared`, `SortsCanBeLabelled`): what the tables of the lists offer
  (`FiltersHaveControls`, `ColumnsOffered`, `BothDirections`, `HeadersAreOffered`), and that a click
  leads from an offered sort, or one named in `Unlabelled`, to another such.
* *Edit forms* (`UntouchedFieldsSentOnlyAfterRefetch`): `StillAsItStarted`, a field nobody has set
  shows what the form started from; so a difference with the copy at the time of saving means that
  the user set the field or that the copy moved, and then the old value is what is sent. The
  theorem does not say that a save undoes nothing: it says when it can.
* *Saves in two requests* (`NoSaveStopsUnseen`): `TriesAreFollowed`, a try that began is one the
  form follows, or is accounted for: attached, told, left behind, dropped or overtaken;
  `StagesMatch`, what the two followed tries are doing; `TriesInOrder` and `EarlierRecord`, a try is
  overtaken only by the record of an earlier one.
* *Wizard* (`OnlyNamedWaysLoseText`): `GuardKnows`, a form that would say it holds unsaved text has
  said so, or its loss was agreed to.
* *Undo windows* (`RowsAreShownTruly`): `OneWindow` (the offered row has the only timer),
  `RequestsAreKnown`, and `ListsAreRight`: a list, received or still on its way, is right about every
  row without a request of its own. It has to speak about the lists under way because they may be
  answered in any order.
* *Query cache* (`OwnChangesMarkCopies`): `CacheIsCurrent`, a settled mutation leaves no answer from
  before it under way and no unmarked copy. It rests on `PagesAreRefreshed`, a fact about the table
  of hooks: on each page every mutation seeds, removes or invalidates each entry it concerns, but
  for `KnownGaps`. That is proved section by section of `ApiHooks`, from the names of the hooks
  (`QueryTablesApart`, `MutationTablesApart`: no hook is in two sections) and the matching of prefixes.

### `MCParts_proofs`

* `SideBySideIsEach`: a behaviour of `PartsSpec` is a behaviour of each of the eleven parts, as a
  part that is not chosen stutters in its initial state. With it every theorem about a part
  is one about the composition that the run `parts` checks.
* `PartsTypeCorrect`: so all the type invariants hold there, assuming `WritesAreRecordedOnce`.

### Only model-checked

Liveness: `EveryRequestEnds`, `EveryCallEnds`, `OwnChangeShows`. Temporal reasoning about fairness and
ENABLED is out of the prover's reach. All else that a passing run checks is also a theorem.

## 5. Not modelled

* *Schedule and finance arithmetic* (`services/finance.py`): pure functions on decimals; their
  correctness is numerical accuracy. The rounding of the penalty spread is in `CyclePenalties`.
* *Dates.* Due dates, punctuality of receipts and re-anchoring (`services/due_cycle.py:135`):
  `CyclePenalties` has a past-due flag per cycle, `NightlyRuns` a small calendar for one cycle.
* *Authentication*: passwords, lockout and token versions are a matter of security. The refused
  token and what the browser does with it are in `ApiGateway`.
* *Migrations and releases*: shell scripts around docker and psql, run by one operator at a
  time; no document says which state a failed release has to leave.
* *Single-row services* (vehicles, customers, personnel, proofs, cash entries, settings): one write
  in one transaction, no interaction. *Reports*: read-only queries. *Audit*: rows written in the
  transaction of the request they describe.
* *Screens*: layout, formatting, charts, routing and generated code; downloads and the renewal of
  document links; the browser's other tabs.
* *The sizes of things*: the pool's limit and its time-out, pages of a list.

Two hazards have no property: re-anchoring under the nightly job, and a partial roll-back of a
release. A third is half covered: that a payment without a cycle never moves a loan with something
left to pay is a property (`ImplementsLoanCase`); that the payment which clears such a loan should
move it (`services/transaction.py:598`; it does not) is said by no document.

## 6. What the models leave open in the code

Behaviour the models show, or had to exclude by name, beyond the six findings. Each item is an
exception that a property names or a case it leaves out; it is kept here for whoever works on
these files.

Backend
* `services/document.py`: of two overlapping deletions (or restorations) of one document the
  second one's copy fails, and its undo moves the file back although the first one has
  archived it. A commit whose answer is lost is undone in S3 only. Time limits of S3 are not
  caught, so they are not undone.
* `core/scheduler.py`: the advisory lock may be unlocked on another connection than it was taken
  on; it then stays held and later runs are skipped, while a run that is given that connection
  overlaps. Alerts stay single all the same (section 4).
* `services/transaction.py:757`: an edit that names its cycle settles it by the status it read at
  712, before the lock. A classification or the nightly job in between is written over: the cycle is
  PAID_ON_TIME and its penalty event stays active (`overwritten` in `CyclePenalties`).
* `jobs/nightly_cycle_check.py:201`: the job reads the cycles without a lock, and the payments that
  settle one do not take the loan's lock (`services/transaction.py:757`, 862). A cycle paid in
  between becomes MISSED_CAPPED and is penalised.
* `POST /loans` carries an idempotency key that the backend does not read: a draft can be made
  twice when the first answer is lost. `serverWake.ts:48` takes it for granted that a
  request answered by the worker's 503 never reached the backend.

Browser
* Hooks that change what the page shows and do not refresh it (`KnownGaps` in `QueryCache`; the old
  data stays until it is loaded again): classify and reclassify leave the transaction summary,
  which counts active penalties (`api/queries/dueCycles.ts:197` and `:214`,
  `services/transaction.py:262`), the loan and its open proposal; a confirmation the
  proposals and candidates; an edit of the terms the schedule and the summary; an edited customer
  the loan that embeds the name; an approval the empty ledger of the draft; proposing and
  reviewing the worklist. No hook names the infinite lists of loans (the list of finances after an
  approval, the written-off list after a review). The series of HP numbers are a hint.
* The classification dialog keeps its input for the same cycle; the cash-entry and closing dialogs
  can be left while their request is under way; the payment dialog forgets a request when
  its cycles arrive anew. Any page can be left, or replaced by its error branch
  (`features/vehicles/pages/VehicleDetailPage.tsx:80`), with a request under way; the dialog that is
  there on return knows nothing of it and can send it again, with another idempotency key.
* A replacement file that is uploading when the record of the last one is made is stored without
  a record, and nothing is told: the uploader has gone, or was replaced by a fresh one
  (`wizard/CustomerKycSection.tsx:447` and `:554`, `wizard/PersonnelSection.tsx:279`). So is a file
  whose uploader is hidden while the description of a stability document is cleared
  (`wizard/CustomerKycSection.tsx:590`).
* The assignee filter is active but not shown on two lenses of Collections; three empty texts do
  not know of the dates. On five lists a header turns a column the way the select does not offer:
  16 sorts (`Unlabelled`) are reached that `components/sort/SortSelect.tsx:9` says cannot be.
* An edit form whose copy was refreshed while open sends back the old value of a field nobody
  touched; there is no version check on the server.
* A vehicle or a person that was made and not attached cannot be made again (its number is taken);
  a person can be found, a vehicle cannot.
* The wizard's guard does not know of the assignment form, of the second half of a two-step save,
  nor of leaving by the sidebar; and a refetch of the loan that fails takes the forms down with
  their text (`features/loans/pages/FinanceWizardPage.tsx:177`).
* After two overlapping deletions only the last one is offered for restoring; answering a
  restoration closes whichever window is open.

What would come next: a calendar for re-anchoring, with `NightlyRuns` and `CyclePenalties` composed
over it; overlapping requests on one document
with the file tracked through both.
