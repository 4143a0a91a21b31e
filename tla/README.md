# A verification development of zerp

zerp is an ERP for trading companies: a Hono/Kysely server in TypeScript over
PostgreSQL (`apps/api`), pure decision models (`packages/model`), a Go/WASM
workflow interpreter (`packages/wfl-starlark`) and a Vue front end. This directory
holds TLA+ modules that model its core, TLC configurations that check them on
small instances, and proofs that TLAPS checks for every instance. `PROJECT.json`
maps every definition to the source lines it models.

The project covers what all documents and archives of zerp rest on: approval,
versioned archives, their transactions and locks, and their attachments; the
skeleton of its business processes: the chains of vouchers and the workflow
instances that drive them; the quantities and amounts those vouchers share; the books
they are posted to, with the closing and reopening of their months; and the page on
which users decide on documents, over a network that loses and delays answers.

## Inventory

State lives in PostgreSQL (READ COMMITTED) and, for attachments, on disk. One
server process (docs/domains/vou.md requires a single instance) runs many requests
at once; a request is one or more database transactions, coordinated by
transaction-scoped advisory locks, row locks and conditional updates. Nothing runs
on a timer: expiry is noticed, and deletion jobs are drained, by later requests.

| Component (source) | State | Operations | What makes it hard | What must hold |
|---|---|---|---|---|
| Approval (`packages/model/src/approval.ts`, `platform/approval.ts`) | `approval_entries`, `approval_events` | create, load, transition (approve, reject, unreject, unapprove), delete | decisions on a copy; ids used again after deletion; several reviewers | separation of duties, review columns follow status, unbroken trail |
| Versioned archives (`dcl/archives.ts`, `platform/versioned-archives.ts`, `model/submission.ts`) | `dcl_subjects`, `archive_code_counters`, typed snapshots, `archive_idempotency` | submit-new, submit-change, review, delete | versions come and go at the end of the line; keys come back on unapproval; formulas name exact versions of other archives; retries | numbering without gaps, one open version, unique business keys, pinned materials, an idempotency key works once |
| Enablement (`enablement/service.ts`, `bob/service.ts`) | `bob_objects` | enable, disable | races with formula approval | a disabled material is not adopted |
| Attachments of archives (`dcl/archives.ts`, `platform/attachment-store.ts`, `platform/attachment-deletion.ts`) | staging, adopted rows, deletion jobs, files | stage, adopt, finalize, discard, expire, clean up, drain | files do not roll back; retries; crashes; lost commit answers; failing clean-ups | adopted rows have their file, unadopted ones too, nothing is forgotten but by a clean-up that failed |
| Vouchers (`vou/service.ts`, `model/vou.ts`) | documents, payloads, links between documents | submit, review, delete, attachments, downloads | quantities and amounts shared by documents, month locks, downstream blockers | no document without its sources, quantities within limits |
| Fulfilment, invoices, prior facts, service contracts (`vou/sale-fulfillment.ts`, `vou/invoice.ts`, `vou/prior-fact.ts`) | allocations over documents | checked on submit and approve | several documents draw on one quantity | sums within the source |
| Intermediary calculation (`vou/intermediary-*.ts`, `model/intermediary-calculation.ts`) | calculation documents | calculate, validate on approval | first-in-first-out over a changing set of facts | each fact used once, dependents block unapproval |
| Opening balances (`vou/opening-service.ts`) | opening documents | submit, review, delete | posted once before everything else | books start balanced |
| Accounting (`acc/service.ts`, `acc/period-lock.ts`, `acc/mapping-catalog.ts`) | books, postings, locked months, mappings | post, reverse, lock, unlock | months shared by all books | reversals are exact, locked months do not change |
| Month end, depreciation (`acc/month-end.ts`, `acc/depreciation.ts`) | closing runs, assets | run, undo | rounding, order of months | totals to the cent |
| Workflow (`wfl/service.ts`) | definitions, instances, trials | submit, review, enable; start, continue, reverse | effects inside a voucher's transaction | instances belong to an approved definition |
| Transaction coordinator (`platform/transaction-coordinator.ts`) | none | apply in the order Approval, VOU, ACC, WFL, RPT | one failing step | all or nothing |
| Auxiliary data (`aux/service.ts`) | records, reference facts | create, change, disable, delete | references taken by archives at the same time | nothing referenced is deleted |
| Sessions (`app/session.ts`) | `app_sessions`, failure counter | sign in, authenticate, change password | slow password check between read and write | a revoked session stays revoked |
| Management (`app/management.ts`, `app/department-roles.ts`) | users, roles, scopes | create, change, disable | last administrator, scopes | revisions, no lockout |
| Reports (`rpt/service.ts`), workbench (`app/workbench.ts`) | definitions | submit, review; query | – | as approval |
| Shutdown (`platform/shutdown.ts`) | – | close server, then database | handlers still running at the timeout | – |
| Upgrades and cutovers (`dcl/cutover.ts`, `dcl/customer-cutover`, `*-upgrade.ts`) | one-off | run by an operator, writers stopped | – | – |
| Front end (`components/document-page/list-runtime.ts`, `DocumentPage.vue`, the forms of `target/`) | list, open detail, locked documents, unknown outcomes; forms with fixed ids | query, open, decide, verify an unknown outcome, leave; stage, submit, retry | answers lost, late and overtaken; retries before the answer | nothing old over something newer, one decision at a time, true verdicts, no endless wait; same ids on a retry |

`PROJECT.json` lists the hazards of this code, each at its line, with the
properties that would catch it, or a note where none does yet.

## Modules

```
Approval            one entry: metadata, the decision, the next entry
 ├─ ApprovalPersistence   rows, row locks and the trail, many actors
 │    └─ ApprovalPersistenceProofs
 └─ Archives        subjects, versions, keys, formulas, enablement
      ├─ ArchivesRefinement  Archives implements FormalVersions
      ├─ ArchiveTransactions the same, statement by statement, with locks
      └─ ArchivesProofs      about all three
FormalVersions      what archives promise their readers
Attachments         files and rows of one subject, step by step
 └─ AttachmentsProofs
Vouchers            documents, their parents and line sources (uses Approval)
 ├─ Quantities      the same with the quantities and amounts they share
 │    └─ QuantitiesProofs (uses ProcessesProofs for what holds of vouchers)
 └─ Processes       workflow instances over them, node actions in two steps
      └─ ProcessesProofs
Accounting          books, openings and months under the documents posted to them
 └─ AccountingProofs
DocumentList        one list page, its network, and the server's decisions (uses Approval)
 └─ DocumentListProofs
FiniteSums          lemmas about sums over finite sets, for the proofs
MC*                 instances for TLC
```

**Approval** holds `decideApproval` and what it is made of as operators: the
entry's metadata, the permission and independence rules, the reason rule, the
target status and the next entry.

**ApprovalPersistence** is `ApprovalPersistence` of `platform/approval.ts`.
`entry` is `approval_entries`, `events` is `approval_events`; `held` and `target`
are the copy a transaction has loaded, `rowLock` the row locks. `Load` waits for
the lock and copies the row, `Transition` and `Delete` decide on the copy and run
the conditional update, `Create` inserts. Whoever loads must do it with the lock;
the `LoadUnlocked` mutant shows what happens otherwise.

**Archives** is one entity of `DclArchiveService` with the enablement of BOB.
Every public operation is one transaction under its subject's advisory lock, hence
one action, including everything it writes: subject, code, object row, entry,
snapshot, idempotency row. A refused request changes nothing and is no action. The
differences between entities are constants: `KeyScope` (which versions reserve a
business key: a product's latest, every approved one of other units and sales
partners, none) and `FormulaPins` (whether a version names an exact version of
another subject). Of a snapshot only the business key and the material matter.

**ArchiveTransactions** breaks those actions up into the statements between which
others may run: the locks (idempotency key, subject, product rows in id order,
business key), the reads, and a commit that applies what was decided. Its property
is that every commit is a step of `Archives` on the state of that moment, so the
coarse module is justified rather than assumed.

**FormalVersions** is the abstract specification: every subject has a numbered
line of formal versions and at most one candidate; the line grows by adopting the
candidate and shrinks at its end. **ArchivesRefinement** maps the rows to it.

**Attachments** is the attachment protocol of one archive subject. Files change at
once, rows in transactions; every step between a file operation and a commit is an
action: stage (read, write, commit, fail, undo), submit (begin, promote, commit,
fail, discard, finalize), the drain of a deletion job (begin, remove, commit,
fail), and whole transactions for review, delete, expiry and cleanup. Commits, of
uploads and of submissions, may stay unanswered (`StageCommitLost`, `SubmitCommitLost`), and
each clean-up may fail, with a step of its own: the transaction that registers the file of a
failed upload (`StageUndoFail`), the removal of the staged file after a commit
(`FinalizeFail`), which the code passes over, and that of the permanent file after a failed
submission (`DiscardFail`), passed over too. An intent is
what one editing form of the front end sends: its staging id, submission id and
idempotency key are fixed when the form opens (`VersionPage.vue`,
`attachments.ts`), so a retry repeats them, and none of them is used again after a
deletion. `Retries` says whether a client may send an intent again before it was
answered, `LostCommits` whether a commit may succeed without the server learning
of it. `unanswered` keeps which commits those were: the server takes such a submission
for rolled back and removes the permanent file, so the file it adopted is in doubt
(`Doubtful`), and the properties say that no other file is. `abandoned` is a history
variable: the files whose clean-up has failed, until a row names them again or a later
clean-up succeeds. `MaxFaults` bounds them and the crashes together.

**Vouchers** is the life cycle of the documents of `VouService`. `documents` is
`vou_documents` (`stable` counts deletions), `entry` is the one approval entry of a
document with its detail header and lines: status, revision, parent, and the
documents its lines draw from. `Submit`, `Review` and `Delete` are
`submitInTransaction`, `reviewInTransaction` and `deleteInTransaction`; each takes
the row lock of the control book first, so an operation is one action. The kinds
modelled are the sale chain (order, outbound, delivery, signoff, return, invoice),
the purchase chain (order, inbound, return, invoice), order production and the
expense chain. `SourcesStand` says which sources must be approved at which step,
`Blockers` what stands in the way of a reversal or deletion.

**Quantities** adds to each action of Vouchers what `sale-fulfillment.ts`,
`prior-fact.ts`, `invoice.ts` and `validateReturnSources` check and write. `quantity` is
the quantity of a document's line, or the amount of an invoice; `billed` is the
submission of its source that an invoice names, `earlier` the approved purchase returns
with a lower `allocation_sequence`, `refund` what their postings give back. The checks do
not all count the same documents: a receipt counts every inbound and the approved
returns, a return every return, an invoice pending and approved invoices and approved
returns, a sale order approved outbounds, at what was signed for once that is known.
The properties say that these rules fit together, whatever is reversed, deleted and
submitted again in between. `Amount` is `orderLineAmountMinor`, any function that never
falls as the quantity grows; it is not additive, so an amount given per return has to be computed
over all that was returned before.

**Processes** is the run time of `WflService`. An instance belongs to its root
document and keeps the graph of its definition; `node` is `wfl_instance_nodes`,
`result` is `wfl_action_results` of the edges, `created` the `CREATE_CHILD` audits,
which the code searches for consumed request keys. A node action is two steps:
`BeginCreate` or `BeginReview` lock the instance and read the process, and
`CreateChild`, `ReviewChild` or `CancelChild` follow after the wait for the control
book, looking again only at what the code looks at again. In between, users act on
the same documents through `SubmitVoucher`, `ReviewVoucher` and `DeleteVoucher`.
`Effects` is what the transaction coordinator runs in the workflow inside of a
review: starting an instance, or closing it on the root's reversal. That reversal
writes an audit row whose foreign key takes a share lock on the instance, so it
waits for a node action, which waits for the control book in turn: one of them is
ended by the database (`GiveUp`). This accidental wait matters: without it
(`ReverseUnwaited`) an expense payment is created under a reimbursement that has
just been reversed.

**Accounting** is the books of `AccService`. Its facts are what documents and openings
write: the documents with their status, kind and month, the register of assets and
what each book holds of them (`worth`), the openings, the journal, and the inventory
rows in the order of approval: `recorded[d]` is the documents recorded from the first up
to `d`, so that of two documents the earlier one's set is the smaller. Derived from them,
when a month is closed, are the depreciation entries (by book, asset and month), the rows
the month was costed from, each with the rows it came after (`allocated`), the
locked months and their balances. A request takes the advisory lock of its month at
`Begin`; one that waits for it holds nothing and is no state. A document then takes the
row of the control book, with which the rest of its transaction is one step:
`Submit`, `Delete`, `Approve`, `Unapprove`. A closing or reopening takes the row of its
own book and validates (`TakeRow`), then settles and commits (`Lock`, `Unlock`), so that
requests for other months and books run between the two. `Closed` is the rule that ties
them: a month locked in any book is closed to every document. Openings take the control
book but no month. `Register`, `Deregister` and `DropAsset` are the register of assets, whose row is
shared by all books and takes the values, bases and depreciation entries of all of
them along when it goes. The kinds are reduced to four: a
receipt and an issue of one unit, the acquisition of an asset and its disposal. `Posts`
says which books post which kind, `KindsOf`, `OpeningStock`, `OpeningAdopts` and
`EarlyDisposals` bound what is entered: the code does not refuse a disposal dated before
the acquisition, and lets an opening take over a registered asset.

**DocumentList** is `useVouListViewModel` (`list-runtime.ts`) with the guards of `DocumentPage.vue`, for
one account in one window, with the server's entries and trail at the other end. `adrift`
are requests the page has given up that may still arrive; `queries` and `opens` are
lists and details on their way, of which only the latest is `fresh` (the sequence
numbers `queryVersion` and `detailVersion`). `rows` is the list, `selected` the dialog,
`pending` the locked documents, `unknown` the decisions whose outcome is not known, `task`
where `review`, `deleteSelected` or `verifyOutcome` stands between two of its awaits. A
list is served and answered in two steps, since others may overtake it; a detail is
read in the step in which it is answered, because what others do in between is as if
it came after the answer. The dialog is modal, so no other document is opened while one
is decided on, and the comparisons of `detailVersion` in `review` and `verifyOutcome` are
implied. `DecideElsewhere` is anybody in another window, this account too: a trail
does not say which window an event is from, so "written" is true of the account, not
of the request. `opened`, `carried`, `told` and `confirmed` are history variables of the
properties.

## Runs

| Run | Shows | Bounds |
|---|---|---|
| `approval` | nobody writes over a row he has not read, four eyes, unbroken trail | 1 id, 2 transactions, 3 accounts (submitter, reviewer, trusted), 5 events |
| `products` | bar codes unique, numbering, idempotency keys once, approved formulas keep their material, Archives implements FormalVersions | 2 products, 3 submissions, 1 bar code, 4 idempotency keys, revision 3, object revision 2 |
| `locks` | no circle of waiting; every commit is a step of Archives | 2 transactions, 2 products that may name each other, 2 submissions, 1 bar code, 3 idempotency keys |
| `attachments` | adopted rows have their file, unadopted intents their staged one; a lost commit costs the one file it adopted; without a crash, a file that nothing names is that of a commit not answered, or its own clean-up has failed | 2 intents, 2 requests, 1 crash or 1 file left by a failed clean-up, lost commits, clients that wait |
| `attachments_late` (violation) | a late discard removes a file that a retry has adopted | 2 intents, 2 requests, retries, no crash, every commit answered |
| `processes` | approved documents rest on approved ones; nodes and results of an instance agree; an open root holds nothing; a request key builds once | 3 documents (1 without a parent), 3 graphs, 2 request keys, revision 3, 1 deletion each |
| `processes_deleted` (violation) | a child deleted on its own page bars its position | as `processes` |
| `quantities` | a sale order is not oversold; returns and invoices share what a source has; receipts stay within the order, but for one reversal; refunds add up | 5 documents, 1 order, quantities up to 2, two pieces for 3, revision 3, 1 deletion each |
| `quantities_returned` (violation) | the reversal of a purchase return takes the receipts beyond the order | as `quantities` |
| `accounting` | closed months keep balances, costs and depreciation; no document is open behind a closing; months close in order; stock, assets and wear agree across the books | 2 books (one starts a month later and does not post disposals), 2 documents, 3 months, life 2, opening stock -1 or 0, 2 requests |
| `accounting_adopted` (violation) | an acquisition withdrawn from under an opening that has adopted its asset takes the depreciation of closed months along | 2 books, 2 documents, 2 months, 1 request |
| `document_list` | nothing old is shown over something newer; verdicts on unknown outcomes are true; no second decision beside one that may still arrive; every wait ends | 2 documents (one submitted by this account), 2 accounts, revision 3, 1 list of the user's beside those of writes, 2 details |

Why the bounds are enough. One approval id suffices because entries do not
interact in `ApprovalPersistence`; five events allow a whole life, a deletion and
a second life during another actor's transaction. Two subjects are the least for
keys and formulas to conflict, three submissions give one subject two
versions while the other competes, and revision bounds allow every action on each.
Two transactions show every pairwise interleaving; waiting in a circle between
two of them needs the two product rows the run has. Two intents give an old and a
new version that shares the old one's file; two requests race in pairs. `MaxFaults` = 1 is a
crash or one file at a time that a failed clean-up leaves: `NothingLeaks` speaks of what
happens before a crash and of one file at a time, and the theorems take any number of both. Three documents
are a chain with a middle, a root with two children, or an order with an inbound and
a return; revision 3 allows approval and reversal, one deletion allows a position to
be built again. `MaxOrders` keeps two of the three from being unrelated roots. The
graphs are a purchase order with two inbounds, a chain of outbound and delivery, and
an expense payment, which does not look at its parent. Order productions are a kind of
`Vouchers` that the runs leave out to
stay small, and `OneSoleChild` needs four documents; the theorems cover all of them. Five
documents of one order are two outbounds, one of them delivered and signed for, or two
receipts with two returns, or a receipt, a return and an invoice that compete
for it; other orders do not interact, since every check is per order or source. Two pieces
are the least for a part to be signed for or returned, and two pieces for 3 cost 1
and 2 one after the other, so that amounts per piece do not add up. The key rule of
other units and sales partners (`KeyScope = "ever"`) is covered by the proof of
`BusinessKeysUnique`, which takes every `KeyScope`. Three months are a
first, one in which both books are open, and one in which an asset of life two is worn
off; two documents are a receipt with its issue or an acquisition with its disposal,
dated in any month that is not before it; two requests are a closing, half way,
beside a document or a
closing of the other book. `OpeningAdopts` is FALSE in the passing run since
`accounting_adopted` shows what it breaks, and so is `EarlyDisposals`, since a disposal
dated before the acquisition may also lie before the start of a book that holds the asset,
whose closed months then do not keep it from being reversed; the theorems
hold for either, save `ClosedMonthsComeOutAgain`, which assumes both to be FALSE. Revision 3 of the page's documents is one change of the page and one
beside it, in either order; two details are one that was closed and the one opened after
it; the list of the user's and those of two writes overtake each other in every
order. The theorems below hold without any of these bounds.

`SYMMETRY` is over names that no definition tells apart, and stands in no run with a
liveness property. `MCView` of `locks` leaves out the codes of subjects and what an
idempotency key answers, keeping whether it was used: no guard and no property of
that run reads more of them.

Every property of a passing run is broken by a mutant listed in `PROJECT.json`:
a definition of the model with the kind of bug the code might have. Those
definitions are marked "What if" in the modules.

`CHECK_DEADLOCK FALSE` stands where requests run out (idempotency keys, revisions
and events are bounded) and in `document_list`, where nothing happens any more on a
page that was left; in the attachment and accounting runs deadlock is checked.

**Fairness.** The page's `Spec` is weakly fair to the steps of a task, to those of the
list a write waits for, and to those of the latest detail: a request that
was sent is answered or fails. `unwrapTarget` (target/api.ts) turns every call into an
answer or an exception, and nothing but the promise itself is waited for; which of the two
comes, and when, is free. Users owe nothing, other windows neither, and a request that
was given up need not arrive. `WaitsEnd` is therefore about the page: a lost answer, an
overtaken list or a failed verification never leaves a document locked for good. The modules of
the server have no fairness: it has no scheduler that would promise progress — a
deletion job is drained only when some later request does so — and no run claims
otherwise. Deadlock freedom of its locks is stated as safety (`NoLockCycle`), and in the
attachment and accounting runs by TLC's deadlock check.

## Findings

1. `attachments_late`. When a submission fails, the permanent file it created is
   removed after the transaction has given up its locks. A retry under way finds
   the file (`created: false`), adopts it and commits; the removal comes after.
2. `processes_deleted`. The deletion of a voucher does not tell the workflow. The
   node keeps its document and the result stays active, so its position can neither
   be built again nor cancelled, and the root can no longer be unapproved.
3. `accounting_adopted`. `reverseGlobalRegistrations` looks for a later disposal of an
   asset, not for the opening of another book that has taken the asset over (which
   `deleteOpeningFacts` does look for). The register row goes, and by cascade the
   depreciation entries of months the other book has closed; their vouchers
   stay, and reopening the month does not find them any more.
4. `quantities_returned`. An approved purchase return makes room for another inbound of
   its order. Its reversal looks for later returns of the same source and for documents
   that rest on it, not for inbounds that have used the room, which vou.md 273 asks
   for. Ordered 2, received 2, returned 1, received 1 again, the return reversed: 3 are
   received of 2. `ReceiptsWithinOrder` says that no other step does this.

Seen while modelling, without a violation run of their own: a commit whose answer is
lost is treated as a rollback, and its adopted file is removed (the `attachments` run
shows that it costs that one file and no other); one request
key can create children at two positions; `wfl.md` says that a reversal deletes the
children it can, the code refuses while there are any; the sale return that a
workflow offers under a signoff is always refused; a disposal may be dated
before the acquisition of its asset (`changeAssetStatus`, acc/service.ts 1640-1677, compares no dates), and
approved after another book has closed months in which the asset wore off: in the run
`accounting` with `EarlyDisposals = TRUE` TLC finds `ClosedMonthsReproducible` violated after 16
steps, which is no finding since no document says what such a disposal should do;
`finalizeArchiveAttachments` leaves failed removals to "a later orphan pass" (archives.ts 2548),
which only the tests call; the deletion of an archive's only version leaves its
subject and object rows (archives.ts 1062-1125), where approval.md 84 asks that
no orphan is left; only pending and approved returns hold their inbound (service.ts
7501-7505), where vou.md 274 says any return, though a rejected one is refused when it is
taken up again; and a purchase order that is reversed, deleted and submitted smaller may
have pending inbounds beyond it (vou.md 261), which their approval refuses.

## Proofs

TLAPS checks these for all values of the constants, from the assumptions the
modules name (`ArchivesAssumption` and the like: the "none" values are outside of
their sets, bounds are natural numbers).

* **Approval** (`ApprovalPersistenceProofs`). `TypeCorrect`, `CopiesAreCurrent`,
  `SeparationOfDuties`, `TrailsAreUnbroken`, `MetadataExact`. `HeldIsCurrent` is
  inductive with the type invariant: the row
  lock excludes other writers, so a copy stays equal to its row, the decision is on
  the row itself, and `FourEyes` and `MetadataMatchesStatus` follow from what
  `NextEntry` does to valid metadata. Neither is inductive without it, and neither is
  the trail: an event is written from the copy, so it continues the trail only because
  the copy is the row the last event has left.
* **Archives** (`ArchivesProofs`, first part). `ArchivesTypeCorrect`, `NoHeaderWithoutEntry`,
  `AtMostOneOpenVersion`, `NumbersWithoutGaps`, `BusinessKeysNeverShared`,
  `ApprovedFormulasStayPinned`, `KeysAreSpentOnce`. Numbering is proved together with "at
  most one open version" and "the open version has the highest number": only the end of a
  line can be removed, and only a line without an open version grows. Uniqueness
  of keys needs that the next lower approved version is what an unapproval brings
  back, which is what `PreviousKeyFree` looks at. `KeysSpentOnce` is an action property: the
  row of an idempotency key is written once and stays.
* **Refinement** (second part). `ArchivesImplementFormalVersions`:
  initial states map to initial states; every action maps to proposing,
  withdrawing, adopting or reopening, or to a stutter (reject, unreject,
  enablement), using the invariants above.
* **Transactions** (third part). `TransactionsAreSerial`: every commit is a whole step of
  `Archives` on the state of that moment. What a transaction has checked, it has checked
  some statements earlier; the invariant is that each of those checks still stands: its
  idempotency key is unused, its subject as it was read, the material it adopts enabled and
  approved, its business key free. For each of them, whoever could make it false needs a
  lock that the transaction has come to. With that, every step is a step of `Archives` or
  leaves the archives alone (`TransactionsImplementArchives`), and the theorems of the
  first part hold of the transactions too; `TransactionsShareNoKey`,
  `TransactionsKeepFormulas` and `TransactionsNumberVersions` say so.
  `LocksAreOrdered` (`NoLockCycle`): all transactions take the kinds of locks in one order,
  and the product rows by id, so among the locks that transactions wait for one is the last
  in that order, and whoever holds it waits for none. For the rows, of which there
  may be any number, the last is found as a minimal set (`FiniteSums`).
* **Attachments** (`AttachmentsProofs`). `AttachmentsTypeCorrect`, and
  `SubmissionsStayRetryable` (`UnadoptedFilesStay`), also with retries, lost
  commits and crashes. The invariant `StagingInv` adds to the property that the
  holder of a key's lock is unique among requests that stage or drain it, that a
  drain past its check still faces no row, that a staging request past its write
  has its file, and that only adopted intents are finalized. A lemma (`Quiet`)
  disposes of every step that takes no lock, removes no such file and revives no
  row; four actions are left. `AdoptedFilesKept` (`AdoptedFilesExist`) is proved for
  clients that wait, the assumption whose absence `attachments_late` shows to
  matter; commits may stay unanswered. Its invariant `SerialInv` says that a
  request is alone with its intent, that a submission past its checks has an intent
  not spent and a permanent file, that a discard concerns an intent never spent, and
  that a drain past its check removes a key nobody has adopted or will adopt.
  `NothingIsForgotten` (`NothingLeaks`) needs the same assumption. It excepts what the
  code does lose: the files of commits that were not answered, those whose clean-up
  failed and that no row has named since, and everything after the first crash.
  `LeakInv`: before that crash, a file that is none of these and that no row and no job names
  is in the hands of a request that is about to write its row, to register its deletion or to
  remove it, or to fail in that and be excepted; the row that a staging
  request has seen is still there when it renews it; a job that is struck off has no file.
* **Vouchers and processes** (`ProcessesProofs`, from `VouchersAssumption` and
  `ProcessesAssumption`: the "none" values are outside of their sets, a graph's
  edges join its keys and none leads to its root). `ProcessesTypeCorrect`;
  `ProcessesRunOnVouchers` (`Spec => VouchersSpec`): a step of a process is a step of
  the documents or leaves them alone, which needs that the node action under way
  names rows that exist (`ActInv`). So the invariants of documents are proved once,
  for `VouchersNext`: `DocumentsRestOnApproved` (both properties are inductive with
  the types: a step changes one document, what is approved is not submitted or
  deleted, and its reversal looks for blockers) and `SoleChildren`.
  `RequestsBuildOnce` adds that a position that has made a child keeps a request
  key. `PositionsHoldOneChild` proves `OneChildPerPosition` and
  `OpenRootHoldsNothing` together, with `InstanceInv`: a held document exists
  (`Known`), so a new child is held nowhere; a child belongs to one process
  (`OneProcess`), so a cancellation switches off the right position; a process not
  started is empty (`Quiet`); and a creation under way still finds its root approved
  and its position free (`Underway`), which rests on the reversal's wait.
  `SourcesStayApproved` (`DrawnOnStayApproved`: a purchase return holds what it draws
  from) and `OpenRootsHoldNothing` state what those proofs give for a property each.
* **Quantities** (`QuantitiesProofs`, from `QuantitiesAssumption`: documents are finitely
  many, prices natural numbers that never fall with the quantity). `QuantitiesTypeCorrect`;
  `QuantitiesRunOnVouchers`, so the theorems about documents hold here as well. The sums run
  over sets of documents; a step changes one document, so each proof takes that one out of
  the sum and puts it back (`SumLess`, `SumWith`). `RefundsAlwaysAddUp`: approved returns of a
  receipt stand in the order of their sequence numbers, each refund is the difference of the
  prices of what was returned up to it and before it, and only the last one can be reversed.
  `ReceiptsStayWithinOrder` is an action property: only the reversal of a return can take
  receipts beyond the order. `OrdersAreNotOversold`: an outbound counts with its quantity until
  it is signed for and with the signed quantity afterwards, which is never more (`Fulfils`);
  an outbound has one signoff (`OneEach`, from `OneSoleChild`), so a step changes one
  outbound's share, and an approval that adds to it has checked the sum.
  `SourcesAreNotOverdrawn`: a return or an invoice keeps the source it names as it was,
  since a source is not reversed while they hold it (`DrawnOnStayApproved`) and a deleted one
  never comes back under its number; so the sum over a source only grows by checked steps.
* **FiniteSums**. Sums over finite sets (`SumFunctionOnSet` of the community modules): a sum
  is the first element and the sum of the rest, any element can be taken out, sums are
  monotone, natural where the terms are, and zero terms do not matter. The provers have
  no induction over finite sets; instead, a fact that failed for some subset would fail for
  a minimal one (`MinimalSet`, from the well-foundedness of the strict subset relation), from
  which one element is taken away.
* **Accounting** (`AccountingProofs`, from `AccountingAssumption`). `Invariant` is the
  inductive invariant: besides shapes, requests under way hold different months and
  those past `TakeRow` different books (`HeldInv`), and what they validated there still
  holds when they act on it (`Validated`): no other request can close or reopen a month
  of the same book, none can open a document of the same month, and an opening waits for
  its book. From it follow `MonthsCloseInOrder`, `NothingBehindTheClosing` and
  `BalancesStand`. The crux of the last is that a document only writes into books whose
  start is not after its month, and none of which has closed it; since months close
  without a gap, every month such a book has closed is earlier, so its balances do not
  see the document. `AssetsKept` adds that a disposal names an asset of the register
  other than itself. Three more invariants follow each on the ones before:
  - `StockInv`, for `TypeCorrect` and `StockNeverShort`. A document takes part in a month
    only through its voucher in the book (`Posted`), the recorded documents stand in one
    order (`InOrder`), and closed months keep what they were costed from (`CostsStand`),
    since a document that comes or goes is later than every closed month of a book that
    posts it (`Undisturbed`).
  - `WearInv`, for `WearIsWhatWasClosed`. Only closed months have depreciation, and only of
    assets the book holds, which are in the register; so a closing writes where there was
    nothing, and a reopening takes back what its closing wrote.
  - `ScheduleInv`, for `ClosedMonthsComeOutAgain`. What a closed month wore off can be
    computed again: a basis belongs to an asset acquired at or after the book's start and
    not after the closed month, and an acquisition or a disposal that is approved or
    reversed is later than every month closed. The two assumptions are needed: an opening that
    adopts an asset does not keep its acquisition from being withdrawn (the finding
    `accounting_adopted`), and a disposal dated before the acquisition may be dated before
    the start of a book that holds the asset: none of its closed months keeps the disposal
    from being reversed.
* **The list page** (`DocumentListProofs`, from `DocumentListAssumption`). `PageInvariant`
  is the inductive invariant; `VerdictsHold`, `OneDecisionAtATime` and
  `DetailNeverOvertaken` follow from it. The argument is about revisions: a request names the
  revision it was decided on, the server carries it out at that revision only, and
  every change moves the revision on. A request whose event is in the trail
  (`TrailIsOver`), or whose document has passed its revision, is over. The verification
  reads the detail before the trail, so a request it finds over and without an event
  never was carried out and never will be (`Found`). `DialogHeld` says that the
  dialog stays on the document that is decided on.
  `ListInv` adds the list itself, for `PageTypeCorrect` and `ListShowsOwnChanges`
  (`ListKeepsUp`): what the page knows of a document is never newer than what the server
  holds, a deletion is for good, and when the page learns of a change, every list on its
  way becomes stale, so that only an answer that left the server later is shown.

Only model-checked: the liveness property `WaitsEnd`, since the prover has neither fairness
nor ENABLED, and the findings, which are counterexamples. Every invariant and action
property of a passing run is stated by a theorem. Three theorems have a hypothesis on the
constants, which the passing runs satisfy: `AdoptedFilesKept` and `NothingIsForgotten`
assume clients that wait (`Retries = FALSE`), which `attachments_late` shows to matter for
the first, and `ClosedMonthsComeOutAgain` the two assumptions named above. The theorems speak of all
values of the constants, but not of what is abstracted below: costs and schedules stand in
the modules for what they are computed from, and what the code's loops over amounts compute
is in no module yet (plan, 13). Being inductions over data, they would be beyond the
prover and checked on bounded inputs.

## What is abstracted

* A refused request is no action; only what it leaves behind (a failed upload or
  submission with files) is.
* `Archives` has no unique indexes: its guards are what the code checks under its
  locks. `ArchiveTransactions` has the indexes (`FitsIndexes`) as the database
  enforces them.
* `ArchiveTransactions` leaves out the row locks of entries: their users hold the
  subject's lock already. `ApprovalPersistence` is about callers in general.
* A formula names one material; a product's behaviour profile is "has a formula or
  not". A product that names itself is refused, as in the code. The share lock on
  a material row created after the rows were locked is left out.
* A customer takes its sales partner's advisory lock as well (archives.ts 1655);
  not modelled, nor are blockers from vouchers, which only refuse more.
* Permissions are a constant set of actions per account: they are read when the
  request is authenticated.
* Codes count up without the limit of four digits.
* Vouchers: actors and permissions (in `ApprovalPersistence`), quantities and
  amounts (in `Quantities`), month locks (in `Accounting`), control gates, postings, archive references and records
  taken over from an earlier system are left out. All of them only refuse more, save
  the last: a purchase return under a receipt taken over, and the continuation of
  a sale taken over, are not covered.
* Quantities: orders have one line and one price; a return or an invoice draws from one
  source, so the sums over the lines of one document are left out. Dates, parties,
  currencies and service acceptances are left out as well. A kind
  that the workflow submits has an id of its own each time.
* Processes: every edge of the graph may match, two definitions that match refuse
  the approval. `OPEN_DOCUMENT` and the results that the review of a node writes
  change nothing that is read again. A document made by the workflow has a fresh id.
* Attachments: one subject; contents, digests and owners are left out; each intent
  has one new file and may keep those of the version before it. Temporary files of an upload
  (attachment-store.ts 76-90) have no key and are left out. The operator's orphan scan
  requires that no writer runs. A drain may be done by any request that is idle, where
  the code has it at the end of another operation.
* Accounting: amounts, save for the wear of an asset (one unit a month) and the quantity
  of the one product (one unit a document). Mappings either post a kind into a
  book or do not; vouchers that do not balance are refused in the code. Bills, funds,
  settlements and containers are left out, and months that have not ended; they only
  refuse more. An approval's control gates are the stock of the control book. Any request
  may end without effect (`Refuse`). Workflow effects of the same transaction are in
  Processes, which leaves the books alone.
* DocumentList: one page of all documents, in which a document has one submission; filters,
  paging, reasons, payloads and the confirmation dialogs are left out, and the decisions
  offered are those of the approval rules. A decision the server refuses for reasons of its
  own may be refused at any time.

## Not modelled

* *Prior facts taken over, service contracts, production limits and the intermediary
  calculation*: sums over lines and dates under the row lock of the control
  book, one operation at a time, like those of Quantities; the records they start from
  are entered once, and the calculation is a pure function of the facts it is given.
* *Auxiliary data, sessions, users, roles, departments, scopes*: records with revisions, each
  operation one transaction under its row's lock, and password hashing. The models take
  permissions as constants.
* *Reports and workflow definitions*: the approval life cycle that
  ApprovalPersistence has already, over other tables. *Workflow scripts*: an interpreter
  compiled from Go; Processes takes from it which edges match.
* *Attachments of vouchers*: the protocol of Attachments over other tables, plus download
  tokens, in code of its own that was not compared statement by statement.
* *Money, amounts and quantities*: decimal arithmetic on strings without state.
* *Bootstrap, upgrades and cutovers*: run once, by an operator, with every writer stopped.
* *HTTP routes, workbench, generated clients and schema, the layout of the front end*: wiring,
  queries and generated code; they keep no state that the properties are about. Much of
  the source is of this kind.
* *The editing forms of the front end and the pages of archives*: the client of Attachments
  stands for what a form sends.

## Plan

Done: 1 approval, 2 archives and their abstract specification, 3 transactions and
locks, 4 attachments of archives, 5 vouchers and their chains, 6 running workflow
instances, 7 accounting with its months, 8 the list page of documents, 9 quantities and
amounts of an order's documents. What would come next, the most important first:

10. The archive references of documents against the unapproval of a version.
11. `Definitions`: deletion, trials and enablement of workflow definitions, and bills,
    containers and settlements in `Accounting`.
12. `Sessions`, `AuxReferences`: small modules with races of their own; the editing
    forms of the front end, with their uncertain submissions.
13. Pure algorithms against reference definitions: order amounts, first-in-first-out
    allocation, moving averages, rounding of depreciation.
14. A second instance of `Attachments` for vouchers, with download tokens; shutdown.

Theorems still worth stating: what remains of `AdoptedFilesExist` and `NothingLeaks` under
retries; that a document's approval in `Vouchers` is a step of `ApprovalPersistence`; those
of the plan's next modules. No module that is proved about declares a RECURSIVE operator.
