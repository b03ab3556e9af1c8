# billgen: the verification project

billgen is a multi-tenant invoicing system for Belgian companies: a Python core (`core/`),
SQLAlchemy persistence (`db/`), a FastAPI service (`api/`), a desktop packaging of the same
service over SQLite (`desktop/`), and two frontends, web and desktop, over one React library.
This directory holds TLA+ models of the parts where order, concurrency and failure decide
whether the books are right and whether the screens tell the truth about them, the TLC runs
that check them on small instances, and TLAPS proofs for every size.

Contents: [inventory](#1-inventory), [the modules and the code](#2-the-modules-and-the-code),
[the runs](#3-the-runs), [the proofs](#4-the-proofs), [what is not modelled](#5-what-is-not-modelled),
[the plan](#6-the-plan).

## 1. Inventory

**How it runs.** Endpoints are synchronous functions that FastAPI runs on a thread pool, so
requests of one organization run concurrently. Each use case opens one or more units of work
(`db/repositories/unit_of_work.py`); leaving one without `commit()` rolls back. The hosted
system uses Postgres at READ COMMITTED; the desktop uses a SQLite file through pysqlite,
where a SELECT before a transaction's first write runs in autocommit. There are no version
columns, and the only explicit row locks are the ones `sequences.next_value()` and
`quota_guard()` take, on Postgres.

| Component | State | Operations | Talks to | What makes it correct |
|---|---|---|---|---|
| Invoices (`invoice_service`) | `invoices` rows: status, number, reference, link to a credit note | create_draft, duplicate, issue, void, delete_draft | numbering, quotes (convert), document archive (after issue) | gapless series; a number never moves or disappears; only drafts are deleted |
| Numbering (`numbering_service`, `sequences`) | one counter per company and series or monthly bucket | next_value inside the caller's transaction | invoices, credit notes, quotes | a rollback gives the number back; no number twice |
| Payments | `payments` rows, the invoice's status | record | invoices | never beyond the total; status = what the payments say |
| Credit notes | `credit_notes` rows, the invoice's status and link | issue | invoices, numbering | gapless; a credit note cancels exactly one invoice, for good |
| Quotes (`quote_service`) | `quotes` rows: status, converted invoice | create, mark_sent, accept, reject, expire, convert, delete | invoices (create_draft) | decided stays decided; converted once, to an invoice that exists |
| Documents (`document_service`, `documents/archive`) | files, `.part` files, `documents` rows with hashes | archive_invoice, rebuild | issue endpoint, PDF rendering, file system | no torn file; rendered once; hash honest; repair works |
| Backup (`backup_service`) | a payload of all tables | export, restore, portable forms | everything | a consistent cut; restore gives back the same books |
| Entitlements | none of its own: counts rows | quota_guard, count_used | invoice and member creation | a quota is never exceeded |
| Sessions (`auth_service`) | refresh tokens, credentials | login, refresh, logout, change_password | members | a token is used once; a password change closes every session |
| Templates | template rows with `is_default` and `published_version`, immutable versions | create, update, publish, set_default, delete | PDF rendering | one default per company and type; published versions stand |
| Expenses (`expense_service`, `tva/`) | expense rows with a state, a classification, a link to the row they repeat | import_document, review, delete, position | invoices (VAT collected) | only allowed transitions; no supplier invoice summed twice; what a person confirmed stands |
| Onboarding, privacy, members | acceptances, consents, roles | accept, record_consent, erase_client, set_member_role | documents | idempotent acceptance; an owner remains |
| Import (`import_service`) | companies, clients, products | preview, run | - | a second import adds nothing |
| Desktop backups | dated zips | write_backup, prune | backup | the newest thirty are whole |
| Rate limiting | hit lists in memory | dispatch | every request | the budget holds around one await |
| Money, VAT and compliance rules | none | pure functions | invoices, credit notes, quotes | totals agree; rounding bounded |
| Web session (`lib/apiClient.ts`, `frontend-saas/auth`) | the token pair in localStorage, what the page says of the person, calls in flight | sign in, sign out, reload, request with refresh and retry | sessions, every screen | page and tokens agree; no live session nobody holds; every call ends |
| Query cache (`hooks/queries.ts`, `providers/`) | cached answers, mutations in flight, the upgrade dialog | queries, mutations, invalidation | API client, every screen | what one's own write changed does not stay on the screen |
| Invoice builder (`panels/InvoiceBuilderPanel.tsx`) | customer, lines, rates, totals, overlay | edit, pick, preview, create | query cache, VAT rates and treatment | totals are of the lines shown; rates follow the treatment; one draft per composition |
| Invoice workspace (`workspace/`, a scaffold that is no route yet) | step, draft, drawers | compose, review, deliver | (its caller) | the drawer edits its line; the sums add up, and what is printed where it can be read |
| Invoice lists and detail (`panels/HistoryPanel`, `InvoiceDetailPanel`) | dialog, form, mutations | issue, delete, void, credit, pay, duplicate | ledger endpoints | recorded once; the outcome is shown |
| Template studio (`shell/TemplateStudioScreen`, `workspace/`) | the edited template, the row it belongs to, a drag | pick, arrange, hide, save, publish | templates | required blocks stay; a save goes to its own row; no older save wins |
| First run (`panels/OnboardingWizard`, `panels/CompanyForm`, `shell/FirstRunGate`, `ProductShell`, desktop `App`) | window state, step, status and company list as read | connect, company, name, accept, seed, finish | onboarding and company services | shows the server's facts; can be finished |
| Product list, company settings (`panels/`) | list, page, drawer, drafts; sparse edits and verdicts | browse, edit, create; edit, save | query cache, PATCH endpoints | an edit reaches its own record; others' edits survive |
| Shell (`shell/ProductShell`, `routes`, `scaffold/ia.ts`) | build, location, company, palette, tour | navigate, search, switch company | every screen | no door leads nowhere; the company changes only on request |
| Reporting, alerts, search, e-invoicing, PDF layout, dashboards, audit tool | none, or presentation | queries and formatting | - | - |

**What is hard.** (1) Every use case reads a row, decides, and writes the whole row back
later: what it writes may be stale. (2) The number of a failed issue has to come back.
(3) SQLite and Postgres lock differently. (4) convert() is three transactions, archiving
happens after the commit and on a file system: each may stop half-way. (5) A screen acts on
answers that are late, lost, out of order or no longer true, and a person presses buttons in
between. `PROJECT.json`
("hazards") has each at its line, with the properties that cover it.

## 2. The modules and the code

`Serial` appears in five server models (the ledger and documents have their own, quotes,
expenses and templates take it from `RequestThreads`). `TRUE` means that callers keep to one
request in flight per invoice (per quote; one archiving pass, one expense or template request
at a time); requests on *different* invoices and quotes still interleave freely. Nothing in the code enforces it: with it the
runs and proofs show that the services themselves are right, and without it they show which
guarantees survive races (`CreditSeriesGapless`, `SeriesLockWorks`, `Repaired`) and which do
not (`void_while_issuing`, and the list at the end of section 3).

### The ledger: `LedgerData`, `AtomicLedger`, `InvoiceLedger`

`LedgerData` is the row and the functions that compute the next row. Two clients may have
the same initials, so references may clash; the unique constraint then refuses the issue.

`AtomicLedger` is the promise: create, issue, record, void, credit and delete each act on
the books at one instant.

`InvoiceLedger` is what runs. The committed tables are `invoices`, `paid` (the sum of an
invoice's payments), `creditNotes`, `counter` (the two series) and `bucket` (per client and
month). `tx[r]` is what request `r` has read and computed, and its uncommitted writes.

| Phase of a request | Code |
|---|---|
| `read` (`BeginIssue`, `BeginRecord`, ...) | `uow.invoices.get()` and the status check |
| `summed` (`SumPayments`) | `payments.list_for_invoice()` and the overpayment check |
| `counted` (`ReadCounter`) | the SELECT of `next_value()` |
| `written` (`NumberInvoice`, `InsertCreditNote`, `InsertPayment`, `InsertAudit`) | the first flush: counters, credit note, payment, audit entry |
| `reselected` (`Reselect`, `ReselectVoid`) | `update()`/`delete()` load the row again |
| commit (`CommitIssue`, ...) | the UPDATE with the columns that differ from the reloaded row, or the DELETE, and COMMIT |

`Merged` is the important detail: `update()` copies every column of the caller's copy onto
the reloaded row, and SQLAlchemy sends the columns that changed. A column the caller read
before someone else changed it is sent back to its old value. `HoldsSeries`, `SeriesFree`,
`KeyFree`, `InWrite` and `MayWrite` are the locks of the two engines; `Unique` the two
constraints on numbers. `Rollback` may happen at any point. A blocked compliance report is a
`Rollback` before any number is taken.

### Quotes: `QuotePipeline`

`quotes` (status, converted_invoice_id), `drafts` (the invoices conversions created) and a
history variable `returned` with the conversions that were answered with success. A
conversion is `BeginConvert`, `CreateInvoice`, then `ReadForConvert`, `Reselect`,
`CommitTransition`: three transactions, with `Fail` between any two. `DeleteInvoice` is
`InvoiceService.delete_draft()` on such a draft.

### Documents: `DocumentRegister`

`file` and `staging` say what is at a document's path and at its `.part` path; `register` is
the hash recorded for an invoice; `template` stands for everything else a rendering depends
on. A pass renders, opens (truncates) the `.part` file, writes it, renames it, registers
it. An open file follows the inode when somebody else renames it (`at`), so a writer may go
on writing into the target. `Fail` is one document's failure, `Crash` the death of the
process, `Lose` a person deleting a file, `Edit` a change of template. The file system's
behaviour (`Over`, `Moved`) is external to the repository and modelled from POSIX semantics.

### Quotas: `QuotaGuard`

A creation that is metered opens a session, locks the organization's row, counts this month's
rows, and opens a second session that writes and commits before the first is closed. `req[r]`
is how far a request is and which month it counted; `Connections` what it has checked out of SQLAlchemy's pool, which is
external. Waiters for the lock hold a connection, so the pool may be full of them
(`Exhausted`); `PoolTimeout` is what then happens to the one that has the lock. Converting a
quote asks no quota (`ConvertUnmetered`), drafts may be deleted, and the month may end between
count and row.

### Backup: `BackupRestore`

`AtomicLedger`'s books and use cases (`LedgerStep`), and an export that
reads invoices, credit notes, payments and counters in the order of `export()`, each as it is
committed by then. `Restore` inserts what the file has into an organization whose books are
empty; a credit note whose invoice is not in the file violates its foreign key (`Restorable`).

### Desktop backups: `DesktopBackups`

`run()`: a backup before the port opens, the session, a backup after it. `folder[d]` is the
database version in the zip of day `d` (or `Torn`), `write` the backup under way. `Covered` is the
skip of a start-up backup when the day has an archive, `OpenStaging` to `Rename` the writing,
`Unlink` one deletion of the rotation. The shell may kill the process at any step, a step may
fail (`safe_backup` swallows it), and midnight may come at any time.

### Rate limiting: `RateLimit`

The two sliding windows of one address, `hits` and `authHits`, as lists of times that are trimmed
when they are looked at: every request, and failed attempts on the sign-in paths, which are
charged after the `await` of the answer. `admitted` and `failed` are history variables: every
time that was ever charged, in order. The properties are about them, not about the lists.

### Expenses: `ExpenseInbox`

`expenses[k]` is the row of the k-th import: the fields read off the document, its state, the
row it repeats, and its classification (money in cents, rounded half up). `Look` and `Store`
are the two ends of `import_document()`, `Read` and `Confirm` of `review()`; the document
checks, `Classify`, `CanTransition` and `TvaPosition` are the pure functions of `core/tva`.
A VAT number is a record of whose it is and of how it was typed, because `find_duplicate()`
compares what was typed.

### Templates: `TemplateLibrary`

One company and document type: `rows` (default flag, draft, published version), the immutable
`versions`, and what each request has read. `update()` and `set_default()` write back every
column they read. `clear_default()` is one UPDATE: it changes the rows its snapshot shows, after
the transactions that have locked them (`awaits`) have ended.

### Money: `InvoiceMoney`

The figures `invoice_totals()` and `vat_buckets()` return, and the amounts of the e-invoice's
allowances and subtotals, as operators over a document that is composed line by line. Amounts
are hundredths of a cent, and what a document discount leaves of them is a fraction `Kept / Of`,
so that only the returned figures are rounded, half to even, as in the code. Python's 28 digits
are taken to be exact.

### The services together: `MCServices`

Quotes, backups on the server and on the desktop, the rate limiter, expenses, templates and
money have no table, file or counter in common (a backup reads the tables of the ledger, which
is why `BackupRestore` has the ledger inside). For each of them a behaviour of the server is
a behaviour of that service alone, so `MCServices` lets one of them move, whichever it is.
Names are told apart by the service (`QuoteInit`, `DesktopNext`, `ExpenseRow`, ...).

### The web session: `ClientSession`

A token pair is a number: an access token the server accepts until it expires, and a refresh
token that is a row (`row`, `owner`, `parent`). `store` is localStorage, `page[t]` what
`SessionProvider` and the router show, `call[c]` a request and how far it is: sent, answered
with a 401 and `exchanging`, `checked` by `refresh()`, `minted`, `retried`. The two steps of
`refresh()`, `RefreshCheck` and `RefreshCommit`, are one transaction without a lock.
`Reload` drops what a tab had in memory and asks `GET /users/me` again; `ChangePassword` and
`Expire` strike at any time, `Lost` is a request or an answer that does not arrive.

### The query cache: `QueryCache`

`Reads` says which server data each query's endpoint reads, `Writes` what each mutation's
endpoint writes, `Invalidates` what its hook's `onSuccess` names: the three tables are
translated hook by hook and endpoint by endpoint. React Query itself (fetch on mount and on
invalidation, cancellation of an older fetch, `retry: false`, `staleTime`) is external and
modelled from how the hooks use it. Entries do not influence each other, so the state holds
one entry, of any key, beside the mutation in flight. `Followed` names the keys whose hooks
mean to follow every write; the others are listed under the hazard at `queries.ts:164`.

### The screens

Each screen's module has the component's `useState`, `useRef` and mutation state as
variables, one action per handler (with the effects React runs before the next event), and
the answers of the server, refusals, losses and other users as actions of their own. What a
person types is a value that can be told apart from every other, never a text.

| Module | State and actions | Abstracted |
|---|---|---|
| `InvoiceBuilder` | lines with rate, spelling and who set it; `Render` is the two effects (preview, applied default); `FillFromProduct`, the new-item overlay and its closure, `HandleCreate` and its answers | description, quantity and price are one bit: valid |
| `InvoiceWorkspace` | step, draft, the drawer's local copy; `VatSummary`, `ComputeTotals`, `LivePreview`, `ReviewSummary` are the arithmetic of `totals.ts` and of the three places that print it, in units that make it exact | a description is one bit, an amount's text is plain, has a comma or is garbage, dates are small numbers |
| `InvoiceActions` | the dialogs of both screens, each hook's pending and error state, what the server recorded per filling of a form; `Legal` and `After` are the services' checks and outcomes, which `InvoiceLedger` has in detail | one step per service call |
| `TemplateStudio` | stored rows, the list as read, the edited template with its blocks, gallery and editor, drag; `Apply` is the service, `Answered` the screen after the list was read again; `of` and `abandoned` are history: the row a composition was made as, and whether a workspace was left while a create was under way | appearance and block properties are one bit |
| `FirstRun` | the desktop window, the gate, the shell with its list of companies and its form for the first one (`Outlet` is where the wizard can be), the wizard's steps, the requests of this and of closed windows, the facts of the onboarding service | a company is none, invalid or valid, of several the one judged is chosen freely (the first by name); the list's reads once it has one |
| `ProductList` | the query cache per filter, sort, page, the drawer with its draft and pending update, the create dialog | a product is its last typed text and status |
| `CompanySettings` | per window: the cached record, verdicts, sparse edits, the PATCH in flight and the row its handler read | a field is one text, raw or cleaned |
| `ProductShell` | `IA` is the tree of `ia.ts`, `Builds` what each frontend exposes, `Routes`, `Landing`, `Built` what the router mounts, `Doors`, `PaletteDoors`, `RecordCommands` what can be pressed; the company list and the pinned company; the palette; the tour | record ids, labels, icons |

`MCScreens` composes them: one screen is mounted and its state dies with it, so a behaviour of
the product is a behaviour of the screen it has mounted, and the properties are about whichever
that is. The router mounts all but the invoice workspace, which no route leads to yet and which
is mounted on its own.

## 3. The runs

Server runs have two concurrent requests: the races of this code are between a reader that
has gone stale and one writer. Three invoices let two requests work while a third has been
numbered; `Total = 2` has a partial and a full payment. Client runs bound what a person does
(`MaxClicks`, `MaxSteps`, `MaxForms`, `MaxStudioMoves`, `MaxDetours`, `MaxListMoves`,
`MaxEdits`, `MaxShellMoves`), what fails (`MaxFaults`, `MaxLosses`, ...) and what others do
(`MaxOthers`); each bound is a named constant, and large enough for two overlapping uses of a
dialog or form with one loss (`MaxStudioMoves` is 7 because a template's create that is answered
after its workspace was left needs seven: without the exception `OwnRow` makes for it, TLC finds it
violated). Runs whose instance stops when its ids or moves are used up
disable the deadlock check. Three imports are a document, its copy and one more after a
deletion; three templates let a default move while another is deleted; one restore is enough
for books that go on from a file (`RestoreNumbersOnce` is proved for any number of them);
four days with a rotation of two push archives out; five instants let windows of three
slide; the amounts of the money lie on and beside half cents.

| Run | Setting | Checks | Shows |
|---|---|---|---|
| `ledger_pg_serial` | Postgres, Serial, 3 invoices, clients with equal initials | `TypeOK` `Gapless` `StatusMatchesPayments` `CreditNotesCancel` `NoNumberCollision` `CreditNotesGapless` `ImplementsAtomicLedger` | the services are right when requests on different invoices interleave and roll back |
| `documents_serial` | 2 invoices, 1 edit, 2 deletions, 2 faults | `WholeFiles` `HonestUntilFault` `RenderedOnce` | staging and renaming work for one pass at a time; rebuild re-records the hashes of what it re-renders |
| `documents_repair` | racing passes, 1 deletion, 2 faults, fairness | `Repaired` | rebuild always ends with every document filed and registered |
| `quota_guard` | 3 requests, 3 connections, 2 a month, 2 months, fairness | `WithinQuota` `RequestsEnd` | the lock keeps guarded creations within the allowance; every request ends although waiters may hold the whole pool |
| `services` | the seven services below, Serial, each with its bounds | the 12 properties below | see below |
| `session_serial` | one tab, one call at a time, 2 people, 3 token pairs, 2 losses | `SingleUse` `NoOrphanSession` `PageMatchesTokens` `FreshTokensKept` `Settles` | expiry, revocation, reloads and losses at any step leave page and tokens in agreement, and every call ends |
| `query_cache` | all keys and mutations, 3 writes, 1 loss | `OwnWritesSeen` `StaleViewsRefresh` | the invalidations of the hooks cover what the endpoints write, for the followed keys |
| `screens` | the eight screens, each with its bounds | the 8 properties below | see below |

The properties of `services`:

| Service | Instance | Properties |
|---|---|---|
| quotes | 2 quotes, 3 drafts, 2 requests | `ConvertHonoured`, `DecidedStaysDecided`: an answered conversion stays the one its quote is linked to, through failures between its transactions; statuses move along `_ALLOWED` |
| backup | 2 invoices, an export and its restore, and what is committed before, beside and after them | `NumberedOnce`: restored books never give out a number again; `UndisturbedWhole`: a backup nobody wrote beside gives back whole books |
| desktop backups | 4 days, rotation of 2, kills and failures at every step | `NewestIsNewest`, `RotationKeeps`: no torn or misleading archive, none pushed out too early; `EarlierDaysSaved`: the past is saved before the app serves |
| rate limit | 2 calls in flight, 5 instants, windows of 3, limits 3 and 2 | `LimitsHold`: no window lets more through (`WindowBound`), failures exceed theirs by at most what is in flight (`AuthBound`), nobody is refused for what is past (`BudgetsExact`) |
| expenses | 3 imports of 7 kinds of document, percentages 33 and 101 | `CountedOnce`: no document is summed twice; `DecisionStands`: what a person confirmed stands |
| templates | 3 templates, 2 drafts, 2 versions | `OneDefault`: one default, and every pointer at the last version |
| money | 3 lines, 5 VAT keys (two categories with one rate, two rates of one category), 2 amounts, line discounts, 5 document discounts | `FiguresAgree`: separate rounding costs a cent (`HeadlineAgrees`), report and invoice agree (`BucketsMatchTotals`), so do e-invoice and invoice (`TaxableNetsOut`: a cent, and half a cent for every VAT key, because one key absorbs what rounding left of all), and the VAT position of a period claims no more than was detected (`PositionAddsUp`, of the expenses) |

The properties of `screens`, with their parts:

| Property | Parts |
|---|---|
| `ScreensTypeOK` | the workspace's drawer is open only over an item that is there, whatever removed the item; an action's hook has one latest mutation, only cleaned texts are sent, a read follows every mount of the gate, the shell counts on a company only when there is one. Not claimed of the builder, whose overlay may stand over a line that was removed behind it (filling it then fills nothing), nor of the product list's editor |
| `MoneyShown` | `TotalsMatchLines`: the builder's totals are the server's for exactly the lines and category shown; `FreeLinesFollowTreatment`; `TotalsAddUp`: the workspace's subtotal, VAT rows, VAT and total add up, with and without an invoice discount, over all lines and texts the instance can build, and the preview's rows too where none of them is NaN |
| `PressedOnce` | `OneDraftPerComposition`, `RecordedOnce`, `CreatedOnce`: one filling of a form stores one draft, one payment or credit note, one product, unless an answer was lost |
| `TrueToItsRecord` | `DrawerShowsLine` (workspace), `OutcomeShown` (invoice dialogs), `RequiredShown` and `OwnRow` (studio: a save or publication is of the row its composition was made as or opened from, unless a workspace was left while a create was under way), `WizardCurrent` (first run), `EditsOwnProduct` (products), `VerdictsHonest` (company) |
| `NoDeadDoors` | in every build of the shell |
| `NoSaveUndone` | `SavesInOrder`: no template row is overwritten by an older save; `OthersEditsSurvive`: no PATCH brings back what another window replaced, if PATCHes do not overlap on the server |
| `TotalsAppear` | a valid draft in the builder in the end shows totals |
| `FirstRunFinishes` | a diligent person gets through the first run: the shell's company form, which stands before everything else, and then the wizard |

Four runs expect a violation: each states what a comment says, and TLC finds a behaviour of
the code that contradicts it (quoted in `PROJECT.json`, "findings").

| Run | Violates | The behaviour |
|---|---|---|
| `void_while_issuing` | `Gapless` | void() writes a draft's NULL number over the number issue() committed |
| `refresh_twice` | `FreshTokensKept` | two calls meet a 401 together; the one that loses the rotation clears the pair the other has just stored |
| `reverse_charge_taxed` | `ReverseChargeUntaxed` | a product picked before the customer keeps its rate under reverse charge |
| `allowance_parts` | `AllowancePartsExact` | with four VAT keys the residual of rounding can make a part negative, which is not emitted |

The same root causes have more consequences, which show when a property of a passing run is
checked in the other setting. `Serial = FALSE`: `Gapless` (the row is numbered between
delete()'s check and its DELETE, so a numbered invoice disappears), `StatusMatchesPayments`
(two payments add up the same earlier ones), `CreditNotesCancel` (void() erases the link a
credit note has just set), `DecidedStaysDecided` (accept() and reject() both read a sent
quote), `ConvertHonoured` (two conversions), `WholeFiles` (two passes share one `.part`
file). `Engine = "sqlite"`: `NoNumberCollision` (the file lock serializes the writes, not the
read of the counter; the unique constraint then refuses the second issue). Two calls in
`ClientSession`: `SingleUse`. `SerialPatches = FALSE`: `OthersEditsSurvive`.

`Serial = FALSE` in `services`: `CountedOnce` (two imports of one document both find no
duplicate, although `db/models/expense.py:47-49` says that the second copy is kept out);
`DecisionStands` (two reviews of one expense); `OneDefault` (two first templates each see an
empty list and become the default, although `template_service.py:6` promises exactly one; and
an edit that overlaps a publish writes the old version pointer back, although "published
versions are untouched", `template_service.py:145`).

Further disagreements that need no overlap, with the module in which the behaviour can be
followed: a copy whose VAT number is typed with a space is summed again, because
`find_duplicate()` compares what was typed and nothing calls `duplicate_key()`
(`ExpenseInbox.FindDuplicate`); the original of a duplicate cannot be deleted, since
`duplicate_of_id` has no ON DELETE, although `delete()` is "allowed at any state"
(`Deletable`); an invoice issued between the reads of an export is in its counters and not in
its invoices, so that the restored series has a hole, which ADR-0003 rules out
(`BackupRestore.ReadSequences`, `disturbed`); killed and started again on one day, the desktop
app serves although no archive has the last session, although `desktop/backups.py:97-98` calls
it safe (`DesktopBackups.Covered`); Edit company leads through the gate back to the wizard, so
an invalid company cannot be corrected during the first run, and the texts may be accepted
before the names they name are typed (`FirstRun`).

**Fairness.** `documents_repair`: `WF` on each request's own steps (a worker thread that has
work runs on; faults are separate, bounded actions) and on starting `rebuild` (the operator
runs the repair again, which is what `POST /documents/rebuild` is for). No fairness is put on
issuing, editing, deleting or failing. `Repaired` says that file and row are there, not that
the file is whole: with racing passes it need not be. `session_serial`: `WF` on what the
server and the browser owe each call, nothing on people, expiry or faults. `query_cache`: the
server answers a fetch, the answer is stored, and a successful mutation runs its callbacks.
`quota_guard`: `SF` on each request's own steps, because the lock and the pool are given to one
waiter at a time (Postgres and the pool queue their waiters, and threads run); nothing on
arrivals, conversions, deletions or the calendar. `screens`: previews and treatments are answered; in the first run the window connects,
requests and reads are answered, the status and the list of companies are read again when the
window is looked at again, and the person is *diligent*: does what a step offers and is still needed, and comes back
from the last step to what is missing. `FirstRunFinishes` is a statement about such a person;
someone who never presses a button finishes nothing.

Every property has at least one mutant of a mapped definition (a dropped check, a missing
constraint, a number consumed outside the transaction, a skipped staging file ...) that
makes TLC find it violated; the mutants stand beside the definitions as "faulty variants".

## 4. The proofs

All theorems hold for arbitrary finite or infinite sets of invoices, clients, months,
requests, quotes, drafts, tabs, people, documents, days, lines, templates, products, windows and
texts (finite where the module counts them), from the named assumptions of the modules only:
`LedgerAssumption`, `EngineAssumption`, `PipelineAssumption`, `RegisterAssumption`,
`SessionAssumption`, `QuotaAssumption`, `BackupAssumption`, `DesktopAssumption`,
`ExpenseAssumption` (with `RequestAssumption`), `TemplateAssumption`, `RateAssumption`,
`MoneyAssumption`, `CacheAssumption`, and of the screens `BuilderAssumption`,
`WorkspaceAssumption`, `ActionsAssumption`, `StudioAssumption`, `FirstRunAssumption`,
`ListAssumption`, `SettingsAssumption` and `ShellAssumption`. They say that bounds are naturals, that the
distinguished values (`None`, ...) are not members of the sets they complete, and, for the money,
what a request schema admits. The bounds on clicks, moves and faults are parameters like any
other: a proof says nothing about small ones in particular.

**`InvoiceLedgerProofs`**

- `TypeCorrect`: `Spec => []TypeOK`.
- `CreditSeriesGapless`: the credit note series is gapless on both engines *whatever
  callers do*. `CreditNotesGapless` alone is not inductive: a request that has written its
  credit note must hold exactly the next number. `SeriesInv` adds that: at most one request
  is past the insert on an engine (`SeriesExclusive`), and its number is the counter's next
  (`CreditNumberNext`).
- `SeriesLockWorks`: on Postgres no request is about to write a number another row has.
  `LockInv` adds that the holders of the lock exclude each other and that every number in
  the table is at most the counter, which is below the holder's number.
- `SerialBooks`: under `Serial`, `Gapless`, `StatusMatchesPayments` and `CreditNotesCancel`,
  on both engines. `SerialInv` is the books' invariant plus what makes a request's copies
  good: one request per invoice (`OnePerInvoice`), what it read is what is there
  (`CopiesCurrent`), and what it will write follows from it (`PendingWrites`). On SQLite the
  number in hand may be stale; lemma `CommitNumber` shows that the unique constraint and the
  absence of gaps leave only counter + 1 at a commit.
- `SerialStatuses` and `SerialCredits` state the two parts of `SerialBooks` by themselves.
- `SerialRefinement`: under `Serial` every step is a step of `AtomicLedger` or changes no
  table: all steps before the commit stutter, and `CommitIsAtomic` maps each commit to its
  use case with the arguments the request began with.

**`DocumentRegisterProofs`**: `TypeCorrect`; `SerialWholeFiles` and, if paths are distinct,
`SerialRenderedOnce`, from `PassInv`: one pass at a time, a staged file holds the bytes of
the document in hand, and the rows the pass read are current. The hypothesis on the paths is
needed: two companies of one organization can have one reference and so one path. `SerialHonest` adds `InHand` (the
row the pass read for the document in hand is current, and after the rename the file has its
bytes or has been deleted); the hypothesis that nothing has failed yet is needed:
after a crash between the rename and the row the hash stays the old one.

**`ClientSessionProofs`**: if a browser has at most one request in flight (`OneAtATime`),
`OneCallSingleUse`, `OneCallPages`, `OneCallNoOrphans` and `OneCallFreshTokens`, for any
number of pairs, people, tabs and lost answers. The hypothesis is needed: `refresh_twice`
breaks `SingleUse` with two requests. The properties are not inductive together. `SessionInv`
adds what a request carries (`Exchange`: the pair it spends is the stored one until it comes
back, a checked pair has not been exchanged, the pair it brings belongs to the person of the
pair it spent), that whatever is stored or carried was minted (`Minted`), that an exchanged
pair's row is revoked (`Rows`), and that only a tab that can make a request is ever signed in
(`Attended`).

**`QuotaGuardProofs`**: `QuotaHolds`, for any pool, allowance and number of requests. Alone,
`WithinQuota` does not survive a commit: `QuotaInv` adds that at most one request is between
lock and close (`OneHolder`), that nothing is created in a month to come (`Calendar`), and that
for a request that was let through the month it counted has room and later months are empty
(`RoomLeft`).

**`ServicesProofs`**, one section per service:

- Quotes. `TypeCorrect`; `SerialConversions` and `SerialDecisions` from `PipelineInv` (one request
  per quote, copies current, the drafts a request holds traced to its quote) and `Answers`.
- Backups. `RestoreNumbersOnce`: the invariant says of the live books, of an export at each of
  its reads, and of a finished file that every number is at most the counter (`LiveOK`,
  `ExportOK`, `FileOK`): counters are read last, so they are never behind the invoices.
  `UndisturbedBackupsWhole`: what was read while nothing was committed, and the books restored
  from it, are whole (`Gapless`, payments and credit notes in agreement). `WholeInv` says so of
  the live books, which `LedgerKeepsWhole` shows of every use case of `AtomicLedger`; of an
  undisturbed export, whose tables are the live ones as far as it has read (`ExportFollows`); and
  of the file. Whether the copies are taken one after the other no longer matters then, which is
  why the hypothesis `~disturbed` cannot go.
- Desktop backups. `ArchivesInOrder`, `StartSavesThePast` and `RotationSound`, for any number of
  days, any rotation and any kills, from: no archive is of a later day (`Past`), the export in hand
  is no older than any archive (`WriteCurrent`), what the day's archive covers (`DayCovered`), and
  that what is about to be unlinked has `Keep` newer ones (`Rotation`).
- Expenses. `ExpenseTypes` for any interleaving (`ExpenseInv`); `SerialCountedOnce` and
  `SerialDecisionStands` if requests do not overlap, from `SerialExpenses`: what a request has read
  (the row it judges, the absence of an earlier copy) still holds when it writes. The hypothesis
  is needed: two imports that overlap are both counted.
- Templates. `SerialOneDefault`, if requests do not overlap. `TemplateInv` is the types, the
  library as committed (one default as soon as there is a template, versions without a gap, every
  pointer at the last one), and that what the one open transaction has read or cleared still is so
  (`OneAtATime`, `ReadHolds`). Without the hypothesis two first templates both become the default.
- Rate limiting. `RateLimitExact`, for any limits and any number of calls in flight. `RateInv`
  relates the trimmed lists to the whole history: a list is the end of its history (`EndOf`), and
  what it has lost is out of every window that may still grow. The budget of failures needs
  `RoomForTrying`: while an attempt is in flight, the window it will be charged to has room for
  it. Windows are counted by cardinality, which the lemmas on `Within` reduce to intervals of
  places in the history.
- Money. `MoneyAgrees` (`FiguresAgree`): for any lines, any discount and any rates. `Rounds` says
  that a figure rounded half to even is off by half a unit (`Near`), `RoundedSum` that n of them
  are off by n halves, `PartsAgainstWhole` that parts rounded by themselves and their sum rounded
  once differ by n + 1 halves at most. `AmountSums` gives the unrounded sums, `SumUnderKeys` the
  same sums key by key, from `SumTheorems`; `Headline`, `Buckets` and `Taxable` are what is left,
  arithmetic without a division. `AllowanceNear` is where a key that absorbs the residual is told
  from one that does not. The VAT position needs an invariant of the inbox (`AmountInv`: what is
  recoverable is a part of what was detected, and nothing of a row that awaits review, also in
  the copy a review has read); `Position` then adds it up. It needs no hypothesis on requests.

**`SumTheorems`**: what a sum over a finite set obeys, whatever order the fold takes: `SumRemove`,
`SumLinear`, `SumScaled`, `SumBounded`, `SumConstant`, `SumSame`, `SumDisjoint` and `SumByKey` (a
sum is the sum over the keys of the sums under each key). The library's induction theorems have an
operator for a parameter and cannot be used here; `NumberInduction` and `FiniteInduction` take the
*set* of the numbers, or of the subsets, for which the claim holds. `FoldExists` and `FoldUnique` show
that the recursive function inside the fold exists and has one value.

**`QueryCacheProofs`**: `WritesFollowed` (`OwnWritesSeen`), for any number of mutations in flight
together (the run has one at a time). Half of the argument is in the tables of
`hooks/queries.ts`: `FollowedRefreshed`, proved group by group, says that a mutation that writes what
a followed query reads refreshes that query. The other half is the order of commit, callbacks and
delivery: `OwnWritesSeen` is about moments without a callback to come and so not inductive;
`CacheInv` says of every moment that an outdated answer is marked or that the callbacks of a
committed mutation will mark it (`Marked`, `Announced`).

**`ScreensProofs`**, one section per screen, each with an inductive invariant for any numbers of
lines, invoices, templates, products and windows, and `ScreensInv`, their conjunction. A step of
`MCScreens` is a step of the mounted screen, and the others stand still (`OneScreenMoves`).

- `ScreensTyped` (`ScreensTypeOK`): every screen keeps its types, the workspace's drawer
  stands over an item that is there, and the router is at a mounted address that does not redirect.
- `EveryPressOnce` (`PressedOnce`): nothing stored is of the form on the screen unless its answer
  was lost: `DraftsTell` of the builder, `FormsSpent` and `OneRecording` of the invoice dialogs,
  `Kept` of the product list. On the invoice list that needs `ListTells`: one action at a time.
- `ScreensTrue` (`TrueToItsRecord`): the drawer's copy is the line of its key, and keys are handed
  out once (`WsInv`); every layout in a gallery, a row, a request or on the screen shows the
  required blocks (`StudioFormed`), and a composition, its request, the row it edits and the row the
  list has of it are of one making until a create is abandoned (`OwnRows`, the ghost `of`); the status of onboarding is the server's unless a read is owed
  (`ReadsFollow`); whatever a list, a drawer or a request holds of a product is of that product
  (`Kept`); a verdict is about the record it was asked of (`ReadsCurrent`, `ReadStillHolds`).
- `MoneyRight` (`MoneyShown`): the builder's totals are of the lines shown, or are not shown; the
  workspace's VAT rows and review add up for any lines, and with the preview's rows for lines whose
  texts a bare `Number()` reads (`ComputedTotals`: `BasesAdd` and
  `VatAdds` are `SumByKey` over the rates).
- `SavesStand` (`NoSaveUndone`): at most one save of the studio is under way and no row is younger
  than one not yet applied (`OneSave`); PATCHes of a company do not overlap on the server
  (`SerialPatches`), without which an edit is lost.
- `DoorsLeadSomewhere` (`NoDeadDoors`): `ShellTypeOK` is inductive and implies it, by what is
  proved of the tree for all three builds. The provers cannot evaluate 100 records, so the tree
  is described by what its nodes are made of (`HeadAt`, `LeavesAt`): `TreeSections` says that
  every section has leaves at places of their own (`Fits`), `ChildrenOf` what `prune()` keeps of
  them, `NodesOf` and `LeafMounted` what is mounted then, and `LandsThere` that a redirect ends
  after one step, in the first release at a built screen. A breadcrumb is safe because a mounted
  page keeps its section in the build (`BreadcrumbsMounted`), although it is read off the unpruned
  tree.

**Only model-checked.** `Repaired`, `Settles`, `RequestsEnd`, `StaleViewsRefresh`, `TotalsAppear`
and `FirstRunFinishes`: liveness under fairness, which these provers do not reason about. Every
invariant and action property that a passing run checks is proved.

## 5. What is not modelled

Within the modelled parts: invoice and quote lines on the server (update() replaces all of
them), dates, party snapshots, amounts other than the total, the content of the compliance
report, audit entries as data, quote numbers, and lock-order deadlocks as such (Postgres
aborts one request, which is a `Rollback`). An invoice's row as read by `get()` is not kept
alive by the session's identity map, so `update()` sees what is committed by then; the models
also contain the behaviours in which it sees the old values. Serialization failures do not
occur at READ COMMITTED. The client session has one tab per run; the query cache has one
mutation in flight; the screens' server is one step per request. A backup has invoices,
payments, credit notes and counters: quotes, documents and the audit log travel the same way,
and the sealed and portable containers are formats. Quotas are the monthly meter; the Peppol
allowance goes through the same guard, and skips it for a document counted before. One sidecar at a time writes
desktop backups, and the rate limiter is one address. The VAT collected on invoices in a
period, the exception queue's order and template names are left out. A document discount of
more than 100 percent, which the schema admits, is outside `MoneyAssumption`: the totals then
turn negative and the row is refused.

Seen while modelling and left without a property, because the code does not promise the
contrary: a late answer of the product screen sets state that belongs to what was open before;
a template's create that is answered after its workspace was left gives its row to whatever is
open by then, and the next Save overwrites that row (`TemplateStudioScreen.tsx:177`); the
workspace's preview prints NaN in a row whose quantity or price has a comma, under sums that
count it (`LiveInvoicePreview.tsx:181-194` against `totals.ts:34-38`); the builder's overlay
stays open over a line that is removed behind it; the shell's form for the first company comes up
again after a lost answer or a list that could not be read, and sent again it leaves two
companies, since the desktop has no quota (`api/entitlements/deps.py:85-88`); the tour opens over whichever screen is shown although its comment says it
goes to the dashboard first; a second new template with the default name is refused without
a word; the wizard starts again at its first step whenever it is mounted; a retry after a
failed sign-out opens the application; `delivering` in the workspace is never reset; a late
`/users/me` overrides a language picked before it arrived; the palette shows the last hits
again when it is reopened.

Not modelled at all: tenancy filters (one organization per model), read-only reporting,
alerts and search, XML and PDF formatting, field validation, one-row CRUD on the server,
licensing, dashboards and reports, the client list (the pattern of the product list),
translations, and tooling. Members and roles: an organization gets its one member at sign-up and
nothing adds another, so a change of role has no one to apply to.

## 6. The plan

Done: the ledger with its refinement, quotes, documents, quotas, backups on the server and on
the desktop, the rate limiter, expenses, templates, money; the web session, the query cache and
eight screens. Next, in this order:

1. More proofs: what survives races, for the services that are proved for one request at a time
   (`ExpenseInbox`, `TemplateLibrary`).
2. `Acceptances`: accept() and complete() of onboarding as the two transactions they are, and
   the consent ledger of `privacy_service`.
3. Legacy import: one transaction that creates what it did not find by name.
4. Line-level detail of `InvoiceLedger`'s updates, and quotes and documents in a backup.
5. Several tabs in `ClientSession`; change_password() against a refresh under way.
