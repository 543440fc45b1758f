# HAQLY ERP: a formal model

This directory holds TLA+ specifications of the accounting API under
`apps/api/src` and of the web client under `apps/web` that calls it. With them
are TLC configurations that check them on small instances, and TLAPS proofs of
what matters most about them. File names below are relative to
`apps/api/src/modules` unless they start with `docs/`, `apps/` or `prisma/`.

## 1. The system

The program is a NestJS HTTP API over PostgreSQL (through Prisma), with a
Next.js client. The API keeps no state between two requests: everything is in
database rows. A handler is an asynchronous function: it reads rows, awaits,
decides, awaits, and writes. Several API processes may serve one database, and
even one process interleaves its handlers at every `await`.

Three facts about the code decide what is hard in it:

* Nearly every handler reads first and writes afterwards with
  `update({ where: { id } })`. The write carries no condition on what was read,
  no version number, and no lock.
* `prisma.$transaction` runs at PostgreSQL's default isolation level, READ
  COMMITTED. It makes several writes atomic. It does not make what was read
  before them still true. Only unique indexes do. Many handlers (sessions,
  roles, periods, reports) use no transaction at all.
* Client and server are compiled apart. What they send each other is checked
  when it arrives: by the router, the guards and the validation pipes.

So every rule of the form "only a draft may be edited" is checked on a copy of
the row that may be out of date when the handler writes.

### 1.1 Components

| component | source | state it keeps | operations | behaves hard because |
|---|---|---|---|---|
| Payment vouchers | `payment-vouchers/` | `APPaymentVoucherHeader` with lines, approval chain (JSON), attachments, approval history; its `JournalEntry` | create, edit, submit, recall, approve, reject, return, cancel, upload, post, initiate payment, mark paid | eleven handlers over one row; three status fields that have to agree; an external gateway in mid-handler |
| General journals | `journals/` | `GLJournalHeader` with lines, attachments, reversals; its `JournalEntry` | create, edit, submit, recall, approve, reject, cancel, post, reverse, generate from template | as above; reversals are journals themselves |
| Fiscal years and periods | `admin/admin.service.ts` | `FiscalYear`, `AccountingPeriod` statuses | create, close, lock a year; open, close, lock a period | the year's status is derived from the periods'; every booking depends on it |
| Posting engine | `posting/` | `PostingRule`, `PostingAudit` (unique idempotency key), `JournalEntry` | `post` | a document, its entry and its audit row come together or not at all; lines that balance, and are rounded afterwards |
| Sales | `sales/` | customers, invoices, receipts and their lines | create invoice (posts), create receipt, post receipt | a receipt is checked against balances other receipts change |
| Purchases | `purchases/` | suppliers, bills | create bill (posts) | the same posting transaction |
| Inventory | `inventory/` | `StockMovement` rows; stock is their sum | move stock | check-then-insert on a sum |
| Numbering | in vouchers, journals, sales | `NumberingSequence` | `nextVoucherNumber`, `nextJournalNumber`, `nextReceiptNumber` | read, add one, write back; numbers unique over all companies |
| Sessions | `auth/`, `lib/tokens.ts` | `RefreshToken`, `LoginAttempt`, MFA fields of `User` | register, login, refresh, logout, MFA set-up, activation and removal | token rotation, replay detection, lock-out counted from rows |
| Users and roles | `users/`, `admin/` | `User`, `UserRole` | create, deactivate, reset password, remove, assign roles | two statements, no transaction, and sessions in between |
| Browser session | `apps/web/lib/session.ts`, `hooks/use-workspace.ts`, login screen and shell | token in memory, selection in `localStorage`, refresh token in a cookie | sign in and out, enter a company, navigate, reload, select | shell and page each run the hook and refresh with one cookie; answers arrive after the page is gone |
| Middleware and guards | `apps/api/src/main.ts`, `app.module.ts`, `middleware/`, `auth/permissions.*.ts` | `AuditLog` | limiter, JWT guard, permissions guard, roles guard, pipes, audit, error filter | two sources of rights, the token and the database |
| API contract | the controllers and DTOs, `apps/web/lib/api.ts` | none | 134 routes, the calls of the client | nothing but the running program compares the two sides |
| Reports | `reports/` | none | trial balance, account statement, financial statements, ratios | several queries without a transaction; dates at range boundaries; statements that have to fit together |
| Direct accounting, fixed assets, depreciation, loans, imports, master data, stubs | the rest | rows of their own | create and list | little or nothing interacts |

Components meet in these places. The posting of a voucher, a journal, an
invoice, a bill or a receipt ends in a `JournalEntry`, whose `reference` is
unique; the reports read what was booked. Each posting first asks whether its
accounting period is open, and `admin/` may close the period meanwhile. A
document takes its number from a `NumberingSequence` row it shares with
documents of its kind. The browser session lives on the token handlers of
`auth/`. And every call goes through the guards, whose answer depends on roles
that `admin/` may be changing.

### 1.2 What makes each component correct

* A controlled document (voucher, journal) is edited only before review, is
  released by somebody other than its maker, at every level its chain asks for,
  on the content it then has; it is booked once, as released, in an open
  period, and what is booked is never withdrawn, only reversed, once.
* Fiscal years: no two of a company overlap; the periods of a year cover each of
  its days once, so a posting finds one period by its date; a locked year is
  locked throughout, and for good; its status follows from its periods'.
* Posting engine: one entry for a document; debits equal credits, up to what
  storing them in cents loses.
* Receipts: the ledger's receivables are those of the invoices, less the receipts
  that credit them;
  what is applied to an invoice never exceeds it; its status agrees with what
  is applied; numbers have no gap.
* Inventory: no issue takes more than there is.
* Sessions: one login has one refresh token at a time, and a token given up works
  again only if it is signed again in its second; failed logins are limited, and
  the lock-out ends; a reset password ends the sessions; what the API answered is
  what it stored.
* Browser session: the branch selected is one of the company selected; signed
  out stays signed out; two refreshes with one cookie split no login; no page
  loads for ever.
* API: every call finds its route and passes its pipes; what is served was
  permitted when it was; each change is audited once; a role taken away is gone
  from the tokens in the end.
* Reports: every line is counted once; columns balance; the statements fit
  together, and where they do not, by a difference one can name.

`PROJECT.json` lists the hazards behind these at their lines.

## 2. Modules

| module | what it is |
|---|---|
| `Sums` | the total of a function over a finite set of rows |
| `ControlledDocument` | abstract: editable, review, released, booked or dropped; what is booked is what was released |
| `AccountingPeriod` | abstract: the status of one period; once locked, only a request that looked at it before reopens it |
| `TokenRotation` | abstract: a login's one right to go on, handed from each token to the next, which is new or of the same second; a login that ended has ended for good |
| `PaymentVoucher` | every handler of one voucher, the gateway, and the period it is booked in |
| `JournalLifecycle` | every handler of one manual journal and of the reversals made of it |
| `FiscalYears` | the fiscal years of one company and their accounting periods |
| `PostingRules` | the posting engine's functions: rule, context, lines, merging, balance, storing |
| `TradeLedger` | invoices, bills and stock movements, each posted in its transaction; extends `PostingRules` |
| `CustomerReceipts` | receipts, their numbers, their posting, the status of invoices; extends `TradeLedger` |
| `Sessions` | accounts, logins, refresh tokens, lock-out, MFA, roles: statement by statement |
| `Workspace` | the browser's side of a session; extends `Sessions` |
| `ApiShapes` | what a payload, a field and a validation are; matching of paths |
| `ApiDtos` | every DTO, field by field |
| `ApiRoutes` | every route in the order the router tries them, with its guards |
| `ApiClient` | every call the web client makes, with what it sends |
| `ApiTraffic` | requests on their way through the API while roles and tokens change; extends the four |
| `Reports` | the reports as queries and functions of what they saw |
| `MCPaymentVoucher`, `MCJournalLifecycle`, `MCFiscalYears`, `MCCustomerReceipts`, `MCSessions`, `MCWorkspace`, `MCApiTraffic`, `MCReports` | their instances for TLC |
| `PaymentVoucherProofs`, `JournalLifecycleProofs` | theorems about the documents, whatever overlaps and then one request at a time, with the refinements of `ControlledDocument` and `AccountingPeriod` |
| `FiscalYearsProofs`, `CustomerReceiptsProofs`, `ApiTrafficProofs`, `ReportsProofs` | the theorems of these modules |
| `SessionsProofs` | the theorems of `Sessions`, and then of `Workspace`, which extends it |
| `SumsProofs` | lemmas about totals: over a union, over groups, of what is nothing; used by all proofs about money |

### 2.1 How a handler becomes actions

`Requests` is a constant set; `req[r]` says what request `r` is about to do.

In `PaymentVoucher`, `JournalLifecycle`, `FiscalYears`, `TradeLedger` and
`CustomerReceipts`, a handler `x` is

* `XRead`: reads the rows, checks the guards in the order of the code, and keeps
  in `req[r]` exactly the values the later write will use. A guard that fails
  throws, answers the client and changes nothing, so it is a disabled action and
  no request is in flight after it.
* `XWrite`: writes those values over the rows as they are by then. Fields the
  `update` does not name keep their present value, not the one that was read.
  Statements of one `$transaction` are one action.
* `Abort`: the request stops between the two. The process died, the database
  refused the statement, or the transaction was rolled back.

Handlers with more than two awaits that matter have more steps:
`addAttachment` creates the row (`AttachRow`), then writes the count
(`AttachCount`); `initiatePayment` reads, calls the gateway
(`InitiateGateway`), then writes; `postReceipt` works out the status of its
invoices (`PostReceiptRefresh`) before it commits.

In `Sessions` no handler is a transaction, so `req[r]` holds a program counter
as well, and every statement that writes is an action. In `Workspace` the same
holds of the hook's awaits, in `ApiTraffic` of the guards, in `Reports` of the
queries.

`Spec` lets the requests overlap in any way. When there is one request at a
time it may still die halfway. Some rules hold only then: these are statements
about the handlers' own logic, and their comment says "one request at a time".
The others say "however requests overlap". The first three modules get one
request from a constant (`Requests` with one element); the later ones choose at
the start (`alone`), so that one run checks both kinds of property.

### 2.2 `PaymentVoucher`

| variable | in the code |
|---|---|
| `voucher` | the header row: `status`, `workflowStatus`, `paymentStatus`, `createdBy`, `approvedBy`, `isPostedToGL`, `attachmentCount`; `chain` is the JSON `approvalChain`; `content` is all that the maker enters; `files` counts the attachment rows |
| `period` | `AccountingPeriod.status` of the period the voucher names |
| `ledger` | the `JournalEntry` rows with reference `PV-<voucherNumber>`, each with the content booked and the status the period had when it was |
| `finalApprovers` | auxiliary: who the approval history records as final approver |
| `instructions` | how many payment instructions the gateway accepted |
| `req` | what the requests in flight hold |

`seen` in a step of the chain is auxiliary too: the content its actor read.
Auxiliary state is written and never read by a guard.

`currentApproverId` is not in the model, because no call site ever gives it
another value than null, so the role alone decides who may approve. All routes
ask for one permission, so any user may call any handler. The one `accepted`
choice of `InitiateGateway` stands for the gateway adapter, of which the
repository holds a stub.

### 2.3 `JournalLifecycle`

| variable | in the code |
|---|---|
| `journals` | `GLJournalHeader` rows with their lines: the journal drafted (`Main`) and the reversals made of it, and of them |
| `period` | status of the one accounting period they share (a reversal copies it from its original) |
| `ledger` | `JournalEntry` rows, oldest first |
| `req` | as above |

`transitionStatus` is the common tail of five handlers, and one action here.
`Validate` is `validateJournalState`: at least two lines, totals that agree and
an open period. Amounts are `Decimal(18,2)` in the schema, so the code's
tolerance of 0.0001 is equality, and amounts are natural numbers here.

### 2.4 `FiscalYears`

| variable | in the code |
|---|---|
| `years` | `FiscalYear` rows, each with its `AccountingPeriod` rows in order of their first day; `Absent` is a row not yet created |
| `interrupted` | auxiliary: the years whose status a request died before writing |
| `req` | as above |

Days are numbers and every month has `MonthLength` of them. A timestamp at the
start or the end of a day is that day, which is all the code makes of dates. A
year may begin and end within a month, as `createFiscalYear` allows; the first
one, made by `createCompany`, is of whole months.

`updateAccountingPeriodStatus` has two writes without a transaction:
`UpdateAccountingPeriodWrite`, and `UpdateFiscalYearWrite` if the derived status
differs from the one that was read. `lockFiscalYear` has one transaction, so one
write.

`PaymentVoucher` and `JournalLifecycle` keep the status of one period only, and
change it by the same read and write. To them, closing and locking come from
outside at any moment, whatever the year. `TradeLedger` keeps the status of
today's period of each company in the same way (`ChangePeriod`).

`AccountingPeriod` states what both sides go by. `PeriodOf(y, i)` maps it to the
fiscal years: its `status` is that of the row (`StatusOf`; a period not inserted
yet counts as open, as each is made), and a request `asked` for what it is about
to write there (`Asked`; `lockFiscalYear` asks for every period of its year). In
the two documents `PostingPeriod` maps it to `period`. So what these allow to
happen to a period is what the fiscal years really do to it, and no more.

### 2.5 `PostingRules`, `TradeLedger`, `CustomerReceipts`

`PostingRules` has no variables. `ResolveRule` picks the posting rule with the
best score and refuses two of the same rank; `ContextValid` is `validateContext`;
`BuildLines` gives the lines of each pattern with rounding and exchange
adjustments, merged by account and memo; `EnsureBalanced` compares totals to a
hundredth of a cent; `StoredLines` is what a `Decimal(18,2)` column keeps.

An amount is an integer of a hundred-thousandth of a cent, the *unit*. Prices,
quantities and rates give products that are whole units, but the services add
them up in binary floating point. So base, tax and total are not exact:
`AmountsOf(form)` is the set of what the three may come to, each result off by
less than a unit (`Computed`), and a document takes any member of it. The total
is rounded once more, by itself. An invoice of 8.20 with 7.5 % tax has a tax of
61.5 cents; the model stores 61 or 62 of it and 881 or 882 in all, each
independently, as the code, which stores 8.20, 0.61 and 8.82. `IsExact` says when no
such error matters: the base is whole cents, and the tax lies not within three
units of half a cent.

| variable | in the code |
|---|---|
| `invoices`, `bills` | `SalesInvoice`, `PurchaseBill` rows |
| `movements` | `StockMovement` rows; a product's stock is their sum |
| `entries` | `JournalEntry` rows with lines; `exact` is auxiliary |
| `audits` | `PostingAudit` rows: idempotency key and entry |
| `receipts` | `CustomerReceiptHeader` rows with their lines, the account each credits, and the bank or cash account it is paid into |
| `sequence` | `NumberingSequence` of each company |
| `period`, `req` | as above |

`createInvoice` and `createBill` call the posting engine inside their own
transaction: the document, its movements, its entry and its audit row are one
action. The key that `ensureIdempotency` looked up is asked again when the row
is inserted (`KeyIsFree`, the unique index). `NumberIsFree` and
`ReferenceIsFree` are the unique indexes on a receipt's number and an entry's
reference. A receipt credits the account its form names and debits the one behind
its bank or cash account (`ReceiptLines`, `Settlement`); `AccountsValid` is all
that `prepareReceipt` asks of them. Receipts add amounts that `roundMoney` has
made whole cents and round again, so there cents are exact. Quantities are in
tenths, prices in cents and tax rates in tenths of a percent.

### 2.6 `Sessions`

| variable | in the code |
|---|---|
| `users` | `User` rows; a password and an MFA secret are a version number |
| `tokens` | every `RefreshToken` row there ever was; `stored` says whether it still is, `family` names the login it goes back to, `jwt` the string it is the hash of, `now` whether that string may still be signed again |
| `attempts` | failed `LoginAttempt` rows of the last 15 minutes |
| `req` | operation, next statement, and what was read |
| `granted`, `confirmed` | auxiliary: the roles, and whether MFA is on, as last answered |

`generateRefreshToken` signs the user and the present second, so all tokens of one
user and one second are one string. `Signed(u)` is what it may give: a string there
has not been, or one whose rows are `now`. `Issue` creates the row, or fails where
the unique `tokenHash` refuses a second one (`Holding`); a refresh has deleted the
old row by then, and its login ends. A refresh that is sent a string finds the row
that has it now. `SecondPasses` ends the second of all rows together. It waits while
a request is at the statement that signs and stores, because the one may fall into
an earlier second than the other; so a string can be signed again for a little
longer here than in the code, and never for less.

`AttemptAges` lets an attempt leave the window, `TokenExpires` a token, `Crash`
drops the requests in flight between two statements. A statement that only
reads is merged with the next one, unless what it read is used after a later
statement. `MfaSetup`, `MfaActivate` and `MfaDisable` are modelled as the
service does them, although the routes of the last two refuse every payload
(3.3).

`TokenRotation` is the abstract side: a login is a family, its rights are the
tokens of it that are stored and the requests that have deleted one and not yet
created its successor; what was handed out is every string ever issued, and what
is `recent` may be handed out again, to the user it was signed for and if no login
keeps it.

### 2.7 `Workspace`

| variable | in the code |
|---|---|
| `cookie`, `memory`, `storage` | the refresh token's cookie, `_memoryToken`, the selection in `localStorage` |
| `hook` | instances of `useWorkspace`, of the shell and of the page; one that is unmounted with a request on its way goes on as a closure |
| `answer` | answers to refreshes, on their way back |
| `where`, `signedIn` | the login screen, the choice of a company, a page, or the redirection; the access token the screen keeps until a company is entered |
| `offered` | the companies the API lists |
| `signedOut` | auxiliary |

A page mounts two instances, and each refreshes at once with the cookie there is
(`HookRefresh`); none waits for the other. The API takes the statements of each as
in `Sessions` (`ServerRefresh`), and an answer sets the cookie when it arrives,
whoever waits for it, if anybody does. Requests overlap here always (`alone` is
FALSE), and the strings of one second repeat as they do there (`ClockTicks`).
`authFetch` and `silentRefresh` at the head of `apps/web/lib/api.ts` are not
called by any page and not modelled.

### 2.8 The API contract and `ApiTraffic`

`ApiDtos`, `ApiRoutes` and `ApiClient` are tables, one entry for each class,
handler and call of the source: fields with their kinds and optionality, what
the pipes whitelist (`forbidNonWhitelisted`), routes in the order of
`app.module.ts` and of the controllers, with permission, roles and numeric
parameters, and for each call its method, path and payload. A payload is sent
with as few fields as its type allows, or with as many (`Extents`). `RouteOf`
finds the first route that matches, as the router does, and `Validates` says
whether the pipe lets the payload through.

| variable of `ApiTraffic` | in the code |
|---|---|
| `held`, `change` | `UserRole` rows of one user, and what `assignRoles` is about to create after it deleted them |
| `token` | the role in the access token the client sends |
| `refreshing` | the roles a refresh has read and not issued yet |
| `req` | requests: the stage reached, the call, the role sent with it, the answer; `since`, `rows`, `lost` are auxiliary |

`Serve(r)` is the next stage of a request. JwtAuthGuard, PermissionsGuard and
RolesGuard are passed in this order; PermissionsGuard reads the database,
RolesGuard the token. The audit row is written after the handler. The limiter
refuses or does not, without a count, and an access token expires at any time.

### 2.9 `Reports`

| variable | in the code |
|---|---|
| `chart` | `Account` rows that exist |
| `entries` | `JournalEntry` rows with their lines |
| `req` | of each desk: the report asked for, the queries still due, and what the others saw |

`Ask` fixes query and ranges, `Query` runs one query on what is committed then,
`Answer` sends the report. Queries of one `Promise.all` run in any order. A
report is a function of `read`: `TrialBalanceRows`, `ClosingBalance`,
`SummaryRows`, and from the `Snapshots` the statements `ProfitOrLoss`,
`FinancialPosition`, `CashFlow`, `ChangesInEquity` and `Ratios`. Time is cut in
three instants a day, its first, one in the middle and its last, because ranges
end at the last.

Lines are in cents, as stored. The service turns them into doubles and adds these,
so a total that is sent is only near the sum it stands for: `SumOf` gives the least
and the most it may be, a hundred-thousandth of a cent away for each of its
`Operations`. `InCents` is how `pdfMoney` prints it. The other definitions give the
sums themselves; what is said of them holds of the numbers sent up to such errors,
and the two statements that compare sums allow half a unit of currency for it
(`reports.service.ts:455`, `:628`).

### 2.10 Slips

A definition whose comment begins with "Slip:", or that speaks of a slip, is a
plausible mistake in the definition that follows it: a dropped guard, a
forgotten field. No specification uses it. `PROJECT.json` names, for every
property of a passing run, the slip that would break it when put in the place
of the real definition. It shows that the property depends on what the code
does.

## 3. What is checked

Passing runs.

| run | requests | instance | what it shows |
|---|---|---|---|
| `voucher_serial` | 1 | 3 users with 2 roles; 6 contents: below and at both thresholds, tax in cash, a matrix with two steps on one level, and one out of order; 1 attachment, 1 instruction; 155,158 states | approvals on the chain cover what the voucher says now, by a role the level asks for and never by the maker; status, workflow status, chain and attachment count agree with the rows; the entry holds what the voucher says, in an open period; PAID means posted and settled, in either order; a confirmed payment is never undone or repeated; the voucher implements `ControlledDocument` |
| `voucher_overlap` | 2 | a two-level chain; 2.6 million states | at most one entry, and the header says so exactly when there is one; nothing is released without a final approval by somebody other than the maker |
| `journal_serial` | 1 | 2 users, balanced, unbalanced and one-line contents, two reversals; 5,168 states | the ledger balances; a reversal cancels its original line by line and there is one exactly when the original is REVERSED; drafts are booked in an open period; the journal implements `ControlledDocument` |
| `journal_overlap` | 2 | a balanced and an unbalanced content, two reversals; 1.2 million states | one entry per journal; another approver for every draft that is booked |
| `fiscal_serial` | 1 | two years over seven days, months of two days; 196,142 states | years do not overlap and their periods partition their days; nothing locked changes; a year's status follows from its periods between requests, except after a request that died between its two writes, and then until the next change of a period |
| `trade_books` | 2, or 1 at a time | two companies; invoices of whole cents, of fractions, and with half a cent of tax, a bill, two receipts from eight forms (into banks and a till, to the control account and another), issues and receipts of stock; 77,752 states | every document is booked once, whatever overlaps or dies; the control account is what the documents say, but for receipts that credit another account; an entry is out of balance by a cent at most, and only if a rounding was in doubt; receipt numbers have no gap; one request at a time, an invoice is not over-applied and its status says how much is paid, and no issue takes more than there is |
| `sessions` | 2, or 1 at a time | 2 users, 2 addresses, 3 tokens, a limit of 2 failures, one crash; four desks; seconds that pass or do not; 675,242 states | the refresh tokens implement `TokenRotation`, one right to a login however refreshes overlap, and a string given up is handed out again within its second only; failures never exceed the limit by more than the requests that were past the count; one request at a time, a reset password ends the sessions, wherever the reset stops, and roles and MFA are what the API last answered; every lock-out ends |
| `workspace` | 3 instances | one user, two companies, one of them with two branches; 4 tokens; 473,046 states | the branch belongs to the company, in storage and on every page; signed out stays signed out; no page loads for ever |
| `api_traffic` | 1 | all calls of the client, with few and with many fields; a user with two roles that an administrator changes; 78,660 states | every call but the eighteen unserved ones is served; what is served was permitted at some time since it was sent; each change is audited once; a role that is gone leaves the tokens |
| `reports` | 1 | 14 accounts, one of them opened later; five entries on the first, last and a middle instant of days; two branches; 660,726 states | trial balances show equal totals in cents, whatever is booked between their queries and whatever their additions in doubles are off by; every line is counted once; the statements fit together, and position and cash are off by exactly what they leave out |

Runs that exhibit a disagreement between the code and what it says of itself.

| run | the code says | what happens |
|---|---|---|
| `voucher_cancelled_posted` | "Posted or paid vouchers cannot be cancelled" | a posted voucher whose payment the gateway refuses becomes FAILED_PAYMENT, and is then cancelled with its entry standing |
| `workspace_reload` | "The token is re-acquired via silent refresh (httpOnly refresh cookie) after a page reload" | `useWorkspace` returns at once when there is no token in memory, which is so after every reload, and the shell goes to the login screen |

### 3.1 Bounds, and why they are enough

* `Requests`: two in flight are enough for every race between two handlers. A
  handler has one read and at most two writes, and no handler waits for another.
  In `Workspace` three instances: a page's two, and one left behind by the page
  before. In `ApiTraffic` one: requests share only the roles and the token,
  which change by other actions.
* `Users`: a maker, a second person of the same role, and a person of the other
  role of the chain. The code compares people only with the maker, the
  submitter and each other's role. `Sessions`: one who attacks or is attacked,
  and one address or user more for what is counted separately.
* `Contents`: totals 249999, 250000 and 1000000 take each branch of the default
  chain at its edge; a matrix gives two steps to one level. Overlapping runs
  take fewer contents, because there the handlers' order is what matters.
* `MaxFiles`, `MaxInstructions`: bounds of the counters, in the guards of
  `AttachRead` (and the edits) and of `InitiateGateway`. One attachment
  distinguishes none from some, which is all `submit` asks.
* `Journals`: the journal and two reversals: a reversal of the reversal, or two
  of one journal.
* Vouchers, and journals not connected by reversal, share nothing but their
  numbering, so one of each stands for all. The accounting period of a document
  is fixed: an edit may name another one, which is the same as this one in
  another status.
* `Years`, `Names`: two years are enough for every relation of two ranges of
  days, and two names for one that is free or taken.
* `LastDay`, `MonthLength`: seven days in months of two give years that begin
  and end inside a month, within one month, or span four; four days are enough
  for the disagreement.
* `Invoices`, `Bills`, `Receipts`, `MaxMovements`: one invoice and two receipts
  that together exceed it, alone or on two lines of one; two movements besides
  the documents'. `OneDesk` explores a behaviour as long as it is about receipts
  or about bills and stock: they share no row but the invoice.
* Amounts and sums up to 10^8: there one operation in doubles is off by less than
  a hundred-thousandth of a cent. Trial balances of fewer than ten thousand lines
  and accounts: with many more, the errors might add up to half a cent.
* `Chart`, `BankAccounts` and the posting matrix are constants: their maintenance
  writes one row at a time.
* `MaxFailed`, `MaxTokens`, `MaxPasswords`, `MaxSecrets`, `MaxAttempts`,
  `MaxCrashes`: bounds of what grows, in the guards. The limit of failures is 2
  instead of 5. `MCSessions` makes each behaviour about one of four desks
  (lock-out, tokens, roles, MFA), which share nothing but the user's row.
* `OneStringASecond`: TLC follows a behaviour as long as one string of each user is
  of the present second; more come about only where a request lingers between
  signing and storing while others sign in two seconds. The theorems have no such
  bound.
* `MayOpen`: a page opens while there are instances and tokens for it.
  `CookieExpires` only with nothing pending: no answer takes seven days.
  `Bounded` has `OneStringASecond`, and a company deactivated, a token grown old
  and a selection other than the first cost a token each: none of them meets the
  longest chains of the others.
* `Sample` of `MCApiTraffic`: all calls are made, and one of each kind meets a
  change of roles. What the guards do depends on a call's permission and roles
  only.
* `Changes`: two entries or accounts are added during a report of two or three
  queries, one during that of seven. Years have two days (`DaysInYear`), so that
  the default comparison range and a chosen one fall in different years.

`CHECK_DEADLOCK FALSE` is in the configurations of `Sessions`, `Workspace` and
`ApiTraffic`: there the bounds on tokens, attempts and passwords may be used up,
a user may be gone or locked for good, and a request that is answered stays so.
In all other runs some request can always begin.

### 3.2 Fairness

* `WF(AttemptAges)` in `Sessions`: an attempt gets 15 minutes old because time
  passes. Nothing is assumed of the clients or of the server.
* `WF(HookStep(i))` in `Workspace`: a request that was sent is answered, or
  fails, and the browser runs the continuation. `fetch` settles, and the hook
  has no loop.
* `WF(Serve(r))` and `WF(Expire)` in `ApiTraffic`: the server goes on with what
  has arrived, and an access token gets 15 minutes old. An administrator is not
  assumed to do anything, nor is the process assumed not to restart.

The documents assume none, and no liveness is claimed of them. Nothing in the
code promises that a person ever decides on a document, and no handler waits
for another, so there is nothing to be starved of. Each handler in flight ends
with its write or with `Abort`.

### 3.3 Known disagreements

What follows from the specifications and is not among the runs above.

Overlapping requests:

* An edit of a voucher begun on a draft is written into a voucher in review,
  although "Only draft or rejected vouchers can be edited". An edit of a journal
  begun on a draft is written into a posted one, and a reversal then books its
  unbalanced lines.
* Two overlapping reversals of a journal are both booked.
* `postToGl` checks the period before its transaction, and posts into a period
  closed meanwhile. So does `post` of journals.
* A change of a period begun before `lockFiscalYear` is written after it, and
  reopens a locked period. The API then refuses every request that would repair
  it (`NothingMendsAStuckYear`). Two overlapping calls of `createFiscalYear` create
  years over the same days.
* Two receipts of one invoice posted together each see the balance without the
  other, and over-apply it. Two issues of stock both find it sufficient.
* A login that overlaps `resetPassword` may open a session with the old password
  after the sessions were deleted.
* Shell and page refresh with one cookie whenever a page is mounted
  (`use-workspace.ts:33`). The second is refused as the row it found is deleted, or
  finds none. Then, if the first has its new token by now and a second has passed, it
  is taken for a replay: all tokens of the user are deleted and the account is
  locked, on an ordinary page. The comment at `auth.service.ts:150` speaks of "other
  tokens in the same family"; the code looks for any token of the user. So nothing
  is claimed of the cookie but that no login is split or revived.
* A refresh within the second its token was signed in hands out the same string
  (`lib/tokens.ts:22`), so the token "already rotated" works again. While a login
  keeps that string, a second login of the user in that second is refused by the
  unique index, and a refresh of another login is too, after its own token is
  deleted: that login ends.
* A report of several queries may see entries in one query and not in another;
  only the trial balance's columns balance all the same.

Without any overlap:

* A rejected voucher submitted again as it is goes to the next pending step; the
  level that rejected it never approves (`payment-vouchers.service.ts:570`).
* A reversal is booked in its original's period, open or not, although "Period
  closing prevents new journals".
* `updateAccountingPeriodStatus` that dies between its writes leaves a CLOSED
  year with an OPEN period.
* Two lines of one receipt are each checked without the other.
* `receiptNumber`, `journalNumber` and `voucherNumber` are unique over all
  companies (`prisma/schema.prisma`), while each company counts from 1 with the
  same prefix. While one company has a number, the other is refused it; the
  model's two companies show it with receipts (`NumberIsFree`).
* An entry may be stored out of balance by a cent when its base has fractions of
  a cent, or when its tax ends in half a cent: 8.20 with 7.5 % tax books 8.82
  against 8.20 and 0.61, because 61.5 cents are a little less in doubles and the
  total of 8.815 is not. `ensureBalanced` compares before the rounding.
* A receipt may credit any account that is active, open for posting and not
  reserved for another source, and be paid into any that is active and open for
  posting. The control account of receivables then differs from the documents by
  exactly those receipts (`Clears`), and by no others.
* A line a cent over what is outstanding is accepted or refused as the doubles
  have it; the model accepts it.
* Eighteen calls of the web client are never served (`Unserved`): notifications
  have no route; an edited journal is sent with fields its DTO lacks; MFA
  activation and removal, company settings and approval rules have DTOs without
  decorators, so that every field is refused; twelve imports have no method
  behind their route.
* No code sets `financialStatementCategory`, so accounts are unmapped unless it
  is filled in by hand. The statement of financial position leaves the profit
  out of equity; the cash flow counts depreciation twice and ignores tax, other
  comprehensive income and other current assets; the ratios' profit leaves the
  finance income out. `StatementsArticulate` and `CashGapExplained` say that
  nothing else is off. They assume a chart whose types fit its categories
  (`ChartIsConventional`): a dividend account of type EQUITY would have the
  wrong sign.
* A report of one company drops the lines without a branch, and a report of one
  branch may cut an entry in two; the properties then say nothing (`CutsNoEntry`).
* The reports page compares the two totals with `===`
  (`apps/web/app/reports/page.tsx:246`), although they are sums of doubles: 0.10 and
  0.20 against 0.30 balance, and the page says "Period movement does not balance".
  The totals are the same in cents, as the PDF prints them, which is all that
  `TrialBalanceBalances` says. The page itself rounds to whole units, where totals
  just below and just above a half may even look different.
* A range whose end comes before its start is accepted, and then opening plus
  movement is not closing. `BalancesTie`, `StatementsArticulate` and
  `CashGapExplained` are about ranges in order, primary and comparative
  (`RangesInOrder`).

## 4. What is proved

The theorems hold for any values of the constants, whatever the number of
users, roles, contents, documents and requests in flight, under the assumptions
stated with the constants. TLC evaluates each of these for its instances.
Most of them give the constants their types: `RolesAssumption`,
`ContentsAssumption`, `LinesAssumption`, `CalendarAssumption`, `ItemsAssumption`
and `MovesAssumption` (amounts are integers), `RowsAreBounded` (what is summed is
finite), `PasswordsAreNumbered`, `AccountsAssumption`, `BookingsAssumption`,
`DatesAssumption`, `KindsAssumption`, `CategoriesAssumption`; or say that a marker
is no value: `NobodyAssumption`, `NobodyIsNoUser`, `NoneIsNoToken`. Five say
something of the data:

* `FormsAssumption`: a receipt form names an existing company, and its lines are
  whole cents (`roundMoney`).
* `ReceivableIsControlled`: the chart reserves the receivable account for sales, so
  that no bill can be posted to it, and the rules for invoices debit it and
  credit others.
* `CompaniesHaveBranches`: a company's branches are a list, which may be empty.
* `BookingsBalance`: the entries a report reads balance. `JournalLifecycle` shows
  it of journals, one request at a time, and `CustomerReceipts` of the others up
  to a cent. An entry that does not balance (3.3) puts the reports out by as much.
* `ChartIsConventional`: an account's type fits its statement category.

| module | theorem | statement |
|---|---|---|
| `PaymentVoucherProofs` | `TypeCorrect` | `Spec => []TypeOK` |
| | `OverlapCorrect` | `Spec => []OverlapInv` |
| | `BookedOnce` | `Spec => []PostedIffBookedOnce` |
| | `NeverReleasedByItsMaker` | `Spec => []ReleasedByAnother` |
| | `NoPhantomPayment` | `Spec => []ProcessingWasInstructed` |
| | `LedgerIsAppendOnly` | `Spec => BooksAreAppendOnly` |
| | `PostingPeriodKeepsItsPromise` | `Spec => ImplementsAccountingPeriod` |
| | `OneRequestKeepsTheVoucher` | `OneRequest` implies `Spec => []SerialInv` |
| | `ApprovalsStandOnContent` | `OneRequest` implies `Spec => []ApprovalsCoverContent` |
| | `HeaderIsTrue` | `OneRequest` implies `Spec => []HeaderAgreesWithRows` |
| | `EntryIsTheVoucher` | `OneRequest` implies `Spec => []BookedAsItStands` |
| | `PaidIsPostedAndSettled` | `OneRequest` implies `Spec => []PaidMeansPostedAndSettled` |
| | `ConfirmedForGood` | `OneRequest` implies `Spec => PaidOnce` |
| | `VoucherIsControlled` | `OneRequest` implies `Spec => ImplementsControlledDocument` |
| `JournalLifecycleProofs` | `OverlapCorrect` | `Spec => []OverlapInv` |
| | `BookedOnce` | `Spec => []PostedIffBookedOnce` |
| | `MakerIsNotChecker` | `Spec => []DraftsNeedAnotherApprover` |
| | `ReversalsAreBookedLater` | `Spec => []ReversalsFollowTheirOriginal` |
| | `NothingLeavesTheLedger` | `Spec => LedgerIsAppendOnly` |
| | `PostingPeriodKeepsItsPromise` | `Spec => ImplementsAccountingPeriod` |
| | `OneRequestKeepsTheJournal` | `OneRequest` implies `Spec => []SerialInv` |
| | `DraftsAreBookedInTime` | `OneRequest` implies `Spec => []DraftsBookedInOpenPeriod` |
| | `EveryEntryBalances` | `OneRequest` implies `Spec => []LedgerBalances` |
| | `ReversalsCancel` | `OneRequest` implies `Spec => []ReversalCancelsOriginal` |
| | `JournalIsControlled` | `OneRequest` implies `Spec => ImplementsControlledDocument` |
| `FiscalYearsProofs` | `MonthlyPeriodsPartition` | `PeriodsPartition` of every year with `BuildMonthlyPeriods(first, last)` |
| | `OverlapsKeepTheCalendar` | `Spec => []OverlapInv` |
| | `CalendarsStand` | `Spec => OnlyStatusesChange` |
| | `NothingMendsAStuckYear` | `Spec => StuckIsForGood` |
| | `EveryPeriodKeepsItsPromise` | `Spec => ImplementsAccountingPeriod(y, i)`, for every year and number |
| | `OneRequestKeepsTheYears` | `OneRequest` implies `Spec => []SerialInv` |
| | `EveryDayKeepsItsPeriod` | `OneRequest` implies `Spec => []EveryDayHasItsPeriod` |
| | `LockedYearsAreLockedThroughout` | `OneRequest` implies `Spec => []LockedThroughout` |
| | `YearsFollowTheirPeriods` | `OneRequest` implies `Spec => []YearFollowsPeriods` |
| | `LockedRemains` | `OneRequest` implies `Spec => LockedIsForGood` |
| `CustomerReceiptsProofs` | `TypeCorrect` | `Spec => []TypeOK` |
| | `EachDocumentBookedOnce` | `Spec => []DocumentsBookedOnce` |
| | `ReceiptNumbersHaveNoGaps` | `Spec => []NumbersGapFree` |
| | `ReceivablesAgree` | `Spec => []ReceivablesReconcile` |
| | `EntriesBalanceToACent` | `Spec => []EntriesBalance` |
| | `WhatIsWrittenStands` | `Spec => BooksOnlyGrow` |
| | `SettledForGood` | `Spec => SettlementAdvances` |
| | `SettledOneAtATime` | `Spec => []InvoicesSettledAsBooked` |
| | `IssuesCoveredOneAtATime` | `Spec => []IssuesCovered` |
| `SessionsProofs` | `TypeCorrect` | `Spec => []TypeOK` |
| | `LoginsNeverSplit` | `Spec => []OneTokenPerLogin` |
| | `SessionsRotate` | `Spec => ImplementsTokenRotation` |
| | `FailuresStayBounded` | `Spec => []FailuresBounded` |
| | `ResetsEndSessions` | `Spec => []ResetEndsSessions` |
| | `AnswersAreTrue` | `Spec => []AnswersHold` |
| | `BrowserAlways` | `WorkspaceSpec => []BrowserInv` |
| | `BrowserRotates` | `WorkspaceSpec => ImplementsTokenRotation` |
| | `BranchesBelong` | `WorkspaceSpec => []BranchOfCompany` |
| | `SignOutIsFinal` | `WorkspaceSpec => []SignedOutStaysOut` |
| `ApiTrafficProofs` | `TypeCorrect` | `TrafficSpec => []TypeOK` |
| | `NothingServedUnpermitted` | `TrafficSpec => []ServedByPermission` |
| | `ChangesAreAudited` | `TrafficSpec => []ServedIsAudited` |
| | `AnswersFollowTables` | `ContractAgrees` implies `TrafficSpec => []ContractHolds` |
| `ReportsProofs` | `ReportsAlways` | `Spec => []ReportsInv` |
| | `TrialBalancesBalance` | `Spec => []TrialBalanceBalances` |
| | `ReportsTie` | `Spec => []BalancesTie` |
| | `StatementsFit` | `Spec => []StatementsArticulate` |
| | `CashGapIsExplained` | `Spec => []CashGapExplained` |

`LockedThroughout`, `ProcessingWasInstructed`, `ReversalsFollowTheirOriginal`, the
append-only ledgers, `OneTokenPerLogin`, `BooksOnlyGrow`, `SettlementAdvances`,
`OnlyStatusesChange`, `StuckIsForGood`, the `OverlapInv` of fiscal years and the
refinements of `AccountingPeriod` are stated by theorems only, and by no run. TLC
agreed with each on small instances before it was proved.
`InvoicesSettledAsBooked`, `SettlementAdvances`, `IssuesCovered`,
`ResetEndsSessions` and `AnswersHold` are about behaviours in
which requests do not overlap: these modules keep the regime in a variable
(`alone`), and the property begins with it. `OneRequest` is the same regime as a
hypothesis on the constant `Requests`.

### 4.1 The arguments

The wanted invariants are not inductive: what is about to be written was decided
long before. Each proof strengthens its invariant by what a request in flight
relies on, and each time it is something else in the code that keeps this true.

**Documents.** `OverlapInv` adds `IsOnRecord`. Although a stale write may bring
back an old status, the evidence for that status is never taken away. An
approver who was not the maker then is not the maker now, since `createdBy` is
never written; a final approval stays in the history; a ledger entry is never
deleted. So what a request was entitled to when it began it is entitled to when
it writes. And where even that fails, for two overlapping postings, the unique
reference is the guard (`ReferenceIsFree`). For journals the evidence of an
approval is the row's own `approvedBy`, which only an approval overwrites.

**Documents, one request at a time.** Two handlers that overlap do break the rules
about content, payment and reversal (3.3 lists how). So these theorems assume
`OneRequest` (at most one request in flight, which may die before any of its
writes). `SerialInv` adds `IsFresh` to `OverlapInv`: what the
request holds still follows from the rows. A decision about to be written is
`Decide` of the chain as it stands, what is about to be booked is the content as
it stands, the period is still open. `RowsAgree` says of the rows themselves what
the next read relies on. For a voucher: the steps pending, the current approver
and the two statuses agree. For a journal: an entry has its journal's lines, a
journal is reversed by one mirror image, and a reversal is reversed later than
it reverses, so the new one has no reversal of its own. Vouchers need a least
level of the steps pending, which comes from the order of the numbers
(`LeastNumber`) and not from an induction.

With `SerialInv`, each write is one step of `ControlledDocument` or none:
`TransitionSteps`, `BookSteps` and the others name which. Payments, attachments,
reversals and requests that die are none.

**Fiscal years, whatever overlaps.** A request that holds a stale copy still writes
a status, to a row that is there (`StillFits`): years and periods are never
deleted, and only the insert writes days, of a year whose periods it has just
built. So the calendar stands, whatever becomes of the statuses. A stale write
can leave an open period in a locked year, and every handler reads that year,
refuses, and leaves it `Stuck`.

`EveryPeriodKeepsItsPromise` is about one period: a request looks at it and asks
for a status, later writes it, or dies. `updateAccountingPeriodStatus` refuses the
periods of a locked year and reopens no locked period, `lockFiscalYear` asks for
LOCKED, `createFiscalYear` and the writes of the year's own status are stutters.
The period a voucher or a journal is posted into keeps the same promise, so what
the documents' theorems say of overlaps with closing and locking is said of
periods that change as these do.

**Fiscal years, one request at a time.** Overlapping requests do break the rules
about statuses, so these theorems assume `OneRequest` too. `SerialInv` says that
the copy the request holds is fresh (`IsFresh`): what it worked out still follows
from the rows. It also says that a year's status follows from its periods, or is
one write from it, or was left behind by a request that died. The periods need
integer arithmetic: month `i` of a year ends where month `i + 1` begins, so every
day is in the month of its quotient by `MonthLength` and in no other.

**Books.** `BooksInv` relies on nothing a request holds, only on the unique
indexes. Every entry has its audit row and the row has the document's key, so a
free key means a document that is not booked yet. Every number up to the
sequence's counter is some receipt's, so a number that is free is the next one,
however old the copy it was worked out from. Nothing written to the
books is taken out or changed (`BooksOnlyGrow`), since no handler deletes or
updates an entry, and of a document only its status and its posting are updated.

**Sums.** A total over a finite set of rows is a fold, and the proofs are about
any number of rows. No prover here can instantiate an induction theorem whose
parameter is an operator, so `SumsProofs` makes one about sets
(`SubsetInduction`, from the library's facts on well-founded relations), applies it
to the total of a function, and states what all proofs about money cite: adding a
row adds its value, a union of disjoint sets adds the totals, grouping rows by a
key and totalling the groups changes nothing (`OverGroups`), sums of nothing are
nothing.

* `ReceivablesReconcile`: an entry's lines merged by account and side carry the
  same balance of the receivable account as before merging; so a posted invoice
  adds its total to the account, a posted receipt takes away what it clears of
  it (`Clears`: its amount, nothing, or the reverse if it is paid into it), and
  nothing else touches it (`ReceivableIsControlled`).
* `EntriesBalance`: the posting engine compares its sums before it rounds each
  line to a cent; with at most three lines the rounded sums differ by one cent
  (`CentsApart`). Where each amount is further from half a cent than the errors
  of the doubles reach, all round the same way (`NothingInDoubt`).
* `LedgerBalances`: what is posted was validated as it stands, and a mirror image
  has the same totals on the other sides.

**Receipts and stock, one request at a time.** What the request in flight read is
still so when it writes (`AllReady`): no other request can have changed the
invoice's receipts or the product's movements. What is applied to an invoice
is a total over the lines of the posted receipts, and posting one adds what
was checked against the balance. The status is then that total compared with
the invoice's, and since lines only add to it, the status never goes back
(`SettlementAdvances`).

**Sessions.** `SessionInv` counts rights to go on with a login. A stored token is
such a right; a request that has deleted one and not yet created its successor
holds that right itself. Every family has at most one of either. Only one of two
requests with one token gets past the deletion, because the second deletes
nothing and throws. A replayed token only ever removes rows. With this invariant
each statement is a step of `TokenRotation` or none: a login opens a chain, the
deletion and the creation of a refresh each pass the right on (`Pass`), and
whatever else touches tokens only ends chains, the creation included that the
unique index refuses (`IssuingOrFailing`). A row created is one whose string no
stored row has (`Holding`), so no two logins keep one string; if there was a row of
that string before, it is `now` and of the same user, which is what `recent` says.

`FailuresBounded` counts the failures on record together with the requests past
the count that may still record one: a request is let past it only below the
limit. `ResetEndsSessions` and `AnswersHold` follow from `Calm`, which says of the
request in flight that what it read is still so, and of one that stopped
half-way which of its statements it got to.

**Browser.** `BrowserInv` adds to `SessionInv` where answers can be. A sign-out
with nothing on its way leaves no token in memory, nothing in storage and no
instance at work (`Quiet`), so that nothing is left that could write a token.
The cookie and the answers on their way are strings there have been
(`StringsStay`), so every refresh a page sends is one `Sessions` has an action for.
Whatever is selected is nothing or a company with a branch of its own
(`SelectedFits`, `NothingIsAChoice`), and what an instance writes back is what it
read or selected. No claim is made that the cookie's token works: two instances
with one cookie do spoil it (3.3).

**Reports.** `ReportsInv` says how what a report has seen relates to the entries
there are: its lines were booked by now, and none is of an account it does
not list, because the accounts are read last. A sum over the listed accounts is
then a sum over all lines, and a sum over lines is one over entries, each of
which comes to nothing. The statements divide the accounts by category; the
categories are disjoint and cover everything but the unmapped accounts, so the
totals of the statements add up to the total of all balances, which is nothing.
`CashGapExplained` is the same sum, solved for cash. A total that is sent is less
than half a cent from whole cents, and so shown as these (`NearIsShownAlike`).

**Requests through the API.** `TrafficInv` says what a request may rely on at each
stage: from the permissions guard on, the call's permission was among the
rights its user had at some time since it was sent; from the audit on, the audit
row of a change is written, or its write failed and is marked so. Roles change,
but what was true once stays so of the past. What a request is answered follows
from the tables, so `AnswersFollowTables` has the agreement of the tables as its
hypothesis: `ContractAgrees`, which says nothing of any request.

Each proof has the initial step, one step per action, and a temporal step that
combines them. Lemmas about operators are stated once: `Decide`, `ResetChain`
and `ResolveApprovalChain` return chains; appending to a ledger keeps what is in
it; a posted document adds one entry and one audit row.

### 4.2 What is only model-checked

* Liveness under fairness, and ENABLED, which these provers cannot reason about:
  that a lock-out ends, a page stops loading, and a lost role leaves the tokens.
* `ContractAgrees`, the hypothesis of `AnswersFollowTables`: that the client's calls
  fit the server's routes and DTOs. It compares finite tables, with no parameter
  to generalise over, and TLC evaluates it completely as the first half of
  `ContractHolds`.
* The findings.

No module uses a RECURSIVE operator.

## 5. What is not modelled

* Vouchers: comments, voucher templates as records (a template's approval matrix
  is part of `content`). Journals: attachments, recurring templates
  (`generateFromTemplate` ends in `createDraft`). Their numbers, too, are taken
  as given: `nextVoucherNumber` counts like `nextReceiptNumber`,
  `nextJournalNumber` by an increment in the database, both in the transaction
  that takes the number.
* The checks on master data (currency, bank account, branch, budget, tax code)
  and on the date lying in the period: the contents enumerated have passed
  them, and nothing in the modelled handlers changes them.
* Journals of source type SYSTEM drafted with a reversing flag: never editable,
  and otherwise like the others.
* `approvalLevel`, which repeats the level in `workflowStatus`; wording,
  formatting, notifications, history rows (except who gave a final approval).
* `getById` reads the header with its children in one call; the model reads
  them at one moment.
* Posting: the maintenance of rules; the periods of no company that
  `findPostingPeriod` falls back on, which nothing creates.
* Customers, suppliers, products, warehouses, branches, tax codes and the other
  master data: written by one statement each. Their routes, DTOs and calls are
  in the API contract.
* Fixed assets, depreciation, loans, direct accounting and bulk imports: rows
  inserted as they come, without any rule between them. Their routes are in the
  contract, and `createAccount` is an action of `Reports`.
* Middleware: headers, CORS, correlation ids, logging; the count of the limiter.
* Reports: exports to files, labels, and the lists of documents.
* The web client: what pages do with the answers they get; `authFetch` and
  `silentRefresh` of `apps/web/lib/api.ts`, which no page calls.
* Seeds, migrations, health probes and the empty stub modules.

`PROJECT.json` lists every component with its reason.

## 6. Plan

Done, in this order: `ControlledDocument`, `PaymentVoucher`, `JournalLifecycle`,
`FiscalYears`, then `PostingRules`, `TradeLedger` and `CustomerReceipts`,
`Sessions`, `Workspace`, the API contract and `ApiTraffic`, `Reports`, each with
its runs, and proofs about all of them, with the refinements of
`ControlledDocument`, `AccountingPeriod` and `TokenRotation`.

Left, most useful first:

1. Numbers of vouchers and journals over two companies.
2. Depreciation and imports that are run twice.
