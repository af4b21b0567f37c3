# Amir ERP: a verification project

TLA+ specifications of the parts of Amir ERP whose correctness depends on the
order in which things happen, TLC configurations that check them on small
instances, and TLAPS proofs that hold for every instance. The reference is the
code: paths below are relative to `src/apps/backend/src` unless they say
otherwise, and `PROJECT.json` maps every definition to the lines it models.

Contents: 1 the system, 2 the modules, 3 the runs, 4 fairness, 5 the proofs,
6 what was found, 7 assumptions, 8 what is not modelled, 9 the plan.

## 1. The system

A NestJS server over PostgreSQL (through Prisma) and Redis, multi-tenant, with
a Flutter client. A request passes a tenancy middleware that puts the tenant in
an `AsyncLocalStorage` context, then guards, then a controller, then a service
that awaits one Prisma call after another; an interceptor logs mutations after
the answer. Node.js runs one callback at a time, so requests interleave exactly
at the awaits; the database runs at READ COMMITTED. The repository contains no
tests of these services: the interleavings, expiries, retries and crashes below
have never been executed by one.

| Component | State | Operations | Hard behaviour | Correct when |
|---|---|---|---|---|
| POS (`modules/pos`) | `PosOrder`, `PosSession`, its `StockMove` rows; on the device, orders not confirmed yet | `submitOrder`, `syncBatch`, `refund`, `openSession`, `closeSession` | look-up, count and insert are three awaits; retries overlap first attempts; batches fail in part; an event after the commit | one order per `clientUuid`; numbers unique and the next one free; stock agrees with orders; retries get an answer |
| Inventory (`modules/inventory`) | `StockMove`, append only | `move`, `onHand` with and without a warehouse | rows of two writers, which nothing in a row tells apart; rows with a null warehouse | the two forms of `onHand` agree |
| Payments (`modules/payments`) | `Payment`, `PaymentAllocation`, `Invoice.amountPaid`, `Invoice.status` | `create`, which calls `recomputeStatus` | an interactive transaction that awaits a second connection and waits for its own row lock; expiry; pool | no payment lost or counted twice; a status never claims too much and catches up |
| Invoicing (`modules/invoicing`) | `Invoice` | `create`, `confirmAndPost`, `recomputeStatus` | count-then-insert numbers; rounding of totals | numbers unique; posted with its total on both sides or not at all |
| Accounting, Reports (`modules/accounting`, `modules/reports`) | `JournalEntry`, `JournalLine`, `Account` | `post`, `reverse`, journal endpoint, edits of the chart of accounts; `trialBalance`, `profitAndLoss`, `balanceSheet` | check on exact amounts, storage of rounded ones; accounts patched and deleted under posted lines | entries balance when posted, up to rounding, and lose only the sides on deleted accounts; reports agree with each other |
| Authentication (`core/auth`, `modules/users`, `modules/tenants`) | `Tenant`, `User`, `UserTenant`, `RefreshToken` | `register`, `login`, `refresh`, `logout`, invite, `setRoles`, new tenant | nothing is in a transaction; one token refreshed twice at once; logout racing refresh; the tenant of a session moves with the header of a refresh | a login has one token that works; a logout ends it; every user has a way in |
| RBAC (`core/rbac`) | `Role`, `Permission` | the guards, `check`, `resolvePermissionsForRoles`, `ensureSystemRoles` | wildcards; guards in an order that leaves `req.user` unset; role ids of other tenants | exactly the granted permissions pass, and they are the tenant's |
| Workflow engine (`core/workflow`, `modules/workflows`) | `Workflow`, the BullMQ queue, `Notification` | `onAny`, `process`, edits | jobs that stall run twice; a workflow edited between dispatch and execution; a dispatch cut off | every match is run once, by one version, for its own tenant |
| Audit (`core/audit`) | `AuditLog` | interceptor | written after the answer, not awaited | a mutation leaves its trail, which it does not for clients of a subdomain (section 6) |
| Controllers of master data and documents (`modules/*`) | the rows of some 30 models | create, update, status, delete | rows referred to while they are deleted; columns without a foreign key; patches that name any column; the tenant of the token and the tenant of the context differ | no foreign key dangles; other tenants are not touched |
| Document numbering (`quotations`, `procurement`, `contracts`, `manufacturing`) | the documents | count and insert | three of the five models have no unique index; two take the client's own numbers | counted numbers distinct, the next one free |
| Payroll (`modules/payroll`) | `Payslip` | `generate` | one insert per employee, no transaction | an answered run is complete |
| Branding, plugins (`core/branding`, `modules/plugins`) | `Tenant.branding`, `PluginInstall` | read, merge, write; install, toggle | read-modify-write | no update is lost |
| Seed (`src/apps/backend/prisma/seed.ts`) | a demo tenant | a sequence of upserts | stopped and run again | nothing doubles |
| Mobile client (`src/apps/mobile/lib`) | three stored strings, a cart | login, logout, start | killed between two writes | the parts are of one login |
| Redis lock, files, queue set-up, configuration, health, overview | | | | section 8 |

How they interact: POS writes the inventory's table in its own transaction and
emits `pos.order.created` to the workflow engine and the POS gateway. Payments
writes the invoice's `amountPaid` inside its transaction and calls
`InvoicingService.recomputeStatus` with the *unscoped client*, outside it.
Invoicing calls `PostingService.post`; the reports read what that stored.
Authentication puts the tenant and the permissions into the access token, the
guards read them there, and handlers give new rows the tenant of the token.
Everything else reads and writes through the Prisma middleware, which adds the
tenant of the request's *context*, that is of a header, not of the token.

## 2. The modules

| Module | Models | Composed of |
|---|---|---|
| `Inventory` | the `StockMove` ledger, `move`, `onHand` | |
| `Pos` | the POS service over database, clock and failures | extends `Inventory` |
| `PosBook` | abstract: what a till promises about orders and their stock | |
| `PosRefinement` | how `Pos` implements `PosBook` | extends `Pos`, `INSTANCE PosBook` |
| `Payments` | `create` with `recomputeStatus`, connection pool, row locks, expiry | |
| `Ledger` | `post`, `reverse`, the journal endpoint, the reports | |
| `Invoicing` | invoice numbering, `create`, `confirmAndPost` | extends `Ledger` |
| `Api` | permissions, system roles, guards, the table of routes | |
| `Sessions` | accounts, logins, token rotation, roles, guarded calls | extends `Api` |
| `Clients` | the store of a device | extends `Sessions` |
| `Workflow` | matching, dispatch, queue, execution, edits | |
| `Conditions` | the rule language of workflows | used by `MCWorkflow` |
| `Records` | rows, references, deletion, numbering, payroll, plugins | extends `Api` |
| `Backoffice` | audit, branding and seed around them | extends `Records` |
| `MCPos`, `MCPayments`, `MCInvoicing`, `MCSessions`, `MCWorkflow`, `MCBackoffice` | the instances TLC checks | |
| `SumTheorems` | lemmas about sums over finite sets, of no component | extends `Functions`, `FiniteSetTheorems`, `TLAPS` |
| `PosProofs`, `PaymentsProofs`, `InvoicingProofs`, `SessionsProofs`, `WorkflowProofs`, `ClientsProofs`, `BackofficeProofs` | the theorems | extend the component, `TLAPS` and, where they sum, `SumTheorems` |

**Pos.** A *worker* is one request being handled; `pc[w]` is the await it stands
at, and each await is an action. `orders`, `moves` and `sessions` hold committed
rows only: a transaction keeps its order in `row[w]` and the number of moves it
wrote in `line[w]`, and `Publish` makes them visible together. An insert waits
for an open transaction that holds an equal unique key (`KeysFree`), then either
goes through or is refused with the index that refused it. `submitOrder` is
`LookupFound | RejectUnderpaid | LookupMiss`, `Count`, `Insert |
InsertDuplicate | InsertNoSession`, `WriteLine` per line, `CommitSale`, `Emit`.
`syncBatch` is `todo[w]` and `results[w]`: `Settle` records the answer to one
order and goes on with the next, whatever it was. `refund` is `StartRefund`
(the read outside the transaction), `MarkRefunded`, `WriteLine`,
`CommitRefund`. Devices send only what they have no "ok" for, as often as they
like, also while an earlier attempt is still running. `ManualMove` of `Inventory`
is the stock endpoint: users enter moves with any reason, `POS_SALE` and `RETURN`
among them, any reference, an order's number among them, and any quantity. Nothing
in a row says who wrote it; the history field `by` does. Failures: a query fails
or the transaction times out (`Fail`), it commits but the confirmation is lost
(`CommitUnconfirmed`), the answer is lost (`LoseResponse`), the process dies
(`Crash`). Prices are abstracted to whether the payments cover the total. The
year of the number is read at the look-up, the date of the order at the insert,
so that a new year may begin in between.

**PosBook.** An order is sold at most once, never unsold, and confirmed only after
it was sold; its book entry is read off the stored row and the answers (`BookOf`,
`Acked`). A sale and its stock are one step, and a refund changes the status and
*never the stock*. That last clause is what the code does: the return moves are written
with a null destination (`pos.service.ts:156`), and no balance counts them.

**Payments.** Only allocations of a payment are kept. A transaction's writes are
in `version[w]`; a non-null entry is the row lock. `recomputeStatus` reads
committed data on another connection and, when the status differs, its update
waits until no transaction locks the row, including the one that is waiting for
that update. Only `Expire`, the 5-second limit of an interactive transaction,
ends that. The callback of an expired transaction keeps running: it writes the
status it computed earlier (`UpdateStatus`) and fails at its next use of the
transaction (`TransactionClosed`). `UsedConnections` counts the pool.

**Ledger, Invoicing.** Amounts are integers in a unit `Grain` times finer than the
stored ten-thousandth; `Fixed` is `toFixed(4)`. `post` compares exact sums and
stores rounded lines. `create` counts, then inserts without a transaction; the
unique index knows no type although two types share the prefix `INV`; the count
goes by the date of the invoice, which users may set. `reverse` has no caller in
the repository; it is modelled as the operation the service offers. The lines of a
draft come to amounts of either sign. `EditChart` creates an account, patches any
of its columns (its type, its tenant) or deletes it, which clears the sides of
stored lines that named it (`SetNull`), so that an entry may change after it was
posted: its history field `posted` keeps the lines as they were. The reports are
operators over the stored entries and the accounts that are the tenant's `Own`, of
one tenant and without dates. The count that numbers an invoice is written with
`unscoped` and runs in the tenant's context all the same (see *Sessions*), which
is the count the number needs. Nothing marks an invoice as posted or an entry as
reversed (the status `REVERSED` of the schema is never written), so both can be
repeated.

**Api.** A permission is a sequence of words and `Check` compares it with what
is held, wildcards included. `Answer` is a guarded call: the *global*
`PermissionsGuard` runs before the `JwtAuthGuard` of a controller, which is the
one that sets `req.user`, so that it is handed no user. The table of routes says
for each controller which operations it offers and what they ask for; `Records`
takes its handlers from it.

**Sessions.** `work[w]` is a request and `work[w].at` the query it is about to
send: no handler uses a transaction, so each query is an action. `register` is
`FindUser, FindTenant, CreateTenant, CreateUser, CreateOwner`, then `Issue`;
`login` is `FindAccount, ReadMemberships, Resolve, Issue`, and `refresh` is
`FindToken, Revoke, ReadMemberships, Resolve, Issue` with the first membership the
database lists, whatever it is (`Choices`); `invite` upserts user and membership,
`newTenant` the tenant and its roles one by one. `unscoped(db => query)`
(`prisma.service.ts:109-111`) returns a query that Prisma sends only when it is
awaited, after `runWithTenant` has returned: the read of the memberships runs in
the context of the request. `Listed(u, x)` are those a query in context `x` finds:
all of them without a header, those of one tenant with its header, none with a
subdomain's slug or an unknown header (`Nowhere`). A login that finds none is
refused; a refresh goes on and issues a token of no tenant. A token is kept with
the payload issued along, the login it descends from (`root`) and whether its
client ever received it. Three history variables say which logins had a token read
twice before its revocation (`overlapped`), which a logout ended (`closed`), and
what the guard refused (`refused`).

**Clients.** A login writes access token, refresh token and tenant one by one;
a logout removes them one by one in a browser (`torn` when cut off) and at once
on a phone. The app takes an access token alone for a session.

**Workflow.** A job is a workflow and an event; a workflow has any list of
actions. `OnAny` starts a dispatch, `Find` reads the active workflows of trigger
and tenant that hold, `Add` queues them one by one. `Take`, `Read` (the processor
reads the workflow *again*), `Act`, `Complete` are an execution; `runs[<<j, n>>]`
keeps what the n-th one has left. A stalled job is handed out once more, and a
blocked worker (`Blocked`) goes on with the first execution next to the second.
`HandsName` says whether a listener of `'**'` is given the event's name: `onAny`
is written as if it were. The operator `Holds` is a parameter; `MCWorkflow` gives
it the rule language of `Conditions`, whose comparisons follow JavaScript's
(strict equality, ordering between strings and numbers).

**Records.** A row has a model, a tenant, its references and a number. The
references between models and what the schema does on deletion (`OwnedRefs`
cascade, `NeededRefs` and `LineRefs` restrict, `LooseRefs` are set to null,
`NeededNames` and `LooseNames` are columns without a foreign key, which nothing
watches) are tables; `Create`, `Update`, `SetStatus`, `Delete` and `Install` are
the operations of all controllers, each with the tenant of the token for new rows
and that of the context for everything else. Most controllers hand the body of a
PATCH to the database as it is, so that `Update` writes any reference (`Patched`),
the status, the date, the key (a code or sku, unique per tenant: `KeyFree`), the
tenant and the number of a contract. A deletion tells the row it names from those
it takes along or clears: `crossed` and `reached` record the models of foreign
rows of either kind, and `mixed` that somebody wrote from another context or moved
a row to another tenant. Clients may bring a number of their own to bills and
contracts, one of the counted form included (`ChosenNumbers`); `disturbed` records
the tenant and model whose numbering that, an overlap, a deletion or a patch has
disturbed. `BeginNumber, InsertNumbered` and `BeginPayroll, InsertSlip,
AnswerPayroll` are the handlers of several queries. A *story* names the rows a
history starts from and the routes and callers it has.
**Backoffice** adds what surrounds the handlers: `Audit` (a mutation answered, its
record still to be written) and `RecordAudit`, which the foreign key of the log
refuses when the context is no id of a tenant; `BeginBranding, WriteBranding`;
`BeginSeed, SeedStep`; failures and a crash.

## 3. The runs

| Run | Instance | Checks |
|---|---|---|
| `pos_orders` | 2 orders, one of two lines, one sold without a warehouse; 2 requests, batches (also one naming an order twice), 1 refund, 1 fault | `PosTypeOK`, `OneOrderPerUuid`, `NumbersUnique`, `OkIsTheStoredOrder`, `EventsOncePerOrder`, `ImplementsBook` |
| `pos_refunds` | an order of two lines on a till session, an underpaid one before it in the batch; 2 refunds, 2 warehouses, 1 fault, and a move a user enters as `POS_SALE` or `RETURN` under the order's number | `SaleMovesMatchOrders`, `RefundsAreWhole`, `TotalIsSumOfWarehouses` |
| `pos_live` | 2 orders that compete for numbers, a year that may turn, 1 fault, fair | `NextNumberFree`, `RetriesSucceed` |
| `payments_safety` | 3 payments, two crossing on 2 invoices and one advance; 3 requests on 3 connections, 1 fault, a due date | `PaymentsTypeOK`, `BooksBalance`, `StatusNeverAhead`, `StatusCatchesUp` |
| `payments_live` | an invoice allocated twice by one payment and once by another, 1 fault, fair | `RetriedPaymentsSucceed` |
| `payments_refused` | two part payments of one invoice, one request, no fault | `NoneRefused`, violated |
| `ledger` | 4 drafts (a rounding one, one with a negative tax, a backdated one whose tax is hidden by rounding, a debit note), 6 journals, 2 requests, 3 invoices, 3 entries, 1 edit of the chart of accounts | `InvoiceNumbersUnique`, `NextInvoiceNumberFree`, `InvoicesPostedInFull`, `BalancedUpToRounding`, `CheckIsNetIncome` |
| `sessions` | 2 emails, 2 tenants, 2 roles, 4 tokens, 2 requests, 1 fault, 2 kills of the app; five stories | `SessionsTypeOK`, `OneLivePerLogin`, `LoggedOutStaysOut`, `UsersCanLogIn`, `PermissionsAreOfTheTenant`, `NoMixedSession` |
| `permission_decides` | one owner, one login, one guarded call | `PermissionDecides`, violated |
| `workflow` | 1 event, workflows of its own tenant and of another, 3 drafts with one action or three, 1 edit, 2 faults, fair, `HandsName = TRUE` | `WorkflowTypeOK`, `RepeatedOnlyAfterStall`, `NotifiesOwnTenant`, `OneVersionIsRun`, `MatchedIsHandled` |
| `workflow_heard` | the same with `HandsName = FALSE` and no fault | `EventsAreHeard`, violated |
| `backoffice` | 2 tenants, 11 row ids, 2 requests, 1 fault; eleven stories | `BackofficeTypeOK`, `NothingDangles`, `OthersUntouched`, `CountedNumbers`, `PayrollIsComplete`, `NoLostBranding`, `SeedAgain` |

*Stories.* The initial states of `sessions` and `backoffice` are a choice of
story, each a small instance of its own with the operations one question is
about; a run is the sum of its stories. `sessions`: `Opening` (two registrations,
an invitation, a tenant: who gets the email), `Rotation` (three refreshes, a
logout and an expiry of one user), `Moving` (an invitation into a second tenant
and a refresh), `Granting` (roles of two tenants assigned and resolved),
`Device` (two logins on one device that is killed). `backoffice`: `Referring`
(documents created while what they refer to is deleted), `Naming` (the same for
columns without a foreign key, and patches of references), `Strangers` (two
tenants and headers that disagree with tokens), `Numbering` and `Papers` (the
numbered documents with and without an index), `Salaries`, `Colours` (branding),
`Seeding`, `Market` (plugins), `Audited` and `BySubdomain` (mutations and their
records).

*Why the bounds are enough.* The hazards are about two requests overlapping:
two workers give every order of two handlers, and each property relates at most
two rows. (`payments_safety` has a third, which finds no connection left.) A
third order or payment makes a count differ from a number, and one fault can
fall before, inside and after each transaction. `LastYear = 2` lets the year
turn once between any two awaits. Three refreshes are one more than it takes to
present a token again after it was exchanged; four tokens are all that
`Rotation` can issue before an answer is lost. Two faults of `workflow` are a
stall of each of two jobs, or a stall and a failure. `RowIds`, `EntryIds`,
`InvoiceIds`, `Ids` and `TokenIds` are supplies of fresh ids; when they run out
nothing more is written, which only cuts histories short; the liveness instances
have more ids than they can use. Two tenants suffice to tell whose rows are
meant. One manual move falls before, between and after the moves of a sale and its
refunds, and one edit of the chart of accounts before, between and after any two
entries (the theorems hold for any number of either).
`ChosenNumbers = {2}` is the number a second document is given. `pos_orders`,
`pos_refunds` and `ledger`, whose properties are invariants
and the steps of the order book, treat requests as symmetric; the others do not.
Deadlock is not checked: the bounded instances stop when devices are satisfied
or bounds are used up, and what must happen is stated as liveness.

*Worth knowing about the properties.* `NextNumberFree` holds where every request
carries the tenant header and no order is backdated; section 6 says what happens
otherwise. `SaleMovesMatchOrders` and `RefundsAreWhole` are about the moves the
till wrote (the history field `by`): of the table alone nothing could be said, as
users may enter the same rows by hand. `StatusCatchesUp` says that the status lags
by one payment at most, and it does lag: an invoice paid in two parts keeps
showing `PARTIAL` after the second, since the status is computed from what was
committed before the payment. `NextInvoiceNumberFree` carries its exception in its
hypothesis: after a backdated invoice, or with a debit note on a number the sales
need, a type is refused until its count moves, which may be never. `BooksBalance`
counts a payment as often as it was stored: a user who gets no answer and enters
it again records it twice, and nothing in the code could tell. An invoice whose
three totals are rounded so that they do not add up is not posted (draft `d1` of
`ledger`), with one exception that `InvoicesPostedInFull` names: without an
account for the tax, two amounts below a stored place may round to one total,
which is posted although a tax of one ten-thousandth is not (`d3`), and a tax of
minus one ten-thousandth is never posted (`d2`). `BalancedUpToRounding` speaks of
an entry as it was posted and of what it lost since: deleting an account does
unbalance posted entries, and `CheckIsNetIncome` counts what is lost.
`OneLivePerLogin` and `NoLostBranding` except what two overlapping requests can
do, because the code does not prevent it: two exchanges of one token both succeed
(the update at `core/auth/auth.service.ts:147` looks at the id only), and of two
brandings read at once the later write wins. What they show is that nothing *else*
breaks the promise: no failure, no lost answer, no other interleaving.
`CountedNumbers` is of the same kind: it excepts the tenants and models in
`disturbed`. `OthersUntouched` excepts leaves, which have no tenant column, and
for what a deletion takes along it supposes that no row was written from another
context or moved (`mixed`). `NothingDangles` is about columns with a foreign key;
the others do dangle (section 6). `PayrollIsComplete` is about missing slips;
second slips are what the code makes when a month is generated twice.
`PermissionsAreOfTheTenant` concerns the payload of a token as issued: a role
taken away later stays in it until it expires. It lets a refresh give a token of
no tenant, and says that such a token grants nothing.

## 4. Fairness

`PosFairness` and `Fairness` of `Payments` ask three things. Handlers run on:
weak fairness of `Step(w)`, one condition per request, because the event loop
continues every settled promise; which action is taken at an await is left open.
A device, or user, sends again whenever the server can take a request: strong
fairness, since workers are busy in between. That is what the service asks of a
device (`pos.service.ts:5`, "a device that retries the same order"); the Flutter
client in the repository does not submit orders yet, it only clears its cart
(`pos_page.dart:253`). Tills get opened.
Nothing is assumed of faults, which are bounded, nor of the clock.
`Expire` is part of `Step` in `Payments`: Prisma's transaction timeout is what
the code relies on to get out of its self-made wait.

`payments_live` takes a pool larger than the number of requests (`PoolSize = 3`,
two requests). With as many requests as connections each holds one in its
transaction and waits for a second for the status; all expire, and the retries
may meet each other again for ever. Prisma's default pool has a size of that
order, so this is a real limit, kept out of the run because it is a matter of
load and not of one payment. For the same reason the run has no payments that
cross on two invoices: two transactions that lock them in opposite orders can
expire together, and be retried together, for ever.

`FairSpec` of `Workflow` is weak fairness of each thing that continues by itself:
a dispatch, an idle worker taking a waiting job, each execution, and BullMQ's
periodic look for jobs whose lock ran out (`Abandoned`). Edits, failures, crashes
and blocked workers are not fair. Sessions and the back office have no liveness
property: nothing there is retried by the code.

## 5. The proofs

All theorems are about specifications without fairness and hold for every value
of the constants under the named assumptions of the modules
(`InventoryAssumption`, `PosAssumption`, `PaymentsAssumption`,
`LedgerAssumption`, `InvoicingAssumption`, `SessionsAssumption`,
`WorkflowAssumption`, `BackofficeAssumption`, `SeedAssumption`),
which type the constants, say that null is not a value, and that accounts,
warehouses and payments are finitely many, being rows of a database.
`PROJECT.json` lists the theorems; a reader should know these arguments.

*`PosProofs`.* `PosTypes`, then `Idempotent`, `UniqueNumbers`,
`SalesAndStockAgree`, `RefundsComplete`. `OneOrderPerUuid` alone is not inductive:
an insert under way may hold the same key as another. The strengthening
(`OrdersInv`) says that the rows open transactions hold do not clash with each
other nor with a stored row (other than the one a refund updates), that ids are
fresh with respect to orders, moves *and* open transactions, and (`MovesInv`) that
the stored moves written by the till are exactly those its transactions wrote. A
transaction's moves become visible with its row, so that the agreement of sales
and stock is a fact about `Publish` and the freshness of ids, and every other
action leaves it alone. `OrdersImplementBook` is `ImplementsBook`, the refinement
of `PosBook`: with `OrdersInv` a commit is one `Sell` or `Refund`, with `ToldInv`
a response is one `Confirm`, and every other step is a stutter. For its stock, the
moves a sale publishes are new and one per line (`SumImage`), so that their sum is
what the lines of the order take (`Taken`); the moves of a refund have no
warehouse and the moves users enter, whatever their reason and reference, are not
the till's, so that no other step moves the book's stock. `TotalsAgree` needs that
there are finitely many moves: the moves into each warehouse, summed over the
warehouses, are the moves into any (`SumByKey`), and a move out of nowhere or into
nowhere counts on one side only in both forms. `AnswersAreTrue` and
`AnnouncedOnce` come from `ToldInv`: the answers a batch has collected so far are
as good as those given, a request about to emit holds a stored order that was not
announced and that no other request is about to announce. `NumbersStayFree` has
the hypotheses `Headers = {TRUE}` and `Undated`, and needs `NumberingInv`: no
number, stored or held by a transaction, exceeds the count of its tenant and year
(plus one while held), and counts only grow (`CountsGrow`), so that the count plus
one is beyond all of them whatever happened between count and insert.

*`PaymentsProofs`.* `PaymentsTypes`, `StatusIsEarned` (`StatusNeverAhead`),
`StatusLagsByOne` (the action property `StatusCatchesUp`). Besides the types the
invariant has five parts: a row is locked by one transaction (`LocksExclusive`); what a
transaction wrote is no less than what is committed (`VersionsGrow`); a status
computed but not yet written was earned when computed, and `amountPaid` only
grows, so it is earned when written, whoever rolled back (`PendingEarned`,
`StoredEarned`); and a transaction that holds an invoice paid before, past its
recomputation, has its status shown (`LockedAreShown`), because otherwise its
update would still be waiting for the transaction's own lock. The last is
why a payment commits only on an up-to-date status, and why the lag is one.
`BooksAlwaysBalance` (`BooksBalance`) follows a transaction allocation by
allocation: what it has in `version` for an invoice is what is committed plus the
allocations it has passed, and a row it has not locked has no allocation it
passed (`VersionsAddUp`); a transaction about to commit has passed them all
(`CommitsAtTheEnd`). No other commit can come between, because the row is locked.
So a commit adds the payment's allocations to `amountPaid` at once, and the sum
over the payments grows by just that (`SumChanged`).

*`InvoicingProofs`.* Numbers: `UniqueInvoiceNumbers` and `InvoiceNumbersStayFree`:
a count under way never exceeds the number of stored invoices of its type, and
neither does any number, whatever the order of counts and inserts. Entries:
`EntriesStayBalanced` and `PostedInFull` share the invariant `LedgerInv`: the
chart has rows of accounts and no deleted one (`ChartOK`), entries are lists of
lines, posted within the bounds and cleared of the accounts deleted by now
(`EntriesOK`), a request under way has a draft (`DraftsHeld`), and the three
totals of an invoice are the roundings of two amounts, of either sign, and of
their sum (`TotalsRounded`). What `post` accepts has equal sums, each of its lines
moves by half a `Grain` at most when it is stored (`FixedNear`,
`RoundingPerLine`), and a reversal swaps the two sums (`MirrorSwaps`). The lines
of an invoice are rounded already (`FixedTwice`), so that posting leaves them
alone and the equal sums are those of the stored totals. When the tax is not on a
line of its own, total and subtotal are equal; then the tax is within `Grain` of 0
before rounding, and what is left out is `-Grain`, 0 or `Grain`
(`HiddenByRounding`). That second case is real, and the attempt to prove the
property without it found it. A new entry names no deleted account, because the
foreign keys ask for a row (`KnownUncleared`); a deletion clears one account more
from every entry (`EntriesDeleted`, `ClearedMore`), and a mirror of what is left
is what is left of the mirror (`ClearedMirror`). Reports: `CheckAlwaysNetIncome`
is an identity of the reports over any finite set of entries (`ReportsAgree`):
debit minus credit summed by type of account (`FiveTypes`), by account shown, or
by entry (`NetsAddUp`, with `SumSwap` and `SumByKey`) is one number, for any
chart, and a line that names an account names it once.

*`SumTheorems`.* The models sum with `SumFunction` and `SumFunctionOnSet` of the
community modules, which the library defines by recursion on finite sets. The
lemmas derive their laws in first-order steps: a sum is the entry of a table that
gives every subset the sum of one element less (`TableExists`, `TablesAgree`),
such a table is built along a smallest set that has none (`MinimalSubset`), and
`GrowSet` is the induction the rest uses, stated over a *set* of subsets where the
library's theorem takes a predicate. From it come the sums of sums, differences,
unions and images, the sum by key, the exchange of two sums and a bound.

*`SessionsProofs`.* Seen from one login `r`, every action either leaves its live
tokens and its exchanges alone or removes some (`Narrows`), lets an exchange go on
(`Proceeds`), starts one (`Enters`), or ends one with a new token (`Ends`). The
invariant `Orderly` says that there is at most one live token or one exchange past
its revocation, never both, unless the login is in `overlapped`; each of the four
keeps it, and each action is shown to be one of the four. Besides, requests hold
tokens that exist (`Presented`), are equipped with what their await needs
(`Equipped`), and tokens once issued are only ever revoked or expired
(`TokensGrow`). `LogoutEndsTheLogin` adds that a closed login has neither token
nor exchange, which is kept because an exchange starts at a live token.
`UsersKeepAWayIn` is inductive because a membership never goes (`MembersStay`) and
a request that wrote a user stays `Enrolling` until it wrote the membership.
`TokensCarryTheirTenant` follows from requests that hold only permissions they are
`Entitled` to, as roles and memberships stay, whichever of its memberships the
context of a request lists (`MembershipsEntitled`); a request that was shown none
has no tenant, grants nothing, and presents a token, so that it is a refresh
(`OfNoTenant`).

*`WorkflowProofs`.* A workflow may have any list of actions; an execution is the
list it read and a position in it (`ActPosition`). `RepeatsNeedAStall` keeps an
account per job and action: notifications written, plus executions that still have
the action before them, plus one if the job is about to be started, is at most the
attempts the queue may give it, `stalls + 1`. `NotificationsKeepTheTenant` needs
that an edit never changes a workflow's tenant, so that what the processor reads
again is of the tenant that matched (`OwnTenant`). `OneVersion` follows an
execution from what it read to what is left of it (`Untroubled`).

*`BackofficeProofs`.* The stories are constants: the theorems hold for every set
of stories that start from well-typed rows whose references lead to given
rows of their tenant, without numbers, without rows of the seed and without routes on
tenants and users (`BackofficeAssumption`, `SeedAssumption`). Everything rests on `TypeInv`, which
adds to the types what each job in progress carries (`JobOK`).
`NothingEverDangles`: `LinksOK` says that foreign keys lead to rows of the right
model (`RowsLinked`), and that an id a request still holds was given to a row of the
right model and is in `spent`, so that it cannot be reused by a row of another one
(`PendingOK`). A deletion keeps it because what needs a doomed row blocks it
(Restrict), what is owned goes along (Cascade) and nothing owned owns anything itself
(`OwnedReferences`), and the rest is cleared (SetNull). A new or patched reference was
shown to the client, or is checked at the insert.
`OthersStayUntouched` uses the second half of `LinksOK`, `AtHome`: until somebody
writes from another context or moves a row, a foreign key leads to a row of the same
tenant. So what a deletion of an own row takes along or clears is of the same tenant
(`DependentAtHome`, `ReachesNobody`), and only a model without a tenant column can be
crossed by the row a request names (`CrossingIsLeave`).
`PayrollsAreComplete`: `SlipsOK` follows a payroll from its first insert: employees
who are paid have a slip that stays as long as they do, since slips go only with
their employee and no id is used twice.
`NumbersStayDistinct`: `CountingOK` says of an undisturbed tenant and model that
numbers are distinct and at most the count, and that at most one request waits to
insert, with the count plus one or a number of another form; each action disturbs the
tenant and model, keeps their documents and numbers (`DocsKept`), starts a wait, or
ends one with the count grown by one.
`BrandingIsKept`: of a tenant without overlap one request at most is between read
and write, and what it read is still what is stored.
`SeedIsRepeatable`: whatever step gives a row a key, of the seed or of a user, no other
row had it (`FirstOfKey`, `OneKey`), and every other step gives none (`NoNewKeys`);
stock moves made and still to be made by the run under way are at most the runs
started.

*`ClientsProofs`.* `DeviceOK` says that an access token is in the store from the
first part a save writes to the first a clear removes, so that an app that finds
none starts from an empty store.

*Only model-checked* are the three liveness properties, `RetriesSucceed`,
`RetriedPaymentsSucceed` and `MatchedIsHandled` (the prover has no rule for fairness
here), and what the recursive operators of `Conditions` compute. Every invariant,
every action property and the refinement checked by a passing run have a theorem.
Where a theorem has a hypothesis beyond the named assumptions (`NumbersStayFree`), the
run is an instance that satisfies it.

## 6. What was found

Each run named here is expected to be violated and quotes the line it contradicts.

* `payments_refused`: a second part payment of an invoice waits for its own lock and
  is refused after 5 seconds; entered again it is accepted (README of the
  repository, line 12).
* `permission_decides`: `PermissionsGuard` is an `APP_GUARD`, which NestJS runs
  before the guards of a controller; `req.user` is not there yet, and every route
  that asks for a permission is refused, also to an owner
  (`core/rbac/permissions.guard.ts:26`, comment at 2-3).
* `workflow_heard`: a listener of `'**'` is called with the payload alone, so that
  `onAny` returns at once and no event starts a workflow
  (`core/workflow/workflow.engine.ts:40`, comment at 4-5).

Also met while modelling, without a run of its own:

* POS: a retry that overlaps the first attempt is refused by the unique index and
  not answered with the order (`pos.service.ts:5-6`; a later retry gets it,
  `pos_live`). Without the tenant header the count that numbers orders runs over
  all tenants. After an order dated in an earlier year the next number of this
  year is taken for ever. An order sent without a warehouse, and every refund,
  changes no quantity on hand. Users may enter moves under the till's reasons and an
  order's number, which nothing tells from the till's own.
* Ledger: an invoice posted without an account for the tax may leave out a tax of
  one ten-thousandth that rounding hides in its total (`InvoicesPostedInFull`). An
  entry that balances exactly may be stored unbalanced, because its amounts are
  rounded after the check (`posting.service.ts:63`). `profitAndLoss` ignores `from`;
  the `check` of the balance sheet is the net income, not 0 (`CheckIsNetIncome`).
  Deleting an account takes a side from posted lines (`accounts.controller.ts:43`,
  `schema.prisma:243-246`), which then balance no more.
* Accounts: of two concurrent registrations of one email the second may leave a
  tenant without an owner. Registered tenants never get roles. The role `ADMIN`
  lacks companies, workflows, plugins and branding despite "Manage all modules"
  (`rbac.service.ts:23-24`). A refresh takes the first membership of the tenant that
  its header names; with the header of a tenant the user is no member of, or by a
  subdomain, it revokes the token and issues one of no tenant
  (`auth.service.ts:151-166`). `@Throttle` has no effect without a `ThrottlerGuard`.
* Context: `jwt-auth.guard.ts:4` says that the guard "hydrates the tenant
  context", but its `runWith` has an empty callback; audit rows never carry a user,
  and without a header nothing is scoped: a payroll then covers other tenants'
  employees. With one, the pinned Prisma refuses every operation on a unique key of a
  scoped model (section 7).
* Audit: the record of a mutation takes the tenant of the request's context, which is
  the slug for a client that came by its subdomain, and whatever the header says
  otherwise; the foreign key of the log
  (`src/apps/backend/prisma/schema.prisma:1012-1013`) refuses what is no id of a tenant,
  and the refusal is only logged (`core/audit/audit.service.ts:25`, `:37-39`), although
  the interceptor announces a record for every state-changing verb
  (`core/audit/audit.interceptor.ts:4-5`). A record is not waited for either, so that a
  crash or a failed insert loses it, too. `RecordAudit` models all of this, and the runs
  type it; no property is stated of the log, as the code promises none that holds.
* Workflows: the comment on `evaluateConditions` lists operators that are not
  there, and of the actions only `notify` and `log` do something
  (`workflow.engine.ts:10`, `:61`). `emit()` of the engine has no caller. The
  gateways emit to rooms no client joins, and nothing emits `notification.created`.
* Records: products of manufacturing orders and bills of materials, partners of
  projects and till orders, and assignees of tasks have no foreign key and are left
  behind when the row they name is deleted (`schema.prisma:769`, `:789`, `:824`,
  `:722`, `:852`). A bill or contract may bring a number the next count computes
  again (`bills.controller.ts:29`, `contracts.controller.ts:26`), a PATCH may
  renumber a contract, and a PATCH may give most rows to another tenant, after which
  a deletion there reaches rows here. Deleting an employee deletes payslips that
  were paid; deleting a warehouse removes it from the stock's history; generating a
  month twice makes a second slip for everyone. Running the seed again books the
  opening stock again.
* Client: killed while it saves a login, the app is signed in without a tenant.
* `withLock` has no caller.

## 7. Assumptions

* Handlers are modelled from the service call on, with the identity and tenant the
  controller passes. The guards as built refuse every route that asks for a
  permission (section 6); what lies behind them is modelled as if they let
  entitled users through, which is what the code is written for.
* For the same reason the passing `workflow` run has `HandsName = TRUE`.
* The Prisma middleware's scope is taken to be evaluated by the database on finds,
  counts, updates and deletions, as the code intends. The version the repository pins
  (Prisma 5.22.0, `pnpm-lock.yaml:67`) goes further: it refuses a lookup, update,
  deletion or upsert by a unique key whose `where` is `{AND: [...]}` only, which is what
  `mergeWhere` makes of it (`prisma.service.ts:46-99`). So such operations on scoped
  models always fail in a tenant context, among them the look-up of an order and the
  update of an invoice. The models admit them. Every safety property then holds of what
  the code does, which is less (where the models need the refusal itself they have it as
  a choice: `UpsertRole`). The liveness runs are about requests without a context: in
  `pos_live` there is one tenant, so that the scope selects everything and a history
  with the header is one without it; `Payments` has no context at all, and the workflow
  processor runs outside of requests.
* `unscoped` changes nothing for a query it only returns, because Prisma's promises are
  lazy; where that matters (memberships) it is modelled. Only the header or a subdomain
  sets the context; the JWT claim its comment names is not implemented.
* A body that is passed to the database as it is may, in Prisma's notation, also contain
  nested writes to related rows; clients send columns.
* PostgreSQL at READ COMMITTED: committed reads per statement, row locks until
  the end of the transaction, unique indexes that wait for uncommitted equal keys.
  It resolves deadlocks by rolling one transaction back, which `Expire` covers.
* BullMQ hands a stalled job out once more and then fails it (`maxStalledCount`
  is 1 and jobs are added without `attempts`).
* uuids do not collide, and ids are not used again.
* A client names rows it was shown, at that moment or earlier.
* Allocations are positive (the code does not check) and within existing invoices.
* The ledger is of one tenant: entries of others, on its accounts too, are left out.
* A refund's stock moves are linked to the order by its number, which the reference they
  carry contains; the text a user gives as the reason of the refund is left out.
* The numbered documents of `Records` stay within one calendar year (a document
  may be dated in the year before).

## 8. What is not modelled

`components` in `PROJECT.json` says it for each part. In short: the Redis lock
and file storage, which nothing calls or which are external; configuration,
health, metrics, about and the set-up of queues, which change no state; the sales
overview and `cashFlowSummary`, which are sums. In modelled parts: rendering of
numbers and documents, prices of lines, passwords and signatures, names and
codes of accounts, settings of a tenant that no code reads, the seed's
upserts of its tenant, roles and first user, the client's cart (local, and only
ever cleared) and screens.

## 9. The plan

Done: POS with inventory, its abstract book and proofs; payments and proofs;
ledger and invoicing; accounts, sessions and guards with the device, and proofs;
the workflow engine and proofs; records, numbering, payroll, audit, branding and
seed with proofs of all their properties; the sums of stock, payments, entries and
reports, and the stock of the order book. Left:

1. A liveness instance of `Payments` for crossing payments, should the code retry
   expired transactions itself.
2. The permission guard, once it runs after authentication: `PermissionDecides`
   then belongs to the passing run.

The number of runs is kept small on purpose: a new component's invariants share
one run, and an expected violation gives way when a more telling one is found.
