# A verification project for social-finance

`social-finance` ("Urena") keeps the dues, payments and cash books of Indonesian
neighbourhood units (RT) and their federations (RW): a Go backend over PostgreSQL
(`src/backend`), a web frontend (`src/frontend`) and a mobile application (`src/mobile`).
Nearly all lasting state, and every rule about money, is in the backend and its database;
the web frontend is the larger program, and its own difficulty is to keep what it shows and
what it sends in step with a server that answers late, out of order, or not at all. This
directory holds TLA+ modules of both, TLC configurations that check them, and proofs
checked by TLAPS.

Contents: [1 the system](#1-the-system), [2 modules](#2-modules),
[3 runs](#3-runs), [4 disagreements found](#4-disagreements-between-the-code-and-what-is-said-of-it),
[5 fairness](#5-fairness), [6 proofs](#6-proofs), [7 not modelled](#7-what-is-abstracted-or-left-out),
[8 plan](#8-plan). `PROJECT.json` maps every definition to its source lines.

How to run: `tlc -config PaymentLedgerRules.cfg MCPaymentLedger`, and likewise for the other
configurations (the MC module is the part of the name before the question: `PaymentLedger*`,
`PaymentSessions*`, `Idempotency*`, `FundSessions`); `tlc -config WebScreens.cfg MCWebScreens` and
`tlc -config WebSessions.cfg WebSession` for the web client; `tlapm` on each module whose name
ends in `Proofs`.

## 1. The system

### Components

| Component (directory under `src/backend/internal`) | State | Operations | What makes it correct |
|---|---|---|---|
| Dues, bills, payments (`finance`) | `dues`, `bills`, `payments`, `payment_allocations` | create/update/deactivate due, generate and create bills, synchronise bills with occupancies, (de)activate and cancel bills, record a payment for one bill, for several periods, or a donation; verify (approve, reject); reverse | no bill gets more than was billed; the stored status says what was paid; a payment is decided once; paid bills stay; oldest bill first |
| KAS, the cash book (`finance`) | `transactions` (append only), `period_opening_balances` | post, reverse, manual income and expense, close a period, report | every approved payment has exactly one income row, every reversal one compensating row; nothing is edited |
| Idempotency (`finance/idempotency.go`) | `idempotency_keys`, session advisory locks | lock, look up, run handler, store, answer | a repeated request is carried out at most once per key and answered truthfully |
| Voluntary expiry (`finance/expiry.go`) | `dues.is_active` | daily job, with catch-up at start and retry | expired dues take no new bills or donations |
| Fund locations (`fund_location`) | `fund_locations`, `location_balance_changes`, `fund_transfers` | create, update, deactivate, transfer, reverse a transfer, allocate an opening balance | no location below zero; locations never hold more than the KAS; an inactive location is empty |
| Households (`household`) | houses, households, occupancies, residents, residency periods | create, correct dates, move, deactivate; import and export | one open occupancy per house; tenure and bills agree |
| Authentication (`auth`) | `users`, memberships, `refresh_tokens`, reset codes, in-memory rate limits | login, refresh with rotation, logout, change and reset password | a refresh token works once; a reset code works once; revocation is final |
| Positions (`rt`) | RT and RW rows, `jabatan` columns, history | assign and remove positions | one holder of each single-holder position |
| RW ledger (`rw`) | its own transactions, locations, transfers, opening balance | as KAS and fund locations | as above |
| Notifications (`notification`) | devices, templates, deduplicated log, read marks | register device, notify on bill and payment events, push | at most one push per event; dead tokens are retired |
| Storage (`storage`) | proof files in an object store | upload, fetch, delete | a payment's proof outlives it |
| Shell (`cmd/api`, `http`, `config`, `health`, `database`, `migration`) | connection pool | routing, middleware, start-up | - |
| Web client, session (`src/frontend/src/app`) | a pair of tokens in `sessionStorage`, the user of `AuthContext`, `refreshPromise` | restore at load, login, logout, a call with one retry after a refresh | the session survives rotation; no request is run twice; logging out lasts; a tab never stays blank |
| Web client, screens (`src/frontend/src/features`) | per screen: selection, rows, spinner, message, open dialog, flags | select, load, open, submit, dismiss, reload | what is shown is what is selected, and includes what was just written; nothing is sent twice; nothing hangs |

The clients hold no state of record. They send payments with an `Idempotency-Key`, time out, and
send them again (`Idempotency`); the tab's tokens meet the server's in `WebSession`.
`src/mobile` is presentation over the same HTTP interface and is not modelled.

### How they interact

Every HTTP handler opens one transaction, calls one service function, and commits; errors roll
back. All communication between components is through tables inside that transaction
(`household` calls `finance.SyncHouseholdOccupancyBills` through the hook of
`household/hook.go`; `GET /bills` calls it too, so a read writes). After the commit, and outside
it, `finance` starts notification goroutines and `Idempotency.Finish` stores the response. Two
things run without a request: the expiry job and the notification goroutines.

PostgreSQL runs the transactions at READ COMMITTED. Concurrency is controlled by row locks
(`SELECT ... FOR UPDATE` on payment, bill, due, location), two kinds of advisory locks (KAS
numbers, per transaction; idempotency keys, per session), and unique constraints.

### What is hard

* *Interleavings.* Totals are read by one statement and used by later ones. Whether that is safe
  depends on which row each handler has locked first, in code spread over two files.
* *Lock order.* Locking a bill locks its due and RT as well; locations, payment rows and the KAS
  number lock come at different places in different handlers.
* *Long sequences.* The status of a bill is written by five handlers, from cached or recomputed
  totals; dues change between voluntary and obligatory, bills between active, obligatory and
  cancelled, while submissions for them wait.
* *Failure.* A server may stop between a commit and the storing of its response; a session lock
  ends with its connection, not with its handler; the outcome of a commit may be unknown.
* *Limits.* The connection pool, when a request holds one connection and asks for another.
* *Late answers.* A screen starts reads faster than they are answered. Only some of its loaders
  drop the answer of a read that is no longer the last one; every `fetch` may be cut by its
  timeout after the server has run it; a reload started by a write races the reads of the user.
* *Dialogs.* A dialog can be dismissed and opened for another record while its submit is under way;
  some flags that disable a second submit live with the screen, others with the dialog.
* *Rotation.* A refresh token works once. Several calls of a tab get a 401 at the same time, a page
  is reloaded while a refresh is at the server, a logout crosses one.

`PROJECT.json` lists the hazards with the line where each bites and the properties that watch it.

## 2. Modules

| Module | What it is |
|---|---|
| `PaymentContract` | what the payment subsystem promises: money reaches bills and KAS together, at approval, and leaves them together, at reversal |
| `PaymentLedger` | `finance` with one action per handler, each one atomic transaction; implements `PaymentContract` |
| `PaymentSessions` | the money handlers statement by statement: sessions, locks, drafts, commits, aborts, deadlocks; shows that the atomicity `PaymentLedger` assumes is real, by implementing the same contract |
| `FundSessions` | fund locations, transfers and opening balances statement by statement, beside the KAS entries that move money in and out of a location |
| `Idempotency` | idempotency keys across instances, with crashes and broken connections |
| `WebSession` | the session of one browser tab against the tokens the server keeps |
| `WebProfiles` | the choices in which the screens of the web client differ |
| `WebCalls` | the calls of `api.ts` and `rw-api.ts`: read or write, with or without a timeout |
| `WebCashScreens`, `WebFundScreens`, `WebDuesScreens`, `WebResidentScreens`, `WebAreaScreens`, `WebNoticeScreens` | the profile of every view and form, by part of the application |
| `WebScreens` | the machine that runs any one profile against a server that answers in any order |
| `MCPaymentLedger`, `MCPaymentSessions`, `MCFundSessions`, `MCIdempotency`, `MCWebScreens` | small instances; `MCWebScreens` collects the profiles of all screens |
| `PaymentLedgerProofs`, `PaymentRulesProofs`, `PaymentContractProofs` | theorems about `PaymentLedger`, each module on the lemmas of the one before, and its refinement of `PaymentContract` |
| `PaymentSessionsProofs`, `FundSessionsProofs`, `IdempotencyProofs`, `WebSessionProofs`, `WebScreensProofs` | theorems about the modules they are named after |

### PaymentLedger

`dues`, `bills`, `payments`, `ledger` and `balance` are the tables; `tenure` is the part of the
occupancy dates that bills depend on (the periods between start and end, and whether the end is
open). `wasVoluntary` is a history variable: the code forgets that a due was once voluntary, and
the rules about amounts do not apply to payments made then. Columns that never change (due,
occupancy, period and amount of a bill) are constants; a bill row that does not exist yet has the
status `absent`. Generated bills take the due's current amount, which the model keeps as far as the
code tells amounts apart (`rp0`, an amount of Rp0, or not).

Money is counted in units. `GetApprovedPaymentTotal` is a SQL `SUM`; here it is the number of
pairs of a payment and a unit of its allocation (`Units`), which is the same number and can be
reasoned about with the library's theorems on cardinalities. A payment for one bill is an
allocation with one bill; a donation is one with none.

| Actions | Code |
|---|---|
| `UpdateDue`, `DeactivateDue`, `DeadlinePasses`, `ExpireVoluntaryDues` | `service.go` 262-342, `expiry.go` |
| `GenerateBills`, `CreateBill`, `UpdateBillStatus`, `UpdateDuePeriodStatus`, `CancelBill` | `service.go` 346-619, 1687-1721 |
| `UpdateOccupancyDates`, `ListBills` (both with `Synced`) | `household/repository.go` 716-787, `handler.go` 635-806, `sync_bills.go` |
| `StaffPayBill`, `WargaPayBill`, `Donate` | `CreatePayment`, 623-929 |
| `StaffPayPeriods`, `WargaPayPeriods` | `CreateMultiPeriodPayment`, 1725-2147 |
| `RejectPayment`, `ApproveDonation`, `VerifySinglePayment`, `VerifyMultiPeriodPayment` | `VerifyPayment` and its parts, 1021-1446 |
| `ReverseApprovedPayment`, `ReverseTransaction`, `CreateManualTransaction` | 2482-2610, 1589-1683, 1450-1587 |

A guard stands for every early return, in the code's terms: a bill is `Collectable`, the
selection is the oldest part of the queue (`OldestOf`), the amount is accepted (`AcceptsAmount`,
the full and the partial rule). A voluntary bill skips the amount, the order and the obligation
checks, and is `paid` by any amount. A one-bill payment that no longer fits is rejected by the
approval itself, and that rejection is committed (`VerifySinglePayment`); a multi-period one
fails and stays pending.

### PaymentSessions

A request is a handler, the row it is about, and the due or the location it names. A handler is the
sequence of its statements, built by operators named after the functions of the
code (`BillGetByIDForUpdate`, `Reconcile`, `PaymentVerify`, `TransactionCreate` ...); what it does
for each bill in turn is a `ForEach` over an order of the bills. There is one action per kind of
statement: `Lock`; those that decide (`ExpectStatus`, `CheckOpen`, `CheckFree`, `CheckPayable`,
`RejectInstead`, `CheckUnreversed`, `CheckBalance`, `NextNumber`); those that write (`Insert`,
`SetReversed`, `SetVerified`, `Settle`, `SetReconciled`, `SetCancelled`, `Post`); and `Commit`. A session
holds locks and drafts; drafts are visible to others after `Commit`. `FOR UPDATE` conflicts with
itself and with the `KEY SHARE` locks that foreign key checks take. A unique payment number is a
lock as well: the second writer waits for the first and fails if it commits. `BreakDeadlock` is
PostgreSQL's detector; `Abort` is any other failure, at any statement. Rows read by a statement
that has no `ORDER BY` on a key arrive in every order (`Unordered`: rejection and reversal of
multi-period payments); the others are `Sorted` by their ids (`Rank`). Sums count units of money, as
in `PaymentLedger`.

### FundSessions

`state` and `balance` are the rows of `fund_locations` and the sums of
`location_balance_changes`, `kas` is the closing balance of the cash book, `made` and `returned`
are `fund_transfers`, `posted` and `undone` the entries of `transactions`. A request is a pair of a
handler and a row:

| Handler | Code | Locks before it decides |
|---|---|---|
| `create`, `update`, `deactivate` | `fund_location/service.go` 25-131, `repository.go` 26-238 | the row it updates, by the `UPDATE` itself |
| `transfer`, `return` | `service.go` 133-207, `repository.go` 258-519 | both locations in the order of their ids |
| `allocate` | `service.go` 209-235, `repository.go` 521-596 | its own location |
| `post`, `undo` | `finance/service.go` 1450-1683, and the income of an approval (957-1019) | the location money leaves; an approval has its bill's RT |

Every request takes the same steps: `Read` (what it reads without a lock, `Sees`), `Lock` for its
early locks (`Early`), `Decide` (`Allows`), `Lock` again for what the inserts take (`Late`: keys of
unique indexes, the KAS number, foreign keys), `Commit`. There are three lock modes of PostgreSQL:
`FOR UPDATE`, the weaker one of an `UPDATE` that changes no key, and the key share of a foreign
key check. An allocation reads the closing balance and the sum of the locations by two statements
(`ReadKas`, `Decide`). What is in the locations (`InLocations`) is a sum over their rows and
counts units of money. `stretched` is a history variable: what `AllocationsCovered` exempts, a KAS that
is short at the start included.

### Idempotency

One call goes through the steps of `HandleIdempotentRequest`, a handler, and `Finish`. The
connections of a pool are counted (`InUse`, `Free`): one for the lock, and a second one for the
handlers that do not run on it. `Crash` kills all calls of an instance; `LoseSession` frees a lock while its
handler goes on; `Commit` may fail, succeed, or succeed with its reply lost; `Flush` may lose the
answer. `InTx` are the requests whose handler stores the response in its own transaction
(`POST /payments` does, the others leave it to `Finish`). A handler that waits for its second
connection waits until its client gives up (`GiveUp`): `HandleIdempotentRequest` and `pgxpool` set
no limit of their own, but the web client aborts after ten seconds (`AbortSignal.timeout`), the mobile
one has a `receiveTimeout`, and both cancel the context of the request.

### WebSession

The pairs of tokens are numbered in the order the server issues them. `issued`, `live` (refresh
tokens neither used nor revoked) and `valid` (access tokens not expired) are the server's tables;
`stored`, `user`, `flow` (restore, login or logout), `call`, `shared` (`refreshPromise`) and
`direct` (the refresh `restore` sends by itself) are the tab's. `strays` are refreshes that are
still at the server although the page that sent them is gone or has timed out. `lost` and `out`
are history variables. `Untimed` are the calls that give `fetch` no signal: those about officers'
positions (`api.ts` 540-573).

| Actions | Code |
|---|---|
| `Serve`, `FindRefreshToken`, `Rotate`, `Logout`, `Expire` | `auth/middleware.go`, `service.go`, `repository.go`: refresh reads its token without a lock and rotates in a second step |
| `Send`, `Receive`, `Unauthorized`, `RefreshAnswered`, `Abort`, `RefreshAborted` | `authenticatedApiRequest` and `performRefresh`, `api.ts` |
| `RestoreMe`, `RestoreRefresh`, `RestoreRefreshAborted`, `RestoreAgain`, `Login`, `LoginMe`, `StartLogout`, `LogoutAborted`, `Leave`, `Left`, `Reload` | `AuthContext.tsx`; the page itself |

### WebScreens

The components that load or write do it in the same way, with different details, and the details
decide what can go wrong. So there is one machine, and a *profile* for each component. Of a view the
profile says whether its selection can change while it is mounted (`keyed`), which answers it takes
(`guard`: all; those of its last read; those of the last read of a counter that another loader
counts up, too), what a failed read may leave (`onError`), when rows are rendered (`rows`), and which
calls it makes (`loads`, `timed`). Of a form it says which flag stops a second submit (`lock`),
whether the dialog refuses to be dismissed while one is under way (`held`), what becomes of the
dialog (`ends`) and of the view (`after`) on success, and which calls it makes, in order, each with
its timeout and whether its failure is survived (`calls`).

Two of these need care. `onError` is a set: a loader of several calls may swallow the failure of one
and report that of another, and where its calls fill parts of the screen that fare differently, each
part is a view (`FundLocations`, `FundReconciliation` and `FundTransfers` are one `loadData`).
`lock` says how long the flag lives:

| `lock` | The flag | For example |
|---|---|---|
| `screen` | outlives its dialogs, as long as the screen stays mounted | the forms of `FundLocationList`, `KasList` |
| `dialog` | starts anew with a modal that is unmounted, or a page of its own that was left | `DueCreate`, `KasIncome`, `KasExpense`, the reversal in `IuranDetail` |
| `reset` | outlives its dialogs, but closing one clears it | `handleCloseEdit` and `handleCloseDeactivate` of `IuranList` (749, 905) |
| `record` | is the record of the last submit | the verification in `IuranDetail` |
| `none` | there is none | switches in lists |

`Init` picks a profile, and `Next` runs it: `Select`, `StartRead`, `OtherLoad`, `ServeRead`,
`ReadAnswered`, `ReadFailed` are the view; `Open`, `Dismiss`, `Submit`, `ServeWrite`, `NextStep`,
`Succeeded`, `Refused`, `TimedOut` the form. The server's data are one version number: what a
view shows is the selection it was read for and the version it was read at. The flag of a dialog
that was closed goes with it, and the submit that set it is `gone`; a submit that outlives a flag it
shares with the next one (`reset`, `record`) clears it at its end. The screens have 65 distinct
profiles. `PROJECT.json` maps each profile to the component it was read from.

## 3. Runs

Deadlock checking is off in all of them: the modelled world ends when all payments, requests or
calls of the instance are used up.

| Run | Question and bounds | Result |
|---|---|---|
| `PaymentLedgerRules` | two bills (two units each) of one multi-month due, two payments, ledger of three rows, due settings full and partial rule | `TypeOK`, `NoOverpayment`, `StatusAgrees`, `SelfReservationsFit`, `OneIncomePerPayment`, refinement `ImplementsContract` hold; 154 thousand states |
| `PaymentLedgerDues` | bills of two neighbouring occupancies, a due switching between obligatory and voluntary at Rp0, its deadline, a bill of Rp0, three settings of the occupancy dates, donations, manual entries, one location | `UnpaidFollowsTenure`, `PaidBillsKept`, `NoOverdraft` hold; 751 thousand states |
| `PaymentSessionsRaces` | every pair of handlers on two bills of one due, three payments (overlapping, single, donation), one location, from every consistent start | `TypeOK`, `NoOverpayment`, `StatusAgrees`, `NoOverdraft`, `ImplementsContract` hold; 328 thousand states |
| `PaymentSessionsEnds` | the same without donations and locations, under fairness | `EveryRequestEnds` holds |
| `IdempotencyCopies` | two calls, four requests of three kinds, two keys, two instances of two connections | `PaidOncePerKey`, `AnswersAreTrue`, `CopiesAgree`, `EveryCallEnds` hold; 131 thousand states |
| `FundSessions` | every pair of requests on two locations in any state, a transfer in each direction, an entry of each kind, from every consistent start | `TypeOK`, `NoOverdraft`, `TransferReturnedOnce`, `TransfersDoNotDeadlock`, `AllocationsCovered`, `TransfersBetweenActive` hold; 292 thousand states |
| `WebSessions` | one tab, two requests of its screens, one of them without a timeout, and the profile call, two events (logins, expiries, reloads by hand) | `TypeOK`, `SessionKept`, `OneRunPerRequest`, `LogoutLasts`, `RestoreEnds`, `EveryCallEnds` hold; 373 thousand states |
| `WebScreens` | all 65 profiles, two selections or records, three reads, two submits | `TypeOK`, `ShownFollowsSelection`, `StaleRowsAreMarked`, `OwnWriteShown`, `OneSubmitAtATime`, `ClosesItsOwnDialog`, `ToldTheTruth`, `NothingHangs` hold; 629 thousand states |
| `PaymentLedgerHandReversal`, `PaymentLedgerFifo`, `PaymentSessionsDeadlock`, `IdempotencyIncome` | see section 4 | violated |

Why the bounds are enough to be interesting. Two bills are what FIFO, an allocation over several
bills, and a lock order need; two units are what a partial payment, an overpayment by the sum of
two payments and a rest need; two payments are what a reservation, an overtaking staff entry and a
payment that no longer fits need, and three ledger rows what a payment, its reversal and one more
entry need. Two sessions suffice for every race and every lock cycle between two handlers;
cycles of three are not explored (for transfers `TransfersNeverDeadlock` of section 6 covers cycles
of any length), and what the money handlers keep safe is proved there for any number of sessions. Two calls suffice for a copy that races, follows or outlives
the first, and two connections are few enough for the pool to run dry: two calls of handlers that need
a second connection hold one each and wait. In `WebSessions` two calls are what sharing a refresh needs, and two events are what an
expiry followed by a reload, or a logout followed by a login, needs. In `WebScreens` two
selections and three reads are what an answer that overtakes another, and a reload after both,
need, and two submits what a second click and a dialog opened anew need. What the bounds cannot
show is what the proofs of section 6 are for.

The properties of the web client have exceptions, and each is a state TLC finds in the code's
behaviour when the exception is left out. They are the places where the screens are weak:

* views without a guard show what was answered last, not what was asked last
  (`history.overtaken`); the cash book, the lists of RTs and of fund locations, and most dialogs that
  load are of this kind;
* loaders that swallow a failure show old rows, or none, as if that were all, until the newest read
  comes through (`history.silent`): the dashboards keep the old figures, the transfers of
  `FundLocationList.tsx` 131 become an empty list, so that a transfer that was just made is missing from
  it, and the RW's transfers, the notifications, the bill of a payment and the profile are of this
  kind;
* a patch of the rows on screen is undone by a read that was sent before the write
  (`history.patched`);
* a reload after a write reads the selection its submit was made under; if the dialog was
  dismissed and the selection changed, it brings back the old one (`history.dismissed`);
* an import reads the first page and shows it under the number of the current one
  (`form.after = "first"`);
* only a form that is `Exclusive` sends at most one submit at a time while its screen is mounted: a
  flag that starts anew with the dialog stops double clicks in it (the second part of
  `OneSubmitAtATime`) and not the submit of the next dialog; one that closing resets, that follows the
  last record, or that does not exist, stops neither;
* a view whose counter is shared with another loader can be left spinning, and so can calls
  without a timeout (`NothingHangs`, and for `Untimed` calls `EveryCallEnds`, which asks of them only
  that they do not wait for a refresh for good);
* `SessionKept` needs answers that arrive (`lost`): a refresh that ran, and whose answer was lost,
  has used up the only token the tab has;
* `LogoutLasts` exempts a logout that crosses a refresh or a reload (`out = "crossed"`): a refresh
  that has read its token issues a live pair after the logout revoked all.

`AllocationsCovered` of `FundSessions` has two exceptions of the same kind (`stretched`): money that leaves
the KAS without a location, and requests that overlap an allocation after it read a total.

Bounds, by name: `MaxPay`, `MaxLedger`, `MaxManual`, `ManualAmounts`, `TenureEdits` and the sets of rows in
`PaymentLedger` (`MaxBillsPerPayment` is the code's 12); `MaxRequests` and `Requests` in
`PaymentSessions` and `FundSessions`; `Calls`, `Requests` and `Connections` in `Idempotency`; `Requests` and `MaxEvents`
in `WebSession`; `Keys`, `MaxReads` and `MaxSubmits` in `WebScreens`. `SYMMETRY` permutes
payments or sessions and is used only in runs without liveness properties, on sets whose members
the constants treat alike.

Each property of a passing run comes with a mutant in `PROJECT.json`: an operator marked
"Faulty" or "Mutant of ..." in the module, put in place of the one that models the code, breaks it. Among them are a
bill read without a lock, a balance read without one, a transfer that locks its sender first, a total taken before the lock, a sum over `bill_id` that misses the
allocations, an approval that does not look at the status, a commit that does not carry the
stored response, a loader that takes every answer, a counter that is not counted up, a dialog that
closes while its submit is under way, a refresh of one's own for each call, a client that does not
give up while its call waits for a connection.

## 4. Disagreements between the code and what is said of it

1. *A row is reversed at most once* (`ErrAlreadyReversed`). `ReverseTransaction` checks it,
   `ReverseApprovedPayment` does not: the income row of an approved payment reversed by hand is
   reversed again with the payment. Run `PaymentLedgerHandReversal`. The same state can be reached
   by two officers who reverse a row by hand at once: the count of `service.go` 1601 is read
   without a lock.
2. *FIFO.* The order is checked when a payment is recorded and not when it is approved. Run
   `PaymentLedgerFifo` reverses or reactivates an older bill in between.
3. *Sorted bill ids prevent deadlocks.* They would if locking a bill locked only the bill. Run
   `PaymentSessionsDeadlock`. `EveryRequestEnds` shows what saves the day: PostgreSQL cancels one,
   whose client gets a 400.
4. *A duplicate request makes no second KAS income* (BR-13). Payments for several periods do not
   store their response in their transaction. Run `IdempotencyIncome`.

Smaller ones, visible in the models and without a run of their own: the 400 of finding 3 is stored
under the idempotency key and replayed (`docs/kas-implementation-audit-report.md` 352 has the
response stored after success); verifications of different payments can compute the same
`payment_no`, and one fails on the constraint, although `repository.go` 1463 says the race is
eliminated; a bill paid while its due was voluntary stays `paid` with less than its amount
(`docs/business-rules.md` 71); a bill that becomes unpaid by a reversal keeps an obligation
computed from older dates (`docs/database.md` 316); when a used refresh token is presented again,
`auth/service.go` says it invalidates "any replacements", but `RevokeRefreshTokenByHash`
(`repository.go` 405-420) revokes the tokens that this one replaced; a logout with an
expired access token is refused and leaves the refresh token live (`docs/security.md` 26).

And three about fund locations, all in `docs/lokasi-dana-design.md`. Line 447 says that in normal
operation the unallocated part of the KAS is never negative, being validated atomically
(443-445); the validation locks one location only and reads its two totals by two statements, so
two allocations that overlap, or an expense between the statements, allocate cash that is not
there, and an expense without a location needs no overlap (the exceptions of
`AllocationsCovered`). Line 172 forbids the deactivation of a location that has money; the balance
is read without a lock, so money may arrive before the `UPDATE`. Line 175 has both ends of a
transfer active, which holds (`TransfersBetweenActive`), but an opening balance or the reversal of
a transfer does not look.

## 5. Fairness

`PaymentLedger` states none: its properties are safety properties. `PaymentSessions` assumes weak
fairness of each session's steps: the server runs a handler to its end, PostgreSQL grants a lock
that stays free and breaks a deadlock that lasts. Weak fairness is enough, and justified, because
with finitely many requests nobody can overtake forever; arrival and abort are not fair.
`Idempotency` assumes weak fairness of the steps of a call, and strong fairness of taking a
connection: `database/sql` serves waiters in order, so a call that keeps finding the pool free
again is not passed over forever. Crashing and losing a session are never required; giving up is
(weak fairness of `GiveUp`), because every client of these handlers has a timeout, and it has to be: two calls
that hold the two connections of a pool and ask for another wait for each other, and the server has
nothing that ends it. The mutant `GiveUpConnecting`, a client that waits on there, shows the wait.
`WebSession` assumes weak fairness of the steps of the tab, for the calls that are not `Untimed`: their
`fetch` is over after ten seconds at the latest (`AbortSignal.timeout(TIMEOUT_MS)`), and the browser runs
what has settled. Nothing is assumed of an `Untimed` call, whose `fetch` may never end.
`WebScreens` assumes the same of reads and submits, and a timeout only where the call has one. Nothing is
assumed of the server or of the user in either.

## 6. Proofs

`PaymentLedgerProofs` proves, for every set of bills, dues, occupancies, users, payments and
locations and every bound,

* `TypeCorrect`: `Spec => []TypeOK`;
* `NeverOverpaid`: `Spec => []NoOverpayment`;
* `StatusesAgree`: `Spec => []StatusAgrees`;
* `NeverOverdrawn`: `Spec => []NoOverdraft`.

The assumptions are those of the module: the immutable columns have their types, the bill and
payment rows are finite, `UNIQUE (occupancy, due, period)` holds, and null values are not rows.

Neither `NoOverpayment` nor `StatusAgrees` is inductive, and each needs the other: an approved
total that is at most the bill follows from the guard only where the guard is evaluated, and the
status handlers compute from totals that must be those of the row. The inductive invariant is

    MoneyInv == TypeOK /\ VoluntaryRemembered /\ PaymentShapes /\ NoOverpayment /\ StatusAgrees

`VoluntaryRemembered` (a due that is voluntary is in the history) links the guards, which look at
the due's present setting, to the properties, which exempt dues that ever were voluntary.
`PaymentShapes` says that a one-bill payment allocates its whole amount to one bill and a donation
nothing, so that `VerifySinglePayment`, which compares `payment.amount`, in fact compares the
allocation. The argument: a step changes the row of at most one payment; the lemmas on `Units`
say by how much the approved total of each bill moves when one row changes its status
(by its allocation, or not at all); the guards bound the new total; the bills not touched keep
total and status. Then one step per action. `NeverOverdrawn` needs only `TypeOK`: each outflow is
guarded by `CanSpend`.

`PaymentRulesProofs` builds on it, with the same assumptions:

* `UnpaidFollows`: from `MoneyInv` and `CoveredIssued` (a payment covers issued bills only, so that a bill
  issued later has no reversed payment and is not exempt by accident); the recomputation at a
  change of dates, the synchronisation and the generation establish it for the rows they write, and
  the other handlers write the status only;
* `ReservationsFit`: what residents have on a bill is part of its approved and pending totals,
  and the guard of a submission compares these with the bill;
* `PostedOnce`: the strengthening is `LedgerShape` (only rows posted for payments look like the income
  of one), and the lemmas say which rows of a payment one posting adds;
* `PaidStays`: the action property `PaidBillsKept`, from `TypeOK`, by the rows each handler writes.

`PaymentContractProofs` proves `KeepsContract`: `Spec => ImplementsContract`. Seen through the
refinement mapping, a step changes one payment at most; when it is approved, the bills get the
credit of its allocation (the lemmas on `Units` again) and the ledger its income, and the cash of
the contract, a difference of two cardinalities, grows by its amount. That both are cardinalities
of finite sets (`CashFinite`) is the strengthening; every other step leaves what the contract
speaks of alone.

`PaymentSessionsProofs` proves the same of the statements: `TypesOK`, `NeverOverpaid`,
`StatusesAgree`, `NeverOverdrawn`, `OneIncome` and `SessionsImplementContract`
(`Spec => ImplementsContract`), for any number of sessions, requests, bills, payments and locations, under the
assumptions `Columns` (types of the immutable columns; the due a donation names is one) and
`FiniteTables`. The code has two ways to be right at once: what a handler has read under a lock
stays true until it commits, and what it still has to do completes what it has drafted. The
inductive invariant `Inv` has a part for each, and one for what sessions are to each other:

* `OnTrack(s)`: what is left of the handler is a `Program`, given some set of statements that are
  done. In a program every statement finds before it what it builds on (`Supported`: a check of a
  bill comes after the lock of the bill, an approval after the check of every bill, money leaves a
  location after its balance was checked), and after it what completes it (`Followed`: who approves
  settles the bills and posts the income). And what was done still holds (`Holds`): the row that was locked is
  locked, the status that was expected is the status, the rest of the bill is the rest that was read.
  The lemmas `StaffPayProgram` to `PayOutProgram` show that every handler is such a program; the steps
  use only that, not which handler it is. A handler that lost a lock, or checked before it locked, is no
  program.
* `Drafted(s)`: what is drafted belongs together. Nothing is drafted before it is decided on
  (`InOrder`), money is posted for the payment that is drafted (`MoneyFollows`) by a location
  that has it (`Covered`), and the bills of a drafted payment follow it, if not yet then by a
  statement that is left (`BillsFollow`), with a status that agrees with what the session sees
  (`DraftBill`).
* `Exclusive(s, o)`: two sessions hold no locks that conflict and draft no payment twice.

TLC has checked `Inv` on every state of the run `PaymentSessionsRaces`, with the set of all statements that
hold as the witness of `OnTrack`. The argument: a
read or a write of a session leaves the tables alone, so only its own parts need an argument; a
`Lock` keeps `Exclusive` because it waits for its `Blockers`; a `Commit` changes rows only that its
session has locked, or a payment nobody else has, so what others know of theirs still holds. For
the refinement, a commit is the only step that shows: what `Drafted` says of a session without
statements left but the commit is that one payment changes, with its bills and its money, or that
none does, and these are the steps of the contract. `OneIncome` rests on `Inv` too: the commit that posts a row
for a payment changes its status, and no other commit does either (`CommitIncome`). It is not stated by a run, as `PostedOnce` is for
the handlers of `PaymentLedger`.

`FundSessionsProofs` proves `FundTypes`, `NeverOverdrawn`, `ReturnedOnce`, `JoinsActive`,
`AllocationsStayCovered` and `TransfersNeverDeadlock`, for any number of sessions, locations, transfers
and entries, under the assumptions `Columns` (types of the immutable columns; ids are ordered) and
`FiniteTable` (the locations are finitely many). The invariant is

    Inv == TypeOK /\ Compatible /\ StillAllowed /\ FirstReversal /\ NoOverdraft /\ TransferReturnedOnce

`Compatible` says that no two sessions hold conflicting locks, and `StillAllowed` that what a session
decided on is still true while it waits for its late locks: whoever could change it would need a
lock that conflicts with one the session has. `FirstReversal` says that who has the key of a
reversal in the unique index found none there. The argument has three kinds of steps: those that
change neither tables nor locks, those that take a lock, and commits. `AllocationsStayCovered` needs
`Funded` beside it: as long as nothing stretched the KAS, it covers the locations, and what an
allocation under way has read is still so (`Earmarked`: the closing balance is at least what it read, and
once it has decided, what is unallocated is at least what it will write). The lemmas on sums say by how
much the money in all locations moves when one or two rows change; a transfer moves none. For deadlocks: a transfer in
a circle waits for one of its two rows and is blocked by one that has its lower row and waits for
its upper one; so each waits for a row with a smaller id than the one its blocker waits for, and
the largest of these ids has no place in the circle. The theorem asks for an upper bound of the ids.

`IdempotencyProofs` proves `PaysOnce`, `TellsTruth` and `Agree` for any number of calls, keys,
instances and connections, under the assumption `Setting`; they are about the requests whose handler
stores its response in its transaction (`InTx`). The invariant is `KeyInv`: a call with a
live session holds its key's lock from its lookup on (`Locked`), so that no response is stored
between its lookup and its commit (`StillNone`); a payment is made if and only if its response is
stored (`Recorded`); and whatever is about to be answered is what is stored (`Truthful`, in
`SavedFirst`). A call that lost its session loses its transaction with it, and that is what the
argument needs of the crash actions. `KeyTypes` is the type invariant, for every kind of request: no
instance uses more connections than its pool has (`Pooled`; a connection is taken only when one is
free, and a crash returns all), and a lock is held by a call that is past its lookup and was sent
under that key (`HeldByUser`). It needs that calls are finitely many (`FiniteCalls`).

`WebSessionProofs` proves `SessionTypes`, `RunsOnce`, `LogoutIsFinal` and `KeepsSession` for any
number of requests and events. `OneAtATime` says who may run beside whom (a shared refresh
belongs to a waiting call, a direct one to `restore`); `RunOnce` that only calls the server has run, or may
have, are no longer sent; `LoggedOut` that after a logout nothing under way can bring a pair back;
`Kept` that, while nothing was lost, a refresh is for the pair that is stored.

`WebScreensProofs` proves `OneSubmit`, `ClosesOwn`, `ShowsSelection`, `MarksStaleRows`,
`ShowsOwnWrites`, `ReportsTruth` and `ScreenTypes` for every set of profiles with `Choices`, that is, for every screen somebody may add
that is built from the same choices. What they say of the code rests on the profiles, which are read from it. For a form: `LockInv`, by which a submit is alone while its form is
`Exclusive`, and `DialogInv`, by which at most one of the submits of a `dialog` lock belongs to the dialog
that is open. For a view: `Counted` (reads carry different numbers), `Steady` (a submit belongs to the
dialog that is open), `Follows` (the last read is for the selection, or shows it already) and `OwnWrites`
(the last read includes the last write, or will). The last two theorems rest on `BoundsInv`: a submit
under way has room for the read it ends with (`Reserved`), reads have numbers of their own and
show nothing newer than the data (`Numbered`), and of the calls a form needs, those that have run
are counted and at most one more can have (`OnTrack`, `Needed`). `ScreenTypes` asks of the bound that a view
that loads may read once (`MaxReads` is not 0). `ShowsSelection` and `ShowsOwnWrites` need one fact more since
failures may be swallowed: what is remembered of it (`history.silent`) goes only when the newest read is
taken (`SilentStays`, `AnswerRemembered`).

Every invariant and every action property of a passing run is stated by one of these theorems. Only
model-checked is liveness: `EveryRequestEnds`, `EveryCallEnds` (of `Idempotency` and of `WebSession`), `RestoreEnds` and
`NothingHangs`. They need fairness and `ENABLED`, which the provers do not handle. The four properties that are
violated are refuted by TLC's counterexamples, and what holds in their place is proved.

## 7. What is abstracted or left out

* Amounts are small whole numbers; cents, decimal parsing (`money.go`) and overflow are not
  modelled. All amounts of a bill and a due are compared, added and never scaled, so units are
  enough for the rules here.
* One RT. All queries carry `rt_id`; the isolation of tenants is not a question these models ask.
* Who may call what is reduced to warga and staff, and for verification to "another officer than
  the submitter". Permissions per position are lookups outside the transactions.
* Proof files, notes, audit rows, notifications, categories, payment methods and dates of receipt
  do not influence the state modelled.
* Creating a due, and creating occupancies, happens before the modelled time: `Init` has the dues
  and the households, no bills.
* `UpdateManualTransaction` always refuses, and `UpdateDue` is modelled by the settings it can
  leave behind.
* `FundSessions`: names and categories of locations are not told apart (an `update` is its lock; that
  a changed name is taken is one of the failures `Abort` stands for), the closing balance is read
  as if `CalculatePeriodBalance` were one statement and no opening balance of a period were set,
  and `FUND_LOCATION_ENFORCEMENT` is not set to `enforced`.
* `WebSession` is one tab: other devices, password changes and reset codes, rate limits and roles
  are left out. Of the screens, what a row looks like, the validation of inputs, exports, several
  screens together, and views put together from several pages (`KasReport.tsx` 63) are left out.
* The server side of households (other than dates), positions, the RW ledger, notifications,
  permissions, and `src/mobile`.
* In `PaymentSessions`: bill creation, activation and date edits (single-row updates without a
  read to protect) and the KAS number itself.

## 8. Plan

Next, in this order:

1. `Households`: create, move, deactivate, with the indexes of migration 008, composed with the
   bills of `PaymentLedger`.
2. `RwFunds`: the RW ledger (`rw/repository.go`) as a second instance of the questions of
   `FundSessions`, with other locks, and its opening balance, which is deleted and inserted anew.
3. `AuthSessions`: several devices, password change and reset codes (a code works once), on the
   server side of `WebSession`.
4. `Notifications`: at most one push per event, and what is lost in a restart.
5. `PeriodBalance`: `CalculatePeriodBalance` as an operator against its reference definition
   (opening + income - expense over the ledger), opening balances and later entries; then the
   closing balance `FundSessions` reads.

Theorems to come: for each of these modules the type invariant and its main safety invariant, from an
inductive invariant that TLC has checked; which sets of requests cannot deadlock in
`PaymentSessions` (the order in which a handler takes its locks is in its `Program`); that
`Idempotency` pays at most once also for the payments of several periods as long as no instance crashes and no
session is lost between the commit and `Finish`.
