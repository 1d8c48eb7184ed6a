# MARFYL backend: specifications, checks and proofs

TLA+ modules of the parts of the MARFYL backend (a multi-tenant NestJS application over
PostgreSQL, through Prisma) whose correctness depends on what runs at the same time, on
what fails half way, and on long sequences of legal calls. `PROJECT.json` lists the runs,
the mutants, the map from definitions to source lines, the hazards and the theorems.

Contents: [inventory](#inventory), [modelling conventions](#modelling-conventions),
[modules](#modules), [runs](#runs), [what the checks show](#what-the-checks-show),
[fairness](#fairness), [proofs](#proofs), [only model-checked](#only-model-checked),
[not modelled](#not-modelled), [plan](#plan), [how to run](#how-to-run).

## Inventory

Every request is an async handler of one Node process (several processes in production:
nothing in the code serialises them); the shared state is the database. A handler is a
chain of awaited statements, some of them grouped in a `$transaction`.

| component | state it keeps | operations | talks to | hard behaviour | what makes it correct |
|---|---|---|---|---|---|
| concert box office (`modules/concert`) | seats (status, holdToken, heldUntil, orderId), orders, tickets | hold, renew, checkout, confirm, cancel, release a table, door sale, door scan, sweeps | upload store, email | races on seats, seats read before a transaction and used in it, deadlines, orders sold and resold | no seat lost between two buyers, sold = paid = ticketed, cancelled orders own nothing, abandoned seats come back |
| invoice numbering (`invoice-sequence`, `fiscal-control-number`) | one sequence row and one fiscal profile per organisation | allocate a consecutive, allocate a control number | called by invoices and imports | first use, row locks, rollback, a number read without a lock | consecutives distinct and without gaps, a control number given alone given once |
| invoices (`invoices.service`) | invoices, items, payments | create, void, adjust, mark as paid by client | numbering, credits, tasks, stock, fiscal engine | steps after the commit, stock checked outside the transaction, voiding twice | what was sold is charged, what is voided is given back once |
| credits (`credits.service`) | one account per customer, ledger of charges and payments | open, charge, pay, reverse, limit | invoices, tasks | balance read and written by two statements, no transaction | balance = ledger, never over the limit, paid means paid |
| tasks (`tasks.service`) | tasks, with the invoice they collect | create, change status | credits reads them to find overdue debt | tasks that outlive their invoice, sellers the service refuses | a collection task has its charge |
| sales import (`sales-import.service`) | previews, invoices with a legacy key | preview, confirm, import one | numbering, stock | the same file confirmed twice, stock taken whatever is reserved | registered like any other document, units conserved |
| floor orders (`floor-orders.service`) | orders, accounts of tables and their payments, reserved stock | take, send, prepare, cancel, charge one, charge a table or a tab | invoices (`releaseReserved`), websocket | status read by one statement and written by id in another, claims with a sentinel, compensation after a failure, reservations | reserved stock = stock of the orders in the kitchen, a charged order has its own invoice, a table has one account |
| stock (`inventory*`, `products`, and the stock side of `invoices`, `sales-import`, `expenses`) | `products.stock`, `reservedStock`, movements | sale, void, consumption, adjustment, edit, imports | invoices, floor orders | check and write in different statements, variants and combos, levels computed before | no unit lost or created: stock = opening + received - consumed - sold |
| cash register (`cierre-caja`) | shifts and their Z reports | open, close, nightly closing, print | reads invoices | cashier against job, sales that commit while the report is summed | a sale in one report, a closed shift stays, no shift stays open |
| expenses, payroll, purchases (`expenses`, `payroll`, `purchases-import`, `invoice-upload`) | expenses, payments, profiles, runs | create, correct, remove, pay, import, confirm an upload, adjust, run the payroll | stock, categories, suppliers | sums read outside the transaction, errors swallowed inside it, imports cut in the middle | paid what was owed, status agrees with payments, a purchase enters the stock once |
| identity (`auth`, `invitations`, `tenants`) | users, organisations, memberships, invitations, refresh tokens | register, set up, provision, invite, accept, remove, purge, log in, refresh | email | every check in another statement than its write, repairs in catches | no account without an organisation, who belongs can log in, a suspended member comes back only through an administrator |
| fiscal engine (`fiscal`) | books, events, alerts derived from invoices and expenses | project, backfill, calendar | invoices, expenses | projections that fail are retried by hand | derived data agrees with its source |
| guards, tenant isolation (`common`) | the tenant of the request (AsyncLocalStorage) | filter every query | every component | leaks of the context between requests | a handler sees its own organisation |
| assistant, fiscal knowledge, advisor, hybrid | conversations, embeddings, drafts | call language models and external services | everything, through tools | slow and unreliable services | not a state machine of this code |
| exchange rates, backup, dashboard, email, notifications, websocket, activity log, health | caches, files, rows nobody reads back | | | | |

The hazards found while reading, each at its line, are in `PROJECT.json`, with the properties
that would catch them going wrong; a note says where a hazard is real in today's code, or why
no property covers it.

## Modelling conventions

- **One step per awaited statement.** Prisma runs at PostgreSQL's default, READ
  COMMITTED, and no call of the repository asks for another level. So a transaction is
  one step only where its statements lock what they rely on or re-check it in their
  `WHERE` (`holdSeats`, `checkoutPublic`, `markOrderPaid`, a void); a transaction that
  reads without a lock and then writes (`allocateControlNumber`, `tryExtendExistingHold`, the
  reservation of `send`) is split like any other code.
- **A request** is an element of `Requests`; `req[r]` holds where it is (`pc`) and the
  values it read and has not used yet. The steps of a handler follow each other in the
  code's order, with its early returns. Two requests are the interleavings of two
  handlers, whichever process runs them.
- **Failure**: `Fail(r)` (or `Abort(d)`) ends a request between any two of its steps: the
  process dies, a statement throws, an upload fails. What was committed stays; what a
  transaction had done goes. The box office, the numbering, the credits, the payables and the
  floor orders (where `Operations` has `"failure"`) have it; `CashShift` and `Membership` do
  not: what a statement of theirs is refused is modelled, a crash between two is not.
- **Ghost variables** (`crossed`, `disturbed`, `removed`, `received`, `purged`, `admitted`)
  record what no table keeps and a property needs: whose requests overlapped, how often a
  purchase entered the stock. No guard reads them.
- **Data** is cut to what the code compares. Names, phones, mails, amounts in bolivars and prices
  are left out of the box office; a deadline is `"live"` or `"past"`; a pending order is `stale` or
  not; amounts of the credits and the payables are small integers of cents, and the tolerance of
  0.01 with which payments are compared is one of them (`Tolerance`): a sum exactly a cent short is
  compared in floating point, so either answer is possible there; an order or a sale has one
  product; a Z report is the set of the sales it sums.
- **Mutants**: some definitions are preceded by a variant with a plausible bug ("Mutant of
  ..."). They are not used by the specifications; each shows that a property of a run can
  fail.

## Modules

| module | models |
|---|---|
| `ConcertTicketing` | the box office |
| `BoxOffice` | abstract specification: holds, checkouts, payments and cancellations that take effect at once |
| `MCConcert` | its instances for TLC: one table with every seat, symmetry of ids |
| `ConcertTicketing_proofs` | its theorems |
| `FiscalNumbering` | consecutives and control numbers of one organisation |
| `InvoiceRegister` | abstract specification: documents registered one after the other |
| `MCFiscalNumbering` | its instances: all imports carry the same key |
| `FiscalNumbering_proofs` | its theorems |
| `CreditAccount` | abstract specification: a credit account whose operations are atomic |
| `CreditSales` | sales on credit, payments, voids, adjustments, marks, collection tasks |
| `MCCreditSales` | its instances |
| `CreditSales_proofs` | its theorems: types and ceilings, the refinement of `CreditAccount`, and for one request at a time, that balance, ledger, charges, payments and reversals agree |
| `Inventory` | the stock of the products and every writer of it |
| `FloorOrders` | the floor orders, composed with `Inventory`: a charge is a sale of it |
| `OrderLife` | abstract specification: an order whose operations are single steps, on itself, what is held for it and the shelf |
| `MCFloor`, `FloorOrders_proofs` | instances and theorems of both |
| `FloorStock_proofs` | the theorems about what stock, reservations and accounts add up to, with the lemmas about sums they rest on, and the refinement of `OrderLife` |
| `Payables` | expenses, their payments, imported purchases, payroll |
| `MCPayables`, `Payables_proofs` | its instance and its theorems |
| `CashShift` | shifts and Z reports, with the nightly job |
| `MCCashShift`, `CashShift_proofs` | its instance and its theorems |
| `Membership` | accounts, organisations, memberships, invitations |
| `MCMembership`, `Membership_proofs` | its instance and its theorems |

### ConcertTicketing

`seat`, `order` and `ticket` are the tables `concert_seats`, `concert_orders` and
`concert_tickets` (a ticket is found by its unique `seatId`); `issued` the hold tokens
generated; `admitted` a history of what the door answered.

`BoxOffice` is what the handlers promise: a hold takes seats on offer, an order takes a hold
whole, and is paid or cancelled whole. `SalesKept` is its `Spec` with the status, token and order
of each seat for `claim`, and the status of each order for `state`; deadlines and the age of
orders are left out, and an order is cancelled from the moment its seats are freed
(`Cancelling`), for `cancelOrder` and the sweep write its status afterwards.

| handler | actions |
|---|---|
| `getPublicEvent` | `BeginView`, refresh, `Answer` |
| refresh (`releaseExpiredHolds`, `releaseStalePendingOrders`) | `ReleaseExpiredHolds`, `FindStaleOrders`, then `SweepRelease`, `SweepCancel` for each order |
| `holdSeats`, with `tryExtendExistingHold` | `BeginHold`, refresh, `ExtendFind`, `ExtendUpdate`, or `Hold` |
| `extendHold` | `BeginExtend`, refresh, `ExtendFind`, `ExtendUpdate` |
| `checkoutPublic` | `BeginCheckout`, refresh, `CheckoutFind`, `CheckoutTx` |
| `confirmOrder` = `markOrderPaid` | `BeginConfirm`, `PayRead`, `PaySeats`, `PayTx` |
| `adminSell` | `BeginSell`, refresh, `Hold`, refresh, `CheckoutFind`, `CheckoutTx`, `PayRead`, `PaySeats`, `PayTx` |
| `cancelOrder` | `BeginCancel`, `CancelRead`, `CancelRelease`, `CancelSet` |
| `releaseMesaSeats` | `BeginMesa`, refresh, `MesaFind`, `MesaOrder` and `CancelRelease`, `CancelSet` for each order, `MesaRelease` |
| `scanTicket` | `BeginScan`, `ScanRead`, `ScanUpdate` |
| time | `HoldExpires`, `OrderAges` |

### FiscalNumbering

`next` is the row of `organization_invoice_sequences` (0 while there is none), `lock` the
transaction that holds it, `profile` the `nextControlSequence` of the fiscal profile.
A sale goes `ControlRead`, `ControlCreate` or `ControlWrite` (committed at once), then
`Bump`, or `BumpMisses`, `SeqMax`, `SeqCreate` on first use, then `Commit`; an import goes
`Lookup`, then the same allocation. A transaction that bumped the row keeps it locked, so
`next` changes when it commits. The unique keys of the schema are the guards of
`SeqCreate`, `ControlCreate` and `Commit`. `crossed` are the sales that read the control sequence
while another was between its read and its write.

`InvoiceRegister` is what the allocation calls atomic: a document takes the number after the last,
and a legacy key is used once. `RegisterKept` is its `Spec` with the consecutives of the committed
invoices for `number` and what the sequence row has given out for `last`: a commit is a
registration, and everything before it, or undone by a rollback, a stutter.

### CreditSales and CreditAccount

`credit` is `customer_credits`; `invoice` the credit invoices; the table
`credit_transactions` is kept as the sums its readers ask for: `charged`, `abonado` and
`reversed` of each invoice and the `ledger` of each customer (its charges minus its
payments). `task` is the collection task of each invoice.

| handler | actions |
|---|---|
| `create` with credit, `getOrCreateCredit`, `chargeForInvoice`, `tasks.create` | `BeginSale`, `SaleCheck`, `SaleOpen`, `InsertInvoice`, `ChargeRead`, `ChargeWrite`, `ChargeRow`, `CreateTask` |
| `voidInvoice`, `reverseChargeForVoid` | `BeginVoid`, `VoidCommit`, `ReverseRead`, `ReverseWrite`, `ReverseRow` |
| `registerPayment`, `tryCloseCollectionTaskForInvoice` | `BeginPayment`, `PayWrite`, `PayRow`, `CloseRead`, `CloseSum`, `CloseInvoice`, `CloseTask` |
| `updateLimit` | `BeginLimit`, `LimitWrite` |
| `adjustAmount` | `BeginAdjust`, `AdjustWrite` |
| `markAsPaidByClient` | `BeginMark`, `MarkWrite` |
| `tasks.updateStatus` | `SetTask` |

`CreateTask` may be refused: `tasks.create` throws when the seller has no ACTIVE membership, and the
guard lets platform administrators sell without one. The request then ends with an error, the sale
committed and charged, without a task.

`CreditAccount` is what the accounts promise: each operation at once, a charge within what
is available, a limit never under the balance. `AccountsKept` is `CreditAccount!Spec` with
`credit` for `credit`.

### Inventory and FloorOrders

`stock` and `reserved` are columns of `products`; `invoice` what a sale keeps of its lines;
`consumed` and `received` the sums of the movements; `order`, `account` and `paid` the tables
`floor_orders`, `floor_table_accounts` and `floor_table_payments`. `FloorOrders` extends
`Inventory`: both share the stock, the invoices and the requests, and `ChargeSale` of an order
is the transaction of a sale (`SellAs`) that releases its reservation.

A line of a sale is plain, a variant, a variant that takes nothing (`noDeduct`) or a combo; a line of
an import is of a product (`imported`), which takes its quantity, or of a bundle or a service
(`importedCombo`), which takes nothing and whose void gives its components back all the same.
`ImportedUnits` are the units of the standing imports.

| handler | actions |
|---|---|
| `invoices.create` (stock) | `BeginSale`, `SaleCommit` |
| `invoices.voidInvoice` (stock) | `BeginVoid`, `VoidCommit` |
| confirmed import of sales | `BeginImport`, `SaleCommit` |
| `createOutflow`, file of consumption | `BeginOutflow` or `BeginConsumptions`, `OutflowCommit` |
| `createAdjustment` | `BeginAdjust`, `AdjustCommit` |
| purchases (expenses with lines, uploads, imports) | `Receive` |
| product edit, catalogue file, stock file | `EditProduct`, `ImportCatalogue`, `ImportStock` |
| floor `create` | `TakeOrder`, or `BeginTable`, `OpenAccount`, `InsertOrder`; then `SendCreated`, `Reserve`, `ReserveWrite` when it also sends |
| `send` | `BeginSend`, `Reserve` (the second look at the stock), `ReserveWrite` |
| `updateStatus` | `BeginStatus`, `WriteStatus` |
| `cancel` | `BeginCancel`, `Cancel` |
| `charge` | `BeginCharge`, `ChargeSale`, `ChargeMark` |
| `recordTablePayment` | `BeginPayment`, `Pay` |
| `closeTableAccount` | `BeginClose`, `ClaimAccount`, `ClaimOrders`, `Unclaim` |
| `chargeCustomerOpenTab` | `BeginTab`, `ClaimTab` |

The claim of a table writes -1 to `chargedInvoiceId`, which references `invoices(id)`: the
database refuses it, so `ClaimOrders` always goes to the catch.

`OrderLife` is what the floor promises of an order: it is sent if the stock covers it beyond what
others hold, holds its units while it is in the kitchen, and is charged, by an invoice that bills
no other, or cancelled, once. `ServiceKept` is its `Spec` with `reserved` for `held`, `stock` for
`shelf`, and the orders for `slip`; an order counts as charged from its sale on (`Slip`), for
`charge` marks it afterwards. Where the code reads and writes in two statements, the abstract step is
the write; the other writers of the stock move the shelf and no order.

### Payables

| handler | actions |
|---|---|
| `expenses.create`, `invoice-upload.confirm`, `importPurchaseInvoice` | `Create`, `ConfirmUpload`, `ImportInvoice` |
| `update`, `remove` | `Update`, `Remove` |
| `registerPayment` | `BeginPayment`, `Pay` |
| `purchases-import` confirmed | `BeginImport`, `ImportGroup` for each purchase, `EndImport` |
| `listEmployees`, `updateProfile` | `ListEmployees`, `UpdateProfile` |
| `adjustProfile` | `BeginAdjust`, `Adjust` |
| `processPayroll` | `BeginPayroll`, `Payroll` |

`line` keeps of the payroll lines of an employee the last: what was paid, and the bonuses minus the
deductions in it (`extra`). `updateProfile` may write another salary at any time and leaves the
status, PAID included; `adjustProfile` puts the profile in REVIEW.

### CashShift

An instant is the set of the shifts stamped, or of the sales made, before it: all that the
`gte` and `lte` of the queries tell apart.

| handler | actions |
|---|---|
| `apertura` | `BeginOpen`, `Open` |
| `cerrar`, `calcularMontosTurno` | `BeginClose`, `Sum`, `Close` |
| `ejecutarCierresAutomaticos`, `cerrarAutomaticoFinDia` | `BeginAuto`, `Again`, `Sum`, `Close` |
| `marcarImpreso` | `MarkPrinted` |
| sales and voids, as the shifts see them | `Stamp`, `Commit`, `Void` |

### Membership

| handler | actions |
|---|---|
| `register` | `BeginRegister`, `CreateUser`, `FoundCheck`, `FoundCommit`, `Cleanup` |
| `setupOrganization` | `BeginSetup`, `FoundCheck`, `FoundCommit` |
| `tenants.create` | `CreateOrganization` |
| `provisionMember` | `BeginProvision`, then `ProvisionNew`, or `ProvisionRead` and `Reactivate`, `Activate`, `InsertMember`, `Raced`, `RacedUser` |
| `inviteMember` | `BeginInvite`, `Invite` |
| `acceptInvitation` | `BeginAccept`, `AcceptInsert`, `AcceptMark` |
| removal of a member | `BeginRemove`, `Suspend`, `Count`, `Deactivate` |
| `purgeInactiveUsers` | `BeginPurge`, `PurgeMembers`, `PurgeUser`, `EndPurge` |
| time | `Expire` |

## Runs

| run | bounds | specification | checks |
|---|---|---|---|
| `concert_races` | 1 seat, 2 tokens, 2 orders, 2 requests | `Spec` (any request may fail) | `TypeOK`, `SeatShape`, `SoldHasTicket`, `TicketOrderSettled`, `CancelledOwnsNothing`, `NoHoldStolen` |
| `concert_serial` | 2 seats, 2 tokens, 2 orders, 1 request | `FairSpec` | `SoldMatchesPaid`, `SingleAdmission`, `SalesKept`, `AbandonedHoldsEnd`, `StaleOrdersEnd` |
| `concert_resale` | 1 seat, 2 tokens, 2 orders, 1 request | `FairSpec` | `PaidSeatHasItsTicket`: **violated** |
| `numbering` | 3 sales, 2 imports with one key, no sequence row, with and without profile | `Spec` | `ConsecutivesDistinct`, `NoGaps`, `ControlsDistinct`, `RegisterKept` |
| `credit_races` | 1 customer, 2 invoices, 2 requests, total 1, limit 1, payments of unknown invoices | `Spec` | `TypeOK`, `BalanceUnderCeiling`, `TaskHasCharge` |
| `credit_serial` | 1 customer, 2 invoices, 1 request, total 2, first limit 2, then 1 or 3, CREDIT and MIXED | `FairSpec` | `BalanceCoversLedger`, `SalesAreCharged`, `AccountsKept` |
| `credit_invoice` | 1 invoice, 1 request, totals 1 and 2, every operation | `FairSpec` | `SettledMeansPaid`, `ReversedOnce`, `VoidsAreReversed` |
| `floor_races` | 1 product with 1 unit, 2 orders, 1 table, 2 accounts, 2 invoices, 2 requests, 1 movement; no adjustment, edit, void or import | `Spec`, requests may fail | `StockConserved`, `ChargedHasItsInvoice` |
| `floor_serial` | the same with 2 units, 1 request, one or two lines, plain, variant and combo, and every writer of the stock, imports included; no payment of a table | `Spec`, no failure | `AccountsSound`, `StockConserved`, `ReservationsMatch`, `ReservedCovered`, `ServiceKept` |
| `payables` | 2 expenses, 1 employee, 2 purchases of 3 in a file, other amounts 1, at most 3 paid for an expense, salaries 0 and 1, adjustments of 1 and -1, 2 requests, every operation | `Spec` (any request may fail) | `PurchaseReceivedOnce`, `PaymentsAgree`, `PaidIsOwed` |
| `cash_shift` | 2 cashiers, 2 shifts, 1 sale, 1 request and the job | `Spec` (with fairness) | `SaleInItsReport`, `ClosedStays`, `ShiftsEnd` |
| `membership` | 2 users, 2 organisations, 1 invitation, 2 requests, every operation | `Spec` | `NoOrphan`, `LoginMatchesMembership`, `RevivedByProvision` |

Why the bounds are enough. The handlers of the box office touch a seat independently of the others,
except for transactions over all the seats of a token or an order: one seat with two requests shows
every interleaving on a seat, two tokens and two orders its second life (held and sold again), and
two seats in the serial run what is done to a hold or an order as a whole. Three sales and two
imports give the sequence two waiters behind its lock, a first use raced by three, and the same key
twice. On a credit account two requests give each lost update; two invoices let one be paid or
voided while the other is owed; the limits 1, 2 and 3 with totals of 2 let a sale fit, not fit, fit
after the limit is raised, and the limit be refused because more is owed. On a product with one unit
two orders compete for it, and with two they fit or not; two requests give every race of a sale, a
reservation, a charge and a consumption. Two accounts let an order open a second one while the first
is being closed. Two purchases in a file let an import end between them; two expenses let one be
removed and imported again; a purchase of 3 may be paid a cent at a time and be PAID a cent short,
an expense of 1 be paid a cent beyond, twice. An employee may have nothing to be paid, be adjusted
or get another salary during a run, and be paid twice. In the floor runs an import and a payment of
a table are each left out of one: an import with two requests only sells again without looking at
reservations (the proofs of `StockConserved` and `ChargedHasItsInvoice` include it), and no serial
property reads the payments but through the guard of a close, which failing or not changes nothing
it does. Two shifts and one sale let a shift follow another of the same cashier, or of another, with
the sale begun in the first and committed in the second. Two users and two organisations let a
removal, a provisioning and an acceptance of one user meet while he belongs elsewhere, and a purge
run over both. Tokens, order ids and invoices are the bounds on how long a behaviour goes on
(`TokensLeft`, `OrdersLeft`, `Selling`; `Moves` units moved by hand, `PaidAtMost` for the payments
of an expense, `Extras` for bonuses minus deductions, the ids of orders, accounts, expenses, shifts
and sales); they stop a handler from beginning, never one that began. `CHECK_DEADLOCK FALSE` is used
where every id may be used up and every request have ended, with no operation left to begin:
`credit_races`, `floor_races`, `floor_serial`, `payables`, `membership`. It is also all that would
show a handler that waits for ever, and none does: a handler's steps have a branch for every state
of the rows (an import that finds no unused expense id, or a sale no unused invoice, waits only
because ids are bounded).

## What the checks show

Whatever two requests do, and wherever they are cut:
- the four columns of a seat, each handler writing some of them, keep to four shapes:
  free, held by a token with a deadline, owned by a pending order, sold (`SeatShape`);
- a seat that is SOLD has a ticket row (not always one of its buyer: see below) and a ticket's order
  was paid (`SoldHasTicket`, `TicketOrderSettled`), a cancelled order owns no seat
  (`CancelledOwnsNothing`), and a hold never takes a seat from another hold (`NoHoldStolen`);
- consecutives are distinct and without gaps, first use and rollbacks included: the sales and
  imports that commit do so as if each had been registered on its own, one after the other, a legacy
  key once (`RegisterKept`); a control number allocated while no other sale allocates is nobody
  else's, whatever sales that overlapped write late (`ControlsDistinct`);
- a balance is never negative and never over every limit ever granted, and a collection
  task has its charge;
- consumption, sales, reservations and charges lose and create no unit of stock, until a variant or
  an imported combo is voided (`StockConserved`), and a charged order has an invoice of its own, of
  its product and quantity (`ChargedHasItsInvoice`);
- an imported purchase enters the stock once (`PurchaseReceivedOnce`); an expense whose
  payments do not overlap, and that nobody corrected, is PAID when they cover it, and if it is PAID
  by payments they lack at most a cent (`PaymentsAgree`); the last pay of an employee shown as PAID
  has the bonuses and deductions of the profile, unless runs and adjustments cross, while salaries
  change at any time (`PaidIsOwed`);
- a sale made while its cashier's shift is open and nobody closes it is in that shift's Z
  report only (`SaleInItsReport`), whatever commits or is voided meanwhile; a closed shift
  stays as it is unless two closings of one cashier cross (`ClosedStays`), and the nightly job
  closes every shift (`ShiftsEnd`);
- no registration leaves an account without an organisation (`NoOrphan`), who belongs
  somewhere can log in and nobody else can, unless requests about the same user overlap
  (`LoginMatchesMembership`), and only an administrator's provisioning brings a suspended
  member back (`RevivedByProvision`).

With one request at a time that does not fail (by proof, even if it fails, for the credit accounts, the
stock, the sales of the counter and the door), what
the handlers promise on their own: every hold, checkout, payment and cancellation acts at once on
all the seats it is about (`SalesKept`), sold seats are the seats of paid orders, a ticket admits
once, the accounts behave as `CreditAccount`, the ledger never exceeds the balance, every sale
on credit is charged for what it was sold for, an invoice shown as paid is paid, a void is reversed,
once; `reservedStock` is what the orders in the kitchen hold (`ReservationsMatch`), the counter
sells nothing that is reserved, so that a reservation lacks at most what imports, consumption and
corrections took (`ReservedCovered`), an order is sent, prepared, charged and
cancelled as in `OrderLife` (`ServiceKept`), a table has one account and gets it back
when its closing fails (`AccountsSound`).

Where the code and its own words part (the run that expects a violation, and the finding):
`concert_resale`. A resold seat keeps the ticket of its first, cancelled order. Its second
buyer pays and gets no ticket, and the door refuses the one there is.

The serial properties are serial for a reason. With two requests TLC refutes `SingleAdmission` (two
doors read `checkedInAt` before either writes it), `SoldMatchesPaid` and `SalesKept` (the sweep
cancels an order paid since it was read; two checkouts of one token leave an order without seats; a
checkout takes seats that another hold got while the proof was being uploaded), `ReversedOnce` (two
voids at once), `SalesAreCharged` (the second check of the limit throws after the invoice is
committed), `AccountsKept`, `BalanceCoversLedger` (two requests read one balance, and the second
write hides a debt), `ReservationsMatch` and `ReservedCovered` (two sends reserve one order twice,
or both look before either increments and reserve more than there is), `ServiceKept` (`send` puts an
order cancelled meanwhile back in the kitchen; with one request, a process that dies between sale
and mark leaves a sold order there) and `AccountsSound` (an order opens another account while the
first is being closed). These are behaviours of the model of today's code, told here and not as
findings.

What the models show besides, of the code as it is:
- **Control numbers.** The number is read and written by two statements at READ COMMITTED, under a
  comment that calls it atomic ("atomico"): two sales that overlap can get one number, and the late
  write of one sets the sequence back. A sale that fails after taking its number loses it.
- **Collection tasks.** The void of a credit sale leaves its task open, and its customer is
  listed as overdue. A sale on credit by somebody without an ACTIVE membership (a platform
  administrator) is committed and charged, answers with an error and has no task, so its debt is never
  listed; no failure is needed for it.
- **Tables and open tabs can never be charged.** The sentinel -1 has no invoice to refer to
  (`chargedInvoiceId` has a foreign key), nor could two orders share it (it is unique). The
  catch undoes the claim; a crash in between, or an order that has opened another account of
  the table, leaves the account CLOSING for ever.
- **Orders charged twice.** Two tills that read an order before either marks it, or a crash
  between its sale and its mark, sell it twice; the order keeps one of the invoices.
- **Overselling.** Each line is compared with the same reading of the product: two lines of it,
  two rows of a file of consumption or two sales at once take more than there is. Consumption,
  adjustments, edits and imported sales may take what orders have reserved; the charge of such an
  order may then be refused.
- **Voids of variants** restore the quantity of the line, not what the sale took; imported
  combos take nothing and their void creates units of their components; two voids at once restore twice.
- **Adjustments** write the level computed from an earlier reading: a sale in between is lost.
- **Purchases.** Removing an imported one leaves its units, and its file can be imported again; an
  upload has no key: confirmed twice, it enters twice. An imported expense is PAID without payments,
  so it accepts payments and returns to PENDING. An expense that is paid accepts a cent more, as
  often as it is sent, for the tolerance is added to a remaining amount kept above zero; one that
  lacks a cent is PAID. Expenses are deleted, although the schema (line 1002) speaks of a soft
  delete.
- **Payroll.** A run pays profiles that are PAID already, and bonuses are never reset. A new salary
  after the run leaves the employee PAID, with the old one.
- **Z reports.** A sale stamped before the closing's instant and committed after its sum, or
  made between that instant and the closing's write, is in no report. The consumption of the
  whole organisation is in every cashier's report (left out of the model).
- **Memberships.** A suspended member can never accept an invitation: the insert violates the
  key. A removal that meets a provisioning of the same user can leave an active member who
  cannot log in. A purge the database refuses halfway leaves an account without memberships.
  A crash of `register` before its organisation leaves one too (not modelled). The removal also counts
  the memberships of `company_members`, which no handler inserts: the model has none.

Two more facts met on the way. A mark by the client sets the status of a voided invoice
back to PAID; it stays marked as deleted, which is what keeps `ReversedOnce`
(`voidInvoice` looks at both). And `adjustAmount` of a credit invoice touches neither the
account nor its rows, so the void of an adjusted invoice reverses less than was charged:
`BalanceCoversLedger` holds because both sides miss the same amount.

## Fairness

`FairSpec` of the box office and of the credits lets no request fail and gives `WF(Continue(r))`: a
handler that began is carried on, which the event loop and the database do while they are
up. No fairness is put on the arrival of requests, with one exception: the liveness of the
box office needs somebody to open the page (`SF(BeginView(r))`; strong, because the request
slot may be taken by others in between, as when the slots are few). The code frees holds
and stale orders only on such visits, and the property says exactly that. Time is not fair
in any run: a hold need never expire.

`Spec` of the shifts has its own: the cron job runs every night, so a step of the job that can
go on is taken (`WF(JobStep)`), and a shift that is there again and again on such nights is
taken up (`SF(BeginAuto)`: strong, because the job goes through the shifts one after the other
and a cashier may close and open meanwhile); a request that began ends. Nothing says that a
cashier ever closes: `ShiftsEnd` rests on the job alone, and on `ENABLE_AUTO_CIERRE_2350` being
on, as it is by default. `FloorOrders`, `Payables` and `Membership` state safety only.

## Proofs

All for every value of the constants, under the named assumptions of each module
(`ConcertAssumption`: tables are sets of seats and NULL is no id; `NumberingAssumption`: sales and
imports are disjoint, a sale has no key; `CreditAssumption`: totals are positive, limits are natural
numbers; `InventoryAssumption`, `FloorAssumption`: quantities, amounts and factors are positive,
opening stock, levels and bounds natural numbers, NULL is no id; `PayablesAssumption`: amounts are
positive, salaries and bounds natural numbers, a file is a sequence of keys; `CashShiftAssumption`:
the job is no request; `MembershipAssumption`: NULL is no id).

| theorem | states | strengthening |
|---|---|---|
| `ConcertTicketing_proofs!TypeCorrect` | `Spec => []TypeOK` | inductive as it is |
| `LinksHold` | `Spec => []Links` | only open orders own seats; requests act on orders that exist; between the release of an order and its cancellation it owns nothing. The third needs that an order never gets a seat after its creation |
| `CancelledOrdersOwnNothing` | `Spec => []CancelledOwnsNothing` | from `Links` |
| `SeatsKeepShape` | `Spec => []SeatShape` | with `RenewalsHaveToken`: a renewal by the NULL token would give a deadline to seats without a hold |
| `HoldsAreNotStolen` | `Spec => NoHoldStolen` | from `SeatShape`: an available seat has no token |
| `SalesAreTicketed` | `Spec => [](SoldHasTicket /\ TicketOrderSettled)` | with `Links`: a request about to cancel acts on an order that exists |
| `TicketsAdmitOnce` | if no two requests run at once, `Spec => []SingleAdmission`, failures included | `Scanned`: a ticket was admitted once if it is used and never if not, only a ticket is used, and whoever is about to mark one read it unused |
| `PanelAgreesWithPayments` | if no two requests run at once, `FairSpec => []SoldMatchesPaid` | `Matched`: a seat is sold exactly when its order is paid, which holds even if requests fail; it needs `Reads`, that seats and orders are still as the handler read them. `Seated`: an open order has seats unless it is being cancelled, which a crash in between would break |
| `SalesRefined` | if no two requests run at once, `FairSpec => SalesKept` | with `Seated`, `Whole`: the token of a held seat was issued, so a new one holds nothing yet, and a checkout has read the whole of its hold |
| `FiscalNumbering_proofs!TypeCorrect` | `Spec => []TypeOK` | part of the next row's invariant |
| `ConsecutivesSound`, `ConsecutivesComplete` | `Spec => []ConsecutivesDistinct`, `Spec => []NoGaps` | whoever is about to insert holds the row and its number; the row counts past every invoice and every number under it has its invoice |
| `ControlsSound` | `Spec => []ControlsDistinct` | `ControlInv`: the row is past every number given to a sale that did not overlap another, and so is what any sale between its read and its write has read; those numbers are distinct; a sale is alone between its read and its write, or crossed |
| `RegisterRefined` | `Spec => RegisterKept` | from `Inv`: whoever commits holds the row and the number after the last, and no step but a commit changes what the row says has been given |
| `CreditSales_proofs!TypeCorrect`, `BalancesUnderCeiling`, `TasksHaveCharges` | the three invariants of `credit_races` | what a request has read stays coverable: at the write of a charge, balance read + amount is covered by some limit granted; at the creation of a task its charge is recorded |
| `AccountsRefine` | if no two requests run at once, `Spec => AccountsKept`, failures between two statements included | at each write the value read is still the balance and the account is open, because no other request runs |
| `BalancesCoverLedgers`, `SalesCharged`, `SettledArePaid`, `ReversedAtMostOnce` | if there is one request and payments name invoices that exist, `FairSpec => []BalanceCoversLedger`, `SalesAreCharged`, `SettledMeansPaid`, `ReversedOnce` | `Books`: the balance covers the ledger and what the request still has to enter in it; every invoice but the one being sold has its charge (its task may have been refused); what is not voided has no reversal; and what the request goes by (`Going`) is still so when it writes |
| `FloorOrders_proofs!TypeCorrect` | `Spec => []TypeOK` | with what a request acts on: orders and accounts that exist |
| `ChargedOrdersInvoiced` | `Spec => []ChargedHasItsInvoice` | a request about to mark an order holds an invoice that is placed, of the order's product and quantity; no two requests hold the same one and no order has it yet |
| `FloorStock_proofs!UnitsConserved` | if no two requests run at once, or nobody adjusts or voids (the two operations of `floor_serial` that `floor_races` leaves out and that write what they read before), `Spec => []StockConserved`, for products of which no variant or imported combo was voided | invoices are finitely many, and an adjustment and a void still find the level and the invoice they read (`Settled`) |
| `AccountsKeptSound` | if there is one request, and it does not fail, `Spec => []AccountsSound` | `Accounted`: an account is CLOSING only while its request is between claim and compensation; with `Knows`, that accounts, orders and stock are as the request read them |
| `ReservationsAreHeld` | under the same assumptions, `Spec => []ReservationsMatch` | `Kept`: what is reserved of a product, with what a charge has released and not yet marked, is the sum over the orders of the kitchen |
| `CounterSparesReservations` | if no two requests run at once, `Spec => []ReservedCovered`, imports and failures included | `Covers`: the stock, with what was consumed, corrected and imported, covers the reservations of a product that no sale over the counter listed twice; an import moves units from one term to another, and `Settled` says what a void undoes |
| `ServiceRefined` | if no two requests run at once and none fails, `Spec => ServiceKept` | `Kept`, with `Knows`: the order, the product and the stock are as the request read them, so a check made two statements ago is the guard of the abstract step; `Portions`: an order asks some units of a product that exists |
| `Payables_proofs!TypeCorrect` | `Spec => []TypeOK` | requests carry amounts, a part of the file, or a payroll (`TaskRow`) |
| `PurchasesReceivedOnce` | `Spec => []PurchaseReceivedOnce` | keys are unique; a purchase was received as often as it was removed, plus one if it is there |
| `PaymentsAgreed` | `Spec => []PaymentsAgree` | `Books`: unless its expense was disturbed, what a payment in progress has read is what is there, so that its status answers for the sum it writes |
| `PaidWhatIsOwed` | `Spec => []PaidIsOwed` | `Wages`: unless disturbed, the bonuses and deductions in a run that has begun are still those of the profile |
| `CashShift_proofs!TypeCorrect` | `Spec => []TypeOK` | whoever closes acts on a shift that was opened |
| `SalesReported`, `ClosedShiftsStay` | `Spec => []SaleInItsReport`, `Spec => ClosedStays` | a cashier whose requests did not cross has one unclosed shift; whoever closes a shift knows the sales committed; reports hold sales of the shift's cashier and time |
| `Membership_proofs!TypeCorrect` | `Spec => []TypeOK` | organisations are never deleted; a membership is of an account that is there |
| `NoAccountOrphaned` | `Spec => []NoOrphan` | a request that created an account will give it a membership or delete it |
| `RevivedOnlyByProvision` | `Spec => RevivedByProvision` | from the types |
| `LoginsMatch` | `Spec => []LoginMatchesMembership` | a user whose requests never overlapped has one request; at each of its steps, `Due` says what is so of his account and memberships: they match, or the step to come makes them match |

The types of the numbering, the floor, the payables, the shifts and the memberships are proved and
no property of a run; the other proofs of these modules rest on them.

The inductive invariants speak of the locals of the requests (`Good`, `Linked`, `Holding`, `Links`,
`Due`, `Going`, `Knows`, `Reads`): an invariant of the tables alone is not inductive when a handler
writes what it read some steps ago. The proofs are laid out by action: lemmas say what a step that
only moves a request on, or sets one row, keeps, and the step of each action cites them.

Stock and reservations are compared with sums over the invoices and the orders there are. What a sum
does when an element enters, leaves or changes its weight is proved at the start of
`FloorStock_proofs`: the recursion that defines it has one solution on the subsets of a finite
set, by well-founded induction on strict inclusion (the library's induction theorems cannot be
applied, having an operator as parameter; that strict inclusion on the subsets of a finite set is
well founded, and that a well-founded relation has minimal elements, can).

The theorems of one request at a time assume exactly that (`OneAtATime`): the code does not
serialise requests, and TLC refutes each of those properties with two. They say that the handlers
are right on their own, so that what goes wrong is the overlap.

## Only model-checked

Liveness (`AbandonedHoldsEnd`, `StaleOrdersEnd`, `VoidsAreReversed`, `ShiftsEnd`):
fairness is out of the prover's reach. Every invariant, action property and refinement of the passing
runs has its theorem.

## Not modelled

The map covers about a tenth of the repository's lines of code; `PROJECT.json` says what is left out
of each component. Most of the rest is not a state machine that a checker could say more of than a
test:

- reads and reports (lists, dashboards, declarations, books, exports), and the projections of
  the fiscal engine, which derive rows from invoices and can be run again;
- parsing and layout: spreadsheets, PDF, images, templates of mails, the headers that the
  imports recognise, the column aliases of a catalogue;
- external services: language models, embeddings, mail, uploads, exchange rates, backups;
- plain rows with one statement per operation: suppliers, customers, categories, settings,
  notifications, activity log;
- guards, roles and the filter of the tenant: the modules have one organisation where the code
  filters by it, and what they check is what a handler does once it runs;
- scripts of seeding and migration, and configuration.

Within the modelled components are left out: creation and rebuilding of the concert's layout,
prices and mails; taxes, payment lines and their correction, and the several lines of
different products of an invoice; reads of the credits; tasks that collect nothing; the parts
of an import before its preview is confirmed; log-in, passwords and refresh tokens; expiry of
an organisation's subscription; a crash of a request in `Membership` or of a closing in
`CashShift`. Raising the share further would take modelling these line by line, with nothing
to check that their text does not say already.

## Plan

What a next step would take, in order:

1. Refresh tokens: the rotation as a chain with one live end, two tabs that refresh at once.
2. The stored preview of a sales import, its confirmation and its retry, over
   `FiscalNumbering` and `Inventory`.
3. A crash between two statements in `Membership` and `CashShift`, with what it leaves.

## How to run

Each row of `runs` in `PROJECT.json` is `tlc -config <cfg> <module>`; each `_proofs`
module is `tlapm <module>.tla`. The longest runs (`floor_serial`, `floor_races`) take about three
minutes, the longest proof some minutes.
