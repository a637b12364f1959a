# Stillhouse: a verification project

Stillhouse is the record system of a craft distillery that holds a Canadian spirits licence: a Go backend over
PostgreSQL that keeps every litre of absolute alcohol (LAA) between the still and the bottle, computes the monthly
excise return (form B266), and tells other systems about it. These TLA+ modules model the parts of
`src/backend/internal` where the correctness of those figures depends on more than one step: the arithmetic of the
bulk ledger, the transactions that run it concurrently, the bottles, stamps and duty of packaged spirits, the filing
of a return against a ledger that keeps moving, the calendars that say when one is due, the sweep that raises alerts,
the sales that leave over the till and by shipment, the counting of the shelves, and the delivery of webhooks through
crashes. TLC checks them on small instances; TLAPS proves the main results for every value of the constants.

File names below are relative to `src/backend/internal`.

## 1. Inventory

How a request runs: every RPC is a handler in `rpc/` that validates its message, opens one READ COMMITTED
transaction through `tenantdb.WithTenantTx` (`tenantdb/tenantdb.go:31`), and commits or rolls back as a whole.
Tenants are separated by row-level security, so one tenant's data is the whole world of a transaction. The
installation is one process on one host; two processes overlap only while one is being replaced. Handlers
communicate through the database alone. Background loops in the same process are the webhook worker, the alert
runner and the reminders.

| Component | State | Operations | Interacts through | What is hard | What makes it correct |
|---|---|---|---|---|---|
| **Bulk container ledger** (`rpc/bulk.go`, `barrel.go`, `adjustment.go`, `adopt.go`, `bulk_external.go`, `redistillation.go`, `bulk_ownership.go`, `distillation.go`, `marked.go`, `bottling.go`) | `bulk_containers`: litres, strength, LAA, possession; `bulk_movements`: the journal; barrel events, gauges, runs, marks | adopt, gauge, receive, ship, redistil, bottle, mark, fill, dump, blend, regauge, count, hand over, take back, four voids | row locks, then absolute balances written back | strength, litres and LAA are stored separately and different handlers trust different ones; voids undo what later steps built on | journal and balances agree; strength and LAA agree; nothing moves while away |
| **Row locking** (`rpc/container_lock.go`, `db/queries/bulk.sql`) | rows locked by each transaction | `lockContainers`, `lockContainerForWrite`, `assertHeld` | PostgreSQL's lock manager | lost updates, lock order, a check that goes stale before the write | a locked read is current; concurrency adds no behaviour; every call ends |
| **Period lock and B266 filing** (`rpc/period_lock.go`, `b266.go`, `b266_projection.go`, `db/queries/b266.sql`) | `b266_periods`: status and frozen snapshot | check a date, generate a draft, submit, reopen | reads the journal the ledger writes; unlocked | several statements under READ COMMITTED; a late entry; a void dated now of something dated then | returns share no day; a filed return's lines stand; periods open with what the last one closed with |
| **Webhook outbox and worker** (`webhook/worker.go`, `deliver.go`, `db/migrations/000062_webhooks.up.sql`, `rpc/webhook.go`, `webhook_emit.go`) | `webhook_deliveries`: status, attempts, next attempt; `webhook_endpoints`; the worker's batch | enqueue, claim, POST, record, enable, disable, delete | `SubmitB266` enqueues in its own transaction; the worker polls | crash between claim and record, swallowed record errors, late results, two workers | no false delivery, attempts bounded, settled stays settled, every delivery settled in the end |
| **Packaged inventory, stamps, removals** (`rpc/bottling.go`, `removal_core.go`, `packaged_return.go`, `excise_stamp.go`, `stamp_disposition.go`, `lab.go`, `dutypoint.go`) | lots, bottles on hand, stamp orders and serials, removals and their duty | package, remove, return, void, unpackage, reconcile | takes from the bulk ledger; period lock | duty point changed between run and removal; serials of concurrent and voided runs; eight handlers moving three counters; lock order against containers | every bottle dutied once; counters agree with the documents; no serial on two runs |
| **Alert sweep** (`alerting/runner.go`, `alerting/alerting.go`, `db/queries/alerts.sql`, `rpc/alert.go`) | `alerts`: open, acknowledged, notified, resolved, last seen | evaluate every rule, upsert, resolve stale, mail, mark, acknowledge | the runner's ticker and an operator's RPC run the same sweep | overlapping sweeps; rules that read different moments; a crash between mail and mark; some recipients failing | what is shown is what a sweep saw; notified implies somebody was told; a condition that holds is shown and mailed in the end |
| **Filing calendars, provincial reports** (`filing/filing.go`, `provincial/`, `rpc/provincial.go`, `alerting/alerting.go`) | the elected calendar; `provincial_report_periods`: due and filed | period of a day, due date, generate, mark filed | the filing rules of the sweep | fiscal months that end on the 25th or 28th, half years, leap days; generating again with another definition | periods tile; past reports stand; what is due or late is announced |
| **Till** (`rpc/pos.go`, `db/queries/pos.sql`) | `pos_sales`: pending, posted, rejected, ignored; SKU map | ingest, post, ignore, map | a sale becomes a removal of the oldest lot | at-least-once delivery; a lot read before it is locked; two postings at once; a batch that fails half-way | one sale is removed once; what is not posted is explained; every sale is decided |
| **Sales and shipping** (`rpc/sales.go`, `sales_hydrate.go`, `removal_core.go`) | orders, lines with shipped totals, shipments, picks | add and remove lines, confirm, cancel, open, pick, unpick, ship | a shipment becomes removals | lines, shipments, picks and cancellations are written on a status read unlocked | what ships is what is removed; bottles are not promised twice; order lines and status follow |
| **Stock counts** (`rpc/stockcount.go`) | sheets with the book at opening, counted lines, adjustments | open, count, post, cancel | writes the packaged ledger | the book moves between opening, count and posting; counts land while a sheet is posted; two sheets at once | posting leaves the book right but for what left since the count; every change of it has a document |
| **Document numbers** (`db/queries/sequences.sql`) | the highest number of each kind | take the next | advisory lock | one kind is numbered without it | numbers are unique and gap-free |
| **Sessions, credentials, roles** (`server/session_revocation.go`, `rpc/session.go`, `mfa.go`, `invite.go`, `ratelimit.go`) | sessions, one-time codes, invites, counters | sign in, revoke, verify, accept | cookies and rows | revocation against a request in flight; a code used twice | a code is used once; a revoked session starts nothing |
| **Invoicing and customers** (`rpc/invoicing.go`) | invoices, payments, credit notes | raise, pay, credit | reads shipments | a shipment invoiced twice | one invoice per shipment |
| **Purchasing, receiving, materials** | material lots | order, receive, consume | bulk ledger | concurrent consumption | lots conserved |
| **Upstream production, work orders, scheduling** | mashes, ferments, runs, orders | status changes | few | stale status | statuses only move along their graph |
| **Maturation clock** (`rpc/barrel_maturation.go`) | fill date | fill, dump, void | ledger events | a void leaves the date | age claims match the spirit in the wood |
| **Rates, units, calculators, costing, forecasts, reports, import/export, audit, MCP** | none, or append-only | pure functions and reads | - | rounding | agree with their reference |
| **Start-up, migrations, web client, deployment** | - | wiring | - | - | - |

`PROJECT.json` lists every component with its source files and status, and every hazard with the line where it
bites and the properties that watch it.

## 2. Plan

Modules in order of importance. Done:

1. `BulkBooks`: the abstract specification of the bulk ledger, one whole operation per step.
2. `BulkLedger`: the same operations as concurrent transactions, refining 1; `BulkLedger_proofs` about both.
3. `WebhookOutbox`; its theorems are in `Background_proofs`.
4. `B266Filing`: the bulk section of the return; its theorems are in `Returns_proofs`.
5. `Packaging` and `Packaging_proofs`: lots, bottles, stamps and the duty point.
6. `AlertBoard`, the promise of the alert sweep, and `AlertSweep`, which refines it; `Background_proofs` about both loops.
7. `ReportingCalendar` (pure functions) and `Reporting` over it; its theorems are in `Returns_proofs`.
8. `Till`, `Till_proofs`, `Shipping`, `Shipping_proofs`: the two ways bottles leave in quantity.
9. `StockCount` and `StockCount_proofs`.
   `Sums` holds what the proofs about totals and about recursive functions share.

Left, in this order:

10. `LockOrder`: containers, lots, stamp orders, the sequence lock, in the order each handler takes them. The
    question is which pairs of handlers can deadlock (`VoidBottlingRun` takes stamps, lot, container;
    `CreateBottlingRun` container, sequence, stamps, lot; a till batch lot, sequence, next lot).
11. Sessions and one-time codes: revocation against a request in flight, a code used once.
12. `B266Filing` extended with the packaged half and `continuity`'s list of backdated entries.
13. Document numbers, invoicing (a shipment invoiced once), the maturation clock.

Theorems to come: for the books, the return and the till, which of the assumptions that make up `Careful` each theorem
needs, as `Packaging`, `StockCount` and `Shipping` have it, where `Careful` is a set of named rules.

## 3. Modules and the code

### BulkBooks: one operation at a time

`bal[c]` is a container's row. Beside litres (`vol`) and LAA (`laa`) it carries `imp`, the LAA that its recorded
strength implies, which stands for `current_abv_pct`: the code stores all three, `applyDeposit` (`rpc/bulk.go:766`)
weighs by strength and never reads the LAA, `applyWithdrawal` (`rpc/bulk.go:725`) derives the strength from what is
left, and blends and voids carry it over. Two integer columns with no division capture exactly that. `net[c]` sums the
journal (`bulk_movements`) per container, `held[c]` is possession, `events` is what can be voided.

Each action is a handler with every write it makes; its guards are the handler's refusals and the table's CHECKs.
Requests carry the measurements of the message. Where the code multiplies a strength by litres, the action is
enabled when the product is a whole number of units (`AtStrength`): values in between differ only by rounding.

`Careful` chooses between two audiences. `Disciplined(r, b)` lists what no handler refuses but an operator must
avoid for the books to balance; each conjunct is an observation about the code:

| Operation | Not refused by the code | What happens |
|---|---|---|
| fill, dump | source and destination the same (`barrel.go:303`) | the later write stands; alcohol appears or vanishes |
| fill, ship, redistil | a draw to the bottom gauged at less than the record | `applyWithdrawal` zeroes the row (`bulk.go:730`); the difference is on no movement |
| blend | one tank named twice (`bulk.go:386`) | debited once, credited twice |
| regauge | alcohol lost without litres (`barrel.go:775`) | not journalled |
| count | more alcohol in fewer litres (`adjustment.go:133`) | journalled with the wrong sign |
| mark | gauged off the recorded strength | strength and LAA part |
| void of a fill, dump, gauge | the vessel's strength has changed since | strength and LAA part, and the next deposit recomputes from strength |

With `Careful = FALSE` everything the code accepts is allowed, and TLC finds each of these in a few steps.

### BulkLedger: transactions

`BulkLedger` EXTENDS `BulkBooks` with transactions `t`: `req[t]` (the request, voids with the event as read before
any lock), `locked[t]` (rows held FOR UPDATE), `copy[t]` (what was read in them). `LockRow` is one
`GetBulkContainerForUpdate`, in id order for handlers that go through `lockContainers`, destination first for
`VoidBarrelEvent`; `RefuseAway` is `assertHeld`. Uncommitted writes are invisible, so `Commit(t)` is `BulkBooks`'
action applied to `copy[t]`, which is where a stale read would show. `Rollback` is any error; `DeadlockVictim` is
PostgreSQL's detector. *Books* (`Books == BooksSpec`) is the refinement: the state the two modules share is
the mapping.

### B266Filing: the return

`entries` is the journal with the dates on it, `status` and `filed` the row of each period, `call[c]` what a request
has read so far. A request takes a step per statement that matters: check the date (`RecordEntry`, `BeginVoid`) and
write (`CommitEntry`, `CommitVoid`); look for overlaps (`GenerateB266`) and insert (`UpsertB266PeriodDraft`); sum by
reason (`SubmitB266`), walk the balance back (`GatherClosing`), freeze (`SubmitB266Period`). Other requests commit in
between. `RecordEntry` stands for any handler that records a movement on a date the message gives; a gauge carries
its run's date as well, because `VoidDistillationRun` checks that one (`distillation.go:620`). Corrections are dated
now. `Receipts` and `Withdrawals` name one or two reasons of each column of the walk (`b266_projection.go:312-321`);
the others are summed in the same way. Days are months and the bulk of the house one tank: which vessel holds it
makes no difference to any line.

`Careful` operators draft and file while nobody else is at work, gauge in the month of the run, void in the month of
the entry while it is open, and void no bottling run.

### Packaging: bottles, stamps and duty

`orders` are the stamp orders with their three counters, `runs` the bottling runs with the serials each used,
`lots` the rows of packaged inventory, `docs` every document that moves bottles (removals, returns, unpackagings,
adjustments of a count, adoptions), `dutyPoint` the tenant's basis. Serials are numbered from the first of their roll.
A handler on a lot locks the lot's row or updates it in place, so it is one step. `CreateBottlingRun` locks only the
tank: `PlanBottlingRun` is what it reads (stamps left, oldest order first; the serials, from the counter as read),
`CommitBottlingRun` the duty, the run, the counters and the lot; others act in between (`bottling[c]`).
`bottling_runs` is unique on the lot code (`000008_bottling_stamps.up.sql:105`), voided runs included, so a lot has
one run at most (`Unbottled`); every lot of the model has a code of its own. A lot that exists before its run was
adopted by the importer. A second receipt of an order overwrites the first, its serials included, and without a first
serial on record a run has a count and no serials (`Unnumbered`).
A held lot stands for a lot that is held or not yet released where release is required.

No handler refuses the opposite of what `Careful` may hold: one run in hand to a roll ("one bottler"), the newest run of a
roll voided first ("newest first"), a second receipt with the serials of the first ("same serials"), no dutied run into an
adopted lot ("apart"), and a dutied run voided before any of its bottles is removed, with none removed afterwards
("settled"). The counters need none of these, the serials the first three, the duty the last two. `Live` are the runs that
stand: what a voided run printed is on bottles all the same, which `SerialsClaimedOnce` counts in and `SerialsDistinct`
does not.

### WebhookOutbox: delivery

`row` is `webhook_deliveries` (`due` is `next_attempt_at <= NOW()`), `batch[w]` and `post[w]` the worker's local
state between `webhook_claim_due` and `webhook_record_result`. `received`, `waited` and `lost` are history: what an
endpoint has taken in, the seconds of backoff scheduled, the results never recorded. `Crash` is a death or a
shutdown at any point; `LoseRecord` is a record call that fails and is swallowed (`worker.go:122`). Two workers run
during a replacement.

### AlertBoard and AlertSweep: what is shown

`AlertBoard` is the promise of `RunTenant` (`alerting/runner.go`): a sweep starts, looks at each condition at a moment
of its own, and shows what it saw; if another sweep put up something meanwhile it may leave that standing, but takes
nothing off that it saw itself. `AlertSweep` is the code: `Begin` fixes `NOW()`, `EvaluateRule` is one rule,
`Reconcile` the upserts, `ResolveStaleAlerts` and COMMIT, `ListPending`, `Mail` and `Mark` are `notify`, `Fail` any
error, deadlock or death at any stage. `last_seen_at < NOW()` is kept as the order it establishes: `stale[p]` are the
open alerts last seen before sweep p began, `later[p]` the sweeps begun after it, so that `StaleAfter` can tell what a
commit does to the comparison another sweep will make. `pending` and `mailing` remember the row they read, which may
have been resolved, and its subject opened again, before it is marked. `ShowsWhatItSaw` is `Board!Spec` under the
mapping shown |-> open alerts, running |-> sweeps that evaluate, looked |-> rules read, saw |-> found.

### ReportingCalendar and Reporting: when a return is due

`ReportingCalendar` has the functions of `filing/filing.go` and `provincial`: fiscal month ends, the period of a day,
due dates, the periods ending in a range; days are pairs of month and day. `IsPeriod` and `FirstMonthEndFrom` in the
properties count days instead. `Reporting` steps through the year a day at a time (`NextDay`); `FilingAlerts` is
`evaluateFiling` and `ProvincialAlerts` `evaluateProvincialFilings`, which are among the conditions `AlertSweep`
leaves open; `GenerateProvincialPeriods` upserts what the definition gives for the range, each row remembering the
calendar it is of (`by`, which is history).

### Till: sales at the counter

A batch is a transaction that takes its sales one by one: `Choose` reads the mapping and the oldest lot without a
lock, `RecordRemoval` locks the lot and the removal numbers and checks again, `Commit` makes it all visible, `RollBack`
none of it. `OnHand(c, l)` is what that transaction sees. `IngestPOSSales` either leaves the sales pending, or starts a
batch with those it inserted itself, which nobody else sees until it commits (`fresh`). `Careful` operators post from
one screen at a time and ignore only what is not posted or being posted.

### Shipping: from order to removal

`ShipShipment` is one step: it locks its shipment, its lots, and for the removal numbers every other shipment out. Everything
else that depends on an order or a shipment reads it unlocked and writes later, and is two steps: adding a line
(`AskToAddLine`, `AddSalesOrderLine`), confirming, cancelling, opening a shipment (the wait for its number lies between),
picking and unpicking; removing a line, too, but its row is locked from the start. `task[c]` is what a clerk has read;
`Refuse` is any failure in between. A pick is a `shipment_lines` row, `lines[k]` the running total of bottles shipped.

`Careful` holds rules no handler enforces: a shipment is not shipped while somebody picks on it ("unattended"); no order is
cancelled with a shipment open or being opened, nor the other way about ("none open"); a pick for an order names a line of
it ("names line": the web client names none, and what goes by such picks is counted on no order); a line that is picked
stays ("leave picked"); other removals leave promised bottles alone ("leave promised"); nothing of an order goes while a
line is being added to it ("lines first").

### StockCount: the sheet and the shelf

`book` is the row's bottles on hand, `shelf` what stands there, which no program knows: it makes "the book is right" a
statement. A request is two steps: `AskToCount` reads the line and its sheet, `RecordCount` writes the count, asking again only
whether the line is posted; `BeginPosting` locks the sheet and reads its lines, `PostStockCount` settles those it has read.
`Delta` is taken against the book under the lot's lock, as `RecordPackagedAdjustment` does, and the balance is set to the
count. A line's `gone` (history) counts the bottles that have left the shelf since it was counted, removed or lost; losses
have no document. `Careful` may hold: no sheet is opened while a count waits to be posted ("one sheet"), nobody counts on a
sheet that is being posted ("hands off"). Removals go on all the while.

## 4. Runs

| Run | Question | Bounds and why they are enough |
|---|---|---|
| `books` | Do disciplined operators keep the books balanced, whatever they do in which order? | A barrel and two tanks: a fill or dump needs two, a blend three. A litre and a unit of LAA per 2 % of strength, so a gauge inside the tolerance (1) and outside both occur. 24 requests cover every operation, up to two recorded events so that a void can follow another event. |
| `ledger` | Do two transactions ever compute from a stale balance or a stale possession, do they leave what one at a time would, and does every call end? Operators need not be careful. | Two transactions make every pairwise race; three vessels with a barrel's id between two tanks' make the sorted and the void's order differ, and three transfers cross between them. 72 000 states. |
| `filing` | Do returns tile, do filed lines and balances stand, do periods connect? | Two callers, two months, the periods 1, 2 and 1-2 so that neighbours and overlaps both occur; three entries: one each side of a boundary and a correction. 960 000 states. |
| `outbox` | One worker, as installed: nothing false shown, attempts, waits, settlement, progress. | Two endpoints, one of them with a secret that cannot be opened; three attempts give a first, a middle and a last retry; two faults (a crash and a lost result, or two of one). The theorems say what holds of two workers. |
| `packaging` | Are a lot's and an order's counters what the documents add up to, and, under the five rules, are serials printed once and bottles dutied once? | Two lots, for two runs: one code has one run. A roll of three or four stamps, numbered or not, that may be received again, so that the second run comes up against its end or goes on from a longer one; a loss of two; three documents of one bottle: a removal, what brings the bottle back, and what takes it out again. One run in hand. 1.86 million states. Two callers and any operators: `AnyPackers.cfg`; two rolls: `Serials.cfg`. |
| `alerts` | Do overlapping sweeps show what they saw, mail it once, and agree with the books in the end? | Two rules, one of them worth a mail, so that a sweep is between them when the books turn; the runner and one operator; one failed sweep or lost mark. 233 040 states. |
| `reporting` | Are periods and due dates those of the calendar, do provincial periods tile however generated, and is what is due or late announced? | Every day of eight months of a leap year on calendar months and on months ending the 25th, monthly and half-yearly, and four months of two licensees who change what a province is owed, one on months ending the 28th. Two outstanding returns. Ranges of generation that overlap and cut a month. 55 279 states. |
| `late_return_forgotten` (violation) | Is a late return shown until it is filed? | The same licensees. |
| `till` | Is each sale removed once and shown as posted exactly then, whatever is redelivered, rolled back and begun again by one screen at a time? | Three sales of two SKUs, one of a filed period; two lots, the older too small for the larger sale; two transactions at a time; three removals and one rollback. 87 280 states. |
| `rejected_never_posted` (violation) | Is a rejected sale posted once it can be? | Two sales, one transaction. |
| `shipping` | Do shipments, removals, promises, order lines and the order's status agree, under the six rules? | One order of two lines that come and go, two shipments of up to two picks over one lot of two bottles, so that both picks want the last one; two clerks, so that one's write falls between the other's read and write; three removals. 1.71 million states. |
| `counts` | Does posting a sheet leave the book right, with every change documented? | A lot of three bottles and one that is gone and on no sheet, removals at any time, two losses; two clerks, so that a count and a posting overlap; three sheets. 1.93 million states. |

Deadlock is not checked where the system may stop: in `books` (a cautious operator in a model with a bounded number of
events has nothing left to ask), `outbox` (nothing is left to send when every endpoint is deleted), `reporting` and
`late_return_forgotten` (the year ends), and `counts` (nothing left in stock and the sheets done with). It is checked
in all others.

Bounds: `MaxLitres`, `MaxLaa`, `MaxEvents` (an action whose result exceeds them is not taken), `MaxEntries`,
`LastMonth`, `MaxRuns`, `MaxDocs`, `MaxFaults`, `MaxUnfiled`, the last day of each licensee, `MaxRemovals`,
`MaxSheets`, `MaxLosses`. No other counter is bounded: attempts are bounded by what is being checked.

The properties, by module:

- **BulkBooks** `JournalAgrees` the balance is what the journal says; `StrengthAgrees` the
  columns do not contradict each other, so that the next deposit starts from the alcohol that is there;
  `AwayStandsStill` nothing about a container changes while it is away.
- **BulkLedger** `LockedReadIsCurrent` what was read under a lock still holds at the write; `SortedLocksQueue` a
  deadlock needs a void of a barrel event; `Books` refinement; `EveryCallEnds`.
- **B266Filing** `NoSharedDays`; `FiledLinesStand` a filed return's lines are what the journal gives now;
  `BooksContinuous` each period opens with what the one before closed with, adoptions aside; `ClosedBalancesStand`
  once every month to a period's end is filed its balances do not move.
- **Packaging** `LotsAgree` on hand, packaged and removed are what runs and documents that stand say; `StampsAgree`
  the applied counter is what the runs that stand used; `SerialsDistinct` no serial on two of them, none outside its
  roll; `DutiedOnce` a bottle that leaves is dutied by its removal or by a run of its lot that stands, never both or neither.
- **WebhookOutbox** `BudgetKept`, `WaitsGrow`, `NoFalseDelivery`, `NothingGivenUpEarly`, `EventuallySettled`.
  `SettledStays` is proved for one worker (`LoneWorkerSettles`) and is no part of the run: it follows from claiming what is pending.
- **AlertSweep** `ShowsWhatItSaw` refinement of the board; `NotifiedWasMailed` a mark means somebody was told;
  `MailedOnce` once per sweeper and lost mark; `EventuallyAgrees` what holds for good is shown for good and what has
  gone is cleared; `EventuallyMailed`.
- **Reporting** `ExcisePeriods` the code's arithmetic against month ends counted day by day; `ProvincialPeriodsTile`;
  `PastReportsStand` generating again restates no recorded deadline and unfiles nothing; `ReturnsAnnounced`.
- **Till** `SoldOnce`; `TakingsExplained` posted exactly when removed; `StockAgrees` no bottle sold that was not
  there; `EventuallyDecided`.
- **Shipping** `ShippedIsRemoved` one removal per pick that went, and none else; `NotPromisedTwice` what is picked of a
  lot is on hand; `OrderCountsAgree`; `ShippedOwesNothing` and `CancelledHasNotShipped`: an order's
  status means what it says.
- **StockCount** `CountSettles` posting shows no bottle fewer than stand there, and more only by what left since that count;
  `BookExplained`.

Every property of a passing run has a mutant in `PROJECT.json`: an operator in the module that changes one mapped
definition the way a bug would (an unsorted lock, a lock not released, a boundary off by a day, a status not
tested), under which the run fails.

### Counterexample configurations

These are beside the runs, each to be run as `tlc -config X.cfg M`. All but three leave a rule out, or state what the
repository says of the code, and TLC finds the property violated; `AnyPackers`, `Serials` and `Drafts` pass.

| Configuration | Module | Leaves out | Property | What TLC finds |
|---|---|---|---|---|
| `TillTwoScreens` | MCTill | `Careful` | `SoldOnce` | one screen has posted a sale and not committed, the second lists it as pending: two removals |
| `DraftsTogether` | MCB266Filing | `Careful` | `NoSharedDays` | two requests draft 1-1 and 1-2, neither sees the other's |
| `Drafts` | MCB266Filing | `Careful` | `SharedOnlyInARace` | holds: no month is on more returns than there are requests at a time |
| `AnyPackers` | MCPackaging | all rules | `LotsAgree`, `StampsAgree` | hold, with two bottling runs in hand |
| `Serials` | MCPackaging | - | `SerialsDistinct` | holds, over two rolls |
| `StampsStay` | MCPackaging | - | `StampsStayApplied` | received, bottled, voided: the counter is back to zero, the run has used two |
| `SerialsAgain` | MCPackaging | - | `SerialsClaimedOnce` | bottled, voided, bottled for another lot: the same serials |
| `TwoBottlers` | MCPackaging | one bottler | `SerialsDistinct` | two runs read one roll and both print from its start |
| `VoidOlder` | MCPackaging | newest first | `SerialsDistinct` | of two runs the older is voided: the third prints the second's |
| `DutiedTwice` | MCPackaging | apart | `DutiedOnce` | a dutied run goes into a lot adopted meanwhile: its bottles are dutied again when they leave |
| `DutiedNever` | MCPackaging | settled | `DutiedOnce` | a dutied run is voided, a count finds one of its bottles, it leaves: no duty |
| `CountShipped` | MCStockCount | - | `NoneBookedBack` | one bottle of three goes, two are counted, another goes, posting books two |
| `CountAgain` | MCStockCount | hands off | `PostedAsCounted` | a line is counted again while its sheet is posted: the line says what no adjustment was made of |
| `PickedForNone` | MCShipping | names line | `CancelledHasNotShipped` | an order is picked without its line, ships, and is cancelled |
| `CancelledOpen` | MCShipping | none open | `CancelledHasNotShipped` | a shipment is opened while its order is being cancelled, and goes |
| `LineTooLate` | MCShipping | lines first | `ShippedOwesNothing` | while a line is being added all the others ship: the order is shipped and owes it |

## 5. Fairness

*Ledger.* A handler that has its rows ends (`WF` of commit or rollback): it makes no further wait. Row locks are
granted in the order they are asked for, so a waiter whose row becomes free again and again gets it (`SF` of
locking); PostgreSQL queues lockers of a row. A deadlock is detected after `deadlock_timeout` (`WF` of
`DeadlockVictim`). Nothing makes clients call.

*Alerts.* The ticker fires and a sweep goes on by itself (`WF` of the runner's step); a mail tried again and again gets
through some time (`SF`, per subject). Operators' calls, the books and who listens have none. Faults are finite.

*Till.* A transaction goes on by itself (`WF`), and an operator who finds sales pending again and again posts them all
in the end (`SF`: a posting waits for another's to end).

*Outbox.* While the process runs its loop attempts, and records or loses the result of, each claim it holds; the
HTTP client has a 15 s timeout (`safeurl.go`), so each POST is answered; the clock runs. Claims are ordered by
`next_attempt_at`, so a row that is due again and again is claimed (`SF`). Crashes, operators and events have no
fairness; faults are finite in the model because every crash costs an attempt without being one of the budget.

Nothing is assumed in the other modules.

## 6. Proofs

Eight modules hold theorems, checked by TLAPS to the last leaf.

**Sums.** A total (`SumFunctionOnSet`) is a fold, and a fold is a recursive function over sets. Its one step is proved
from the function's definition (`SumStep`, by induction over the subsets of the set, stated for a set of subsets and not
for an operator), and from it that a total does not depend on the order (`SumTake`), that equal functions have equal
totals (`SumSame`), and what adding, taking away or changing one element does (`SumGrown`, `SumShrunk`, `SumChange`).
The modules' totals are all over functions on a set of indices, so that these are the facts they need.

**BulkLedger_proofs, the books.** `BooksTyped`: no balance goes negative, under no assumption about operators. `BooksBalance`
(`Careful`) proves `JournalAgrees` and `StrengthsHold` proves `StrengthAgrees`. Neither is inductive alone: a deposit
is journalled at the measured LAA but computed from the strength, so the journal agrees only if the strength does;
and a withdrawal that empties a vessel keeps the strength only if no alcohol stands in no litres. The invariant is
the conjunction of all three with what is recorded about events, and each action has one step in which the algebra
of `Deposit`, `Withdraw` and `DrawKeepingStrength` is cited as lemmas. `AwayUntouched` proves `AwayStandsStill` for all
operators: a request works on the vessels it names, and all but the two possession changes refuse one that is away.

**BulkLedger_proofs, the transactions.** `LedgerTyped`; `NoLostUpdate` and `PossessionStands`, from the invariant that at most one
transaction holds a row, which is what the lock gives and the code never states; `LedgerImplementsBooks`, the
refinement: a commit is a `BooksNext` step because the copies it reads are the balances, every other step
stutters. `LedgerBalances` then follows from `BooksBalance` with no further induction. `SortedHandlersQueue`: in a
set of transactions that all wait for each other and lock in id order, the one waiting for the greatest id would
wait for a greater one still; the least-element argument over naturals is `LargestId`.

**Returns_proofs, the return.** `SharingIsBounded`: `SharedOnlyInARace` for all operators. A check lets a
period through only if none on file shares a month with it, so that those of a month, on file or about to be, are then
at most one in the hands of each other caller, and this one (`FewShare`): there are never more of them than callers.
`FiledReturnsStand`: `FiledLinesStand` for `Careful` operators; the invariant `Standing` adds that what is about to be written lies in an
open month (`Unlocked`) and what has been gathered is still what the journal gives (`Fresh`). `BooksContinue`
and `ClosedBalancesKept` (`Careful`) are about totals over the whole journal: a month's balance goes on from the one before
plus its own lines, as long as what the lines leave out cancels (`NothingStrays`: a gauge and its correction are of one
month), and an entry that is written later than a closed month is taken back when its balance is walked
(`ClosingStands`).

**Packaging_proofs.** `PackagingTyped` for all operators. `SerialsPrintedOnce` (one bottler, newest first, same serials): the
invariant `Printed` adds that the runs that stand print below the applied counter (`Below`), a run in hand starts at it
(`Fresh`) and one caller at most is on a roll (`Alone`); the void of the newest run is what keeps `Below` when the counter
goes down, and the first serial has to stay for any of it to mean something. `EveryBottleDutiedOnce` (apart, settled):
`OneBasis` adds that a lot's run is a run of that lot (`Opened`), which with the
unique code means that a run that is committed finds its lot new or adopted, and that every run and removal of a
lot says the same of its duty, voided or not. `StampsAddUp` and `CountersAddUp`, for all operators: what a run or a
document adds to a counter it adds to the total of those that stand, and what a void takes off it takes off both. What
one document more or one struck, one run more or one voided does to the totals is proved once (`FiledMore`,
`FiledLess`, `BottledMore`, `BottledLess`) and cited by every handler.

**Background_proofs, the outbox.** `OutboxTyped`; `DeliveredWasReceived` and `GivenUpLate` for any number of workers, from
what the answer in a worker's hand says about its endpoint; `LoneWorkerKeepsBudget` and `LoneWorkerSettles` for one,
from the invariant that what is in hand is pending (and the attempts of a pending row are those recorded, those lost
and the one in hand). `LoneWorkerBacksOff` proves `WaitsGrow`: what a delivery has waited is less than a third of its next
wait (`WaitedLittle`). That the waits are a function at all, and each four times the one before, is proved from the
definition of `Wait` by counting up (`CountingUp`, in `Sums`).

**Background_proofs, the alerts.** `SweepShowsWhatItSaw`: every step of the sweep is a step of `AlertBoard` or leaves it alone. The
invariant `Kept` adds that a sweep nobody crossed has every open alert in its `stale` (`SweepsApart`), so that it
resolves exactly what it did not find, and that what is to be mailed is of the open row unless marked otherwise
(`ListedStands`). `MarkedWasMailed` follows with `MarkedByMailer`: what is about to be marked has been mailed.
`AlertsMailedOnce` counts: while an alert is not marked, each of its mails is a lost mark or a sweep about to mark it;
once it is, only the sweeps that had listed it before can mail it again (`Within`).

**Returns_proofs, the reports.** `PastStands` and `OneRowOfAPeriod`, from the invariant that rows are well formed and no
two stand for the same days (`Rows`). `PeriodsAsElected`, `ReportsAreOfPeriods` and `DeadlinesAreAnnounced` are about
what the calendar computes, for every date, clock (1 to 28, or the calendar month) and cadence (1, 3, 6 or 12 months).
A clock has one month end in each month, `MonthEnd(c, m)`; the recursive functions are shown to exist and to step along
these (`Stepwise`, `MonthAfterMonth`, `PeriodStart`, `PeriodEndsEnd`), the first aligned one from a day on to be less
than n months away (`PeriodEndFound`), and two aligned ones to be n months apart (`EndsApart`), so that a day lies in
exactly one period (`PeriodOfADay`). `CountedDayByDay` sets the code's next month end against the days counted out. The
invariant, `Scheduled`, says that outstanding returns are of elected periods that are over, and rows of periods of the
calendar they name: what is due later than today is then of the last period that ended, which is the one
`evaluateFiling` looks at (`NotYetDueIsLast`).

**StockCount_proofs.** `StockCountTyped` for all operators. `PostingSettles` (one sheet, hands off): the invariant adds that a
count, on its line or on its way to it, is what stands there and what is gone since, that the book is never below the
shelf, that a count is never above what its sheet took down, and that what a posting has read is still what its lines
say; the last is what a count during the posting would break, the one before what an older sheet posted after a newer
would. `BooksAreExplained`, for all operators: posting replaces the book by a count, and the adjustment it records is the
difference.

**Till_proofs.** `EachSaleRemovedOnce`, `TakingsAreExplained` and `TillStockAgrees` (`Careful`), from one invariant,
`Kept`. A batch has seen nothing of what others did since it read, so what it is about to do must still be true when it
commits: the sales in its hand are pending, or are rows of its own that nobody has seen (`Claims`); no two batches have
a sale in common, and none removes a sale twice (`Apart`, `Orderly`); and what it has taken of a lot is still in the
lot, because it holds the lot's lock (`Covered`). Then `Commit` makes each of its sales posted with one removal, and
takes of each lot what its new removals add up to.

**Shipping_proofs.** `ShipmentsAreRemoved`, `PromisesAreOnHand`, `OrderLinesCount` and `CancelledOrdersStayBack` (`Disciplined`:
all rules but "lines first"), from one invariant, `Kept`: they need each other. That an order of which nothing is counted has
nothing on a truck, which is what cancelling rests on, needs the counts, that a shipment that went had picks
(`NoneEmpty`), and that its picks name lines of its order (`PicksStand`); the counts need the removals, which tell what
went from what did not; and what a clerk read must still hold when he writes (`TasksStand`, `TasksApart`), which nothing
but the rules gives. The numbers of a shipment's removals are the ranks of its picks, a bijection (`Ranks`).
`ShippedOrdersOweNothing` needs "lines first" alone: its invariant, `Owing`, adds that nobody is adding a line to an order
that is shown as shipped.

Assumptions are those named in the modules (`ContainersAssumption`, `RequestsAssumption`, `TxAssumption`,
`FilingAssumption`, `PackagingAssumption`, `OutboxAssumption`, `SweepAssumption`,
`ReportingAssumption`, `StockCountAssumption`, `TillAssumption`, `ShippingAssumption`, ...), which TLC evaluates on every run.

Only model-checked: liveness (`EveryCallEnds`, `EventuallySettled`, `EventuallyAgrees`, `EventuallyMailed`,
`EventuallyDecided`) is outside what the prover handles; and `NoSharedDays`, which rests on drafting alone, is the run's
(the theorem is `SharingIsBounded`). Every other invariant and action property of a passing run is a theorem.

## 7. What the code does against what it says

Recorded as findings, each with a run:

- `late_return_forgotten`: `evaluateFiling` (`alerting/alerting.go:372`) looks at the last period that has ended, so
  the alert of a late monthly return closes by itself on the day after its due date, which is when it becomes late (in the run
  a period that ends on 25 January is announced until 25 February, its due date, and not on the 26th);
- `rejected_never_posted`: a rejected sale (`pos.go:200`, "then post again") is never posted again: `pos.sql:44` lists
  the pending ones and nothing sets one back.

Reproduced by a configuration of section 4, with what the repository says:

- *stamps of a voided run*: `VoidBottlingRun` gives them back ("1) Reverse each stamp allocation", `bottling.go:527`), and
  `StampsAgree` is what it does; `stamp_dispositions.sql:28` says "the stamps were applied to bottles, and voiding the run
  does not un-apply them" and so does `rpc/stamp_disposition.go:193` (`StampsStay`). The next run is then numbered from
  the lower counter and prints serials the reconciliation still counts as the voided run's: "Two claims on one serial is the
  kind of thing a manual serial entry produces" (`stamps/reconcile_test.go:75`); it takes one operator and no entry
  (`SerialsAgain`), and two runs that stand share serials after two runs at once (`bottling.go:151`, `TwoBottlers`) or
  the void of the older (`bottling.sql:124`, `VoidOlder`);
- *duty*: "no litre is dutied twice or dutied never" (`removal_core.go:144`): the test is the run's own duty amount,
  voided or not, while the return sums the runs that stand, and an adopted lot has no run to ask (`DutiedTwice`,
  `DutiedNever`);
- *drafts*: "B266 periods must not share days" (`b266.go:75`); the check and the insert are two statements
  (`DraftsTogether`);
- *the till*: "a retry that created a second removal would report duty twice" (`pos.go:36`): redelivery does not, two
  postings at once do, because `pos.sql:44` lists without a lock and `pos.sql:46` asks for no status (`TillTwoScreens`);
  a posted sale can also be ignored, and keeps its removal;
- *counts*: a count "that took a morning while somebody else was shipping would otherwise measure the shipping"
  (`000058_stock_counts.up.sql:11`): posted against the book of the moment it does (`stockcount.go:377`, `CountShipped`); a
  line is posted "when this line's variance has been written into the ledger" (`:66`), and may say another count by
  then (`CountAgain`);
- *orders*: "Cancelling an order that has already put stock on a truck would say the shipment never happened"
  (`sales.go:279`): the counts are read unlocked and miss what names no line (`CancelledOpen`, `PickedForNone`); an order
  becomes shipped "according to what is still owed on its lines" (`sales_hydrate.go:45`), and a line may follow
  (`LineTooLate`).

Reached by leaving other conditions out, in the modules named:

- *BulkBooks*: a blend that names a tank twice (`bulk.go:386`) creates alcohol; a void after the strength has changed
  (`barrel.go:938`) parts strength and LAA;
- *B266Filing*: an entry checked before and written after a submission is in a filed month (`period_lock.go:27`); a
  voided bottling run stays on the bulk line (`b266.sql:83`);
- *Packaging*: a second receipt with other serials leaves runs outside the roll;
- *Shipping*: a line added or removed while its shipment ships leaves picks and removals apart; a line removed while
  picked is never counted;
- *StockCount*: a sheet posted after a newer one undoes it.

Seen while modelling, without a run of their own:

- a drain that is gauged short (`bulk.go:730`), a fill of a barrel from itself, a proof-only regauge, a count with
  opposed signs: the `Disciplined` conjuncts; taking any of them out makes the `books` run fail;
- the waits of five attempts sum to 2550 s, a comment speaks of a little over an hour (`deliver.go`);
- a void of a barrel event locks the destination and then the source (`barrel.go:923`) where `bulk.sql:33` asks for
  one order: it and a fill of the same pair can each hold the row the other needs. `SortedLocksQueue` has the void as
  its exception, `EveryCallEnds` the deadlock detector as its remedy;
- a claim's row locks end with its statement, so a second worker sends what the first is sending at the same moment,
  which the migration's comment (`000062_webhooks.up.sql:129`) rules out;
- stamps lost or spoiled have serials, but the next run's are counted from the applied ones alone;
- a return is checked against the bottles removed (`packaged_return.go:86`), which unsaleable returns do not reduce and
  unpackaging raises; returned bottles carry duty again when they leave again, as they did before;
- `unpackageToBulk` takes bottles from a lot that is on hold;
- with two workers a late failure reopens a row already given up, and it is attempted again;
- the void of a gauge in a later month than the gauge leaves the gauge's month short of it and the correction on no
  line, so the two periods no longer connect; an entry in an open month before a filed one moves the filed one's
  opening and closing balances (the lock looks only at the entry's own date);
- `VoidBarrelEvent` checks no period at all; `SetBulkContainerArchived` does not check that the container is empty
  although `b266.sql:221` relies on it; a fill that is voided leaves the barrel's fill date;
- a return is overdue on its due date (`now.After(due)`, the due date being that day's midnight);
- sweeps that overlap: an alert that the older one put up may be resolved by the younger one, which looked before the
  condition came true, and come back anew, mailed again, where `alerts.sql:20` calls the comparison precise; they may
  deadlock, too;
- a restart between mail and mark mails again (`runner.go:121` says it does not), and a recipient whose mail failed is
  never told once another was reached;
- changing a provincial definition leaves the old periods, and days are then covered twice;
- `OldestPackagedLotForProduct` does not pass over a lot that is on hold or too small: the sale is rejected;
- a batch at the till, and a shipment, take a lot, the number lock and the next lot, and can deadlock with another;
- a count that agrees with the sheet is settled as agreed although bottles left, and as many were found, in between;
  a till sale not yet posted counts as missing;
- voiding a removal leaves its shipment and order as they were; a shipped order can be set back to draft by hand;
- a shipment can be invoiced more than once.

## 8. Not modelled

Rounding and floating-point comparison (amounts are whole units; tolerances of 1e-9 are zero). Capacity changes,
archiving, names, notes, owners of spirits, audit rows: they change no balance. Blends of more than two sources and
bottling from more than one. The bulk side of `unpackageToBulk`. In the return: the packaged half, duty
lines, the acknowledgement, and the list of backdated entries. In packaging: the reconciliation report, kegs and
marked containers, periods, batch release apart from the hold. In the outbox: registration, signing, payloads and
address checks, and attempts begun again by an operator (there is no such RPC). In alerts: what each rule computes,
but for the two filing rules. In provincial reporting: the figures and the export. At the till and in sales: prices,
addresses, dates, customers. In stock counts: lines for vessels (not posted by the code) and for materials.

The share of the repository's lines that the modules stand for is small, because most of its lines are not of this
kind: generated protocol and query code, floating-point calculators and tables (out of reach of TLC's integers), reports
that write nothing, handlers that copy a message into a row and back, and the web client. The components
marked not modelled in `PROJECT.json` are so for the reasons given there; section 2 says which come next.
