# OptiReach ERP: TLA+ models, model checking and proofs

This directory models the server of OptiReach ERP (`src/backend/app`): a FastAPI
application whose services turn requests into database transactions on
PostgreSQL. Every module is a translation of service code; `PROJECT.json` maps
each definition to the lines it stands for, lists the runs, the mutants each
property was tried against, the hazards the properties are for, and the theorems.

Contents: [the system](#the-system) · [inventory](#inventory) ·
[modules](#modules) · [runs](#runs) · [proofs](#proofs) ·
[what the code does otherwise than it says](#what-the-code-does-otherwise-than-it-says) ·
[not modelled](#not-modelled) · [plan](#plan) · [how to run](#how-to-run)

## The system

The server keeps all its state in one database. A request is handled by one
coroutine with one SQLAlchemy session, which reads rows, checks them in Python,
changes attributes and commits; a nightly scheduler (`core/scheduler.py`) runs
three jobs the same way. Five facts shape every model here:

- transactions run at READ COMMITTED (`core/database.py` sets nothing else), so
  two reads of one transaction may see different commits;
- an UPDATE writes the absolute value Python computed, and only for columns that
  changed, so a value read before another request committed overwrites that commit;
- a row the session already holds is not refreshed by selecting it again
  (`expire_on_commit=False`, no `populate_existing`), not even by `SELECT ... FOR
  UPDATE`; a rollback on the other hand expires everything, and reading an expired
  attribute outside an `await` raises;
- only bins and the rows of tree masters are read with `SELECT ... FOR UPDATE`
  (`services/stock_common.py`, `services/tree.py`); counters of document names are
  advanced with one atomic upsert (`core/naming.py`), whose row stays locked to the
  end of the transaction; nothing else is locked, and no row carries a version;
- some operations are several transactions (create then submit an invoice, draft
  then post then count a stock entry), and the process may die between them.

A document has a `docstatus`: draft, submitted, cancelled. Submitting posts to the
ledgers and moves counters of other documents; cancelling posts mirror entries and
moves the counters back. Nearly all correctness of the system is of one kind: a
counter kept in a column (a bin, an outstanding amount, a delivered quantity, a
produced quantity, a billing cursor) must keep telling what the submitted documents
say, through every order of submit, cancel, return and retry.

## Inventory

| component | state it keeps | operations | what is hard | what makes it correct |
| --- | --- | --- | --- | --- |
| stock ledger, bins (`stock_ledger.py`, `stock_common.py`) | quantity, value, moving-average rate per bin; insert-only ledger | post rows, post counts, mirror a voucher | concurrent valuation, lock order, rounding, cancelling after consumption | bin = sum of its entries; no negative stock; an empty bin is worth nothing; every request ends |
| stock entries, counts (`stock_entry.py`, `stock_reconciliation.py`) | docstatus, rows | submit, cancel | two posting calls in one voucher; a rate read before the lock | as above |
| serial numbers (`stock_serials.py`) | status and place of a number | post, cancel | numbers are never locked; two vouchers share one | as many numbers in a place as its bin has units |
| invoices, returns (`sales_invoice.py`, `purchase_invoice.py`) | docstatus, `outstanding_amount` | create, submit, cancel | the balance is moved by seven handlers and decides what may be cancelled | the balance is what payments and returns leave; ledger and balance agree |
| payments (`payment_entry.py`, `payment_reconciliation.py`) | references, `unallocated_amount` | create, submit, cancel, reconcile | stale balances, over-allocation | nothing is settled twice |
| orders, deliveries, receipts (`sales_order.py`, `purchase_order.py`, `delivery_note.py`, `purchase_receipt.py`, `cycle_links.py`) | `delivered_qty`, `received_qty`, `billed_amt`, `billed_qty`, status; reserved and ordered quantity of the bin | create, submit, cancel, return | drafts validated long before they are submitted; clamps at zero; cancelled returns | counters are what the documents add up to, within what was ordered |
| work orders (`work_order.py`) | produced, transferred, consumed and staged quantities, status | submit, cancel, stop, resume, finish, consume, transfer, roll back | three transactions per entry; crash between; undo in any order | counters tell the entries; nothing is produced beyond the allowance; a cancelled order has posted nothing |
| subscriptions and billing job (`subscription.py`, `jobs/subscription.py`) | status, cursor | create, bill on demand, cancel, nightly sweep | crash between cursor and submit; one failure in a batch; two actors | every due period billed exactly once |
| bank reconciliation (`bank_reconciliation_tool.py`) | voucher of a line, clearance date of a voucher | import, match, unmatch, make a voucher | a match is kept twice; four transactions | line and voucher name each other |
| general ledger, journal entries, period closing, budgets (`gl.py`, `journal_entry.py`, `period_closing.py`, `budget.py`) | entries, freeze date, closings, budget | post, mirror, close | frozen-period and budget checks on values read earlier | nothing is posted into a closed period; closed accounts are empty; budgets hold |
| masters: trees, chart of accounts (`tree.py`, `accounts_masters.py`) and the statements rolled up along it | parent and materialised path | create, rename, move, delete | paths rewritten from rows read before the lock | paths tell places; totals are all accounts |
| fixed assets and depreciation job (`asset.py`, `jobs/assets.py`) | schedule rows, status, book value | depreciate, reverse, dispose, revalue | as subscriptions, plus reversal | book value = cost less posted rows = ledger |
| material requests, production plans, job cards, subcontracting | ordered, made, reported, sent and received quantities | request, order, plan, start, complete, send, receive | counters moved by other documents; several transactions | nothing is ordered twice; counters are what hangs on them |
| bills of materials (`bom.py`) | default, active flag, stored cost | submit, activate, cancel, refresh | the lookup answers differently after any of them | one bill in use; no circle |
| delivery promises (`bom_explosion.py`, `open_supply.py`, `lead_time.py`, `delivery_estimate.py`, `order_fulfillment.py`, `pegging.py`) | none: pure computation | estimate forward, schedule backward | supply counted by several lines | a promise covers stock, supply and work |
| contribution margins (`cm_planning/*`) | plans, scenarios, cost structure, settings; the gate of quotations and orders | seed, patch, recompute, apply, submit | stored estimates that should follow their inputs | recomputation reaches everything; nothing submitted below the least margin |
| income tax (`taxation/*`) | worksheets, runs, losses, credits, returns | compute, submit, cancel, set off, file | recomputation must give back what it took | losses add up; runs repeat; returns are chained |
| taxes and totals (`taxes_and_totals.py`) | none: pure computation | | rounding, inclusive rates, discounts | totals are exact and vouchers balance |
| pricing, coupons, promotions, blanket orders, share management, opening invoices, dunning, payment requests, GST and TDS returns, e-documents, naming, permissions, workflow, registry, reports, printing, notifications, frontend | see [not modelled](#not-modelled) | | | |

How they interact. Deliveries, receipts, stock entries and invoices that update
stock call the stock ledger inside their own transaction. Every submit and cancel
calls the general ledger the same way. Payments and reconciliations read and write
the outstanding amount of invoices; deliveries and invoices read and write the
counters of orders; work orders drive stock entries through their public submit and
are called back when an entry is cancelled; production plans create work orders and
material requests, these are ordered against; subscriptions drive the invoice service.
All of it is direct calls on one session; the only concurrency is between requests
(and the nightly jobs), and the only shared state is the database.

## Modules

| module | models | state |
| --- | --- | --- |
| `StockLedger` | `stock_ledger.py` with its callers for stock entries, counts and deliveries | bins, ledger sums and entries, docstatus, row locks, open requests |
| `Serials` | `stock_serials.py` under receipts, deliveries, returns, transfers, issues | numbers, bins, vouchers, locks, open requests |
| `OpenItems` | abstract: what settling a party's account promises | stage of invoices and payments, who settles what |
| `Settlement` | invoices, payments, reconciliation; implements `OpenItems` | docstatus, outstanding and unallocated amounts, references, party ledger, open requests |
| `TradeCycle` | orders, movements, bills and the links between them | docstatus, counters, status, reservation, the lock of the bin, open requests |
| `WorkOrder` | one work order and the stock entries it drives | counters, status, entries, open requests, history of orphaned entries |
| `Banking` | lines of a bank statement and their vouchers | both sides of a match, the request that makes a voucher |
| `Subscription` | recurring billing | day, status and cursor, invoices per period, sweeps and requests |
| `GeneralLedger` | journal entries, closings, a budget | entries, postings, closings, freeze date, counter row, open requests |
| `Trees`, `Chart` | tree masters; the chart of accounts and the statements along it | parents and paths, open requests |
| `Assets` (with `AssetSchedule`) | assets, their schedule, the nightly sweep | asset, rows, journals, posters |
| `Requests`, `ProductionPlan`, `JobCards`, `Subcontract` | the documents around production | their counters and status, open requests |
| `Boms` | bills of materials and which one is in use | bills, defaults, costs |
| `Planning` | composes the four documents around production and `Boms`: what all of them promise | |
| `Masters` | composes `Trees` and `Chart`: what both of them promise | |
| `Margins` | contribution-margin plans and the gate of quotations and orders | plans, settings, cost structure, documents |
| `TaxWorksheet` | income-tax worksheets, losses, returns | sheets, remaining losses, credits, returns |
| `Decimals`, `Totals`, `TaxKernel`, `TaxYear`, `CostDrivers`, `LeadTime` | pure computations, as operators | none |
| `SumLemmas` | laws of sums over finite sets, for the proofs | none |
| `*_proofs` | theorems; those of `Serials` are in `StockLedger_proofs`, those of `Banking` in `Settlement_proofs`, of `Margins` in `TradeCycle_proofs`, of `TaxWorksheet` in `Assets_proofs`, of `Masters` in `GeneralLedger_proofs`, of `WorkOrder` and `Planning` in `Planning_proofs` | |
| `MC*` | small instances for TLC; `MCTrade`, `MCGeneralLedger`, `MCDocuments` put several modules side by side, one behaviour for each; `MCGeneralLedger` takes the computations as an instance of `MCCalculations`, `MCSubcontract` is a job whose material does not divide | |

`StockLedger` is the part of `stock_ledger.py` the other modules rely on: in
`TradeCycle` and `WorkOrder` a posting is one step that succeeds or is refused,
which is what `StockLedger` shows of it. `Settlement` takes the totals of invoices as
constants where `TradeCycle` takes quantities: the two halves of an invoice touch
different columns. `CostDrivers` has the arithmetic `Margins` takes as given,
`TaxKernel` that of `TaxWorksheet`.

### StockLedger

A request submits or cancels one stock voucher. `BeginSubmit` and `BeginCancel`
are the handler up to its first lock: the docstatus check, the default rate of a
count (`PricedCalls`), the selection of the entries to mirror (`Originals`).
`LockBin` is one `get_bin_for_update`; the requests of a call are made in the
order of the bins. `PostRow` is one iteration of a posting loop, `Reject` its
ValidationError, `Commit` the end of the handler: bins, ledger entries,
inventory account and docstatus appear together. `Crash` and `DeadlockVictim`
roll the transaction back.

Amounts are integers in units of the last digit of `Numeric(21, 6)`: a stored
value is exact, a stored rate is a rounded quotient (`RoundDiv`). An incoming row
carries its worth rather than a rate, so that no digit of a transfer is lost
in the model that the code keeps.

### Serials

One serialised item. A request locks all bins of its voucher, then reads its
numbers without a lock, checks status and place of each and writes both. Cancelling
calls the inverse transition, which puts a number where the voucher says, or leaves
it where it was last when no warehouse is passed. The quantity of a return is
checked per warehouse (`_validate_return_qty`), which is an assumption on the
vouchers; that every delivery ships from one warehouse is one of the instance, and
`serials_split` shows what happens without it.

### Settlement and OpenItems

A handler loads the rows it decides on, validates, posts the ledger with several
awaits, and writes the columns it changed. It is therefore a Check step and a Write
step with the loaded rows in between (`work`). With one worker the two steps
follow each other; the race run has two. Invoices and returns, sales and purchase, are
one set: `Gross` is `base_payable_total` (negative for a return), `Withheld` the tax
collected on top of a sale or kept from a purchase, `Receives` says which side.

`OpenItems` has no stored balances: what is left of an invoice is what the matches
leave. `ImplementsBooks` is refinement: read through its reference rows, every step of
`Settlement` is a step the books allow. That is stronger than the invariants, because
an illegal cancellation that leaves the balances consistent would also break it.

### TradeCycle

The selling and the buying cycle track each other through the same functions
(`cycle_links.py`), so one model stands for both: an order is a sales or a purchase
order, a movement a delivery note or a receipt, a bill an invoice of either side; the
bin counter is `reserved_qty` or `ordered_qty`. A document is validated at creation
(`CreateMove`, `CreateBill`) and again at submit; the write follows under the lock of
the bin for orders and movements, without a lock for bills. `Signed` quantities make a
return or a credit note a document like the others; cancelling one adds what it had
taken, without validation. The quantity of a credit note is compared with the order
and the movement, never with the bill it credits.

### WorkOrder

Finish, consume and transfer each take three transactions, so each is `Begin*` (the
draft is committed), `PostEntry` or `RefuseEntry` (submit), and `Advance` (the
counters, from the values loaded at the start). `DieBetween` ends a request between any
two. `SubmitByHand` is the stock entry's own submit route, which posts a leftover draft
without telling the order. `orphans` is a history variable: entries posted that way
or by a request that died before `Advance`. The properties that such an entry breaks
state it in their premise.

### Banking

For a line without a voucher the tool drafts, submits and clears one in three
transactions and marks the line in a fourth; `making` is that request, and it may be
cut short between any two. Matching, unmatching, deleting a line and cancelling a
voucher from its own screen are one transaction each.

### Subscription

A day is a number, a cadence a number of days, `EndDay` exclusive as in the code.
`Invoice` is the first transaction (invoice and cursor together), `Post` the second
(submit), `Refuse` and `RefusePost` the exceptions with the rollback. A sweep loads
all due rows once (`BeginSweep`), takes them by cursor (`Pick`), and works on the
loaded rows (`copy`), because the session never refreshes them. `Blocked` subscriptions
stand for every reason an invoice cannot be created, `Unpostable` days for every
reason it cannot be submitted.

### GeneralLedger

The ledger is insert-only, so it is known from how often an entry was posted and
mirrored (`postings`) and what each closing moved (`closed`). `CheckSubmit`,
`CheckCancel` and `BeginClosing` read what a handler decides on, `CommitSubmit`,
`CommitCancel` and `CommitClosing` write. A closing takes its name from a counter row
(`NameClosing`), which a second closing cannot take before the first ends, and compares
the freeze date after that: the only lock here, and not meant as one. `desk[w].late`
and `disturbed` are history: what has committed since a request looked, and what was
written by a request that had been overtaken.

### Trees and Chart

A node of a tree, and an account, keeps the slugs from the root down to itself; a
rename or move rewrites the path of everything below. Requests read and check first and
lock (trees) or write (chart) later, so `Begin` and `Commit` are steps of their own,
and two editors overlap. `Chart` also has the roll-up of the trial balance, the balance
sheet and the profit and loss along the paths. The flag `is_group` is left out.

### Assets

`BeginSweep` loads every asset with a due row, `Take` and `PostRow` post row after
row, each in a transaction of its own, from the copies loaded; `RefuseRow` is the
exception that ends the sweep. A clerk posts, reverses, revalues and disposes
meanwhile, and the journal screen may mirror an entry the asset owns. `crossed` is the
history of assets changed while somebody posted them from an older copy, `frozenUpto` the freeze date.
`AssetSchedule` has the amounts of the rows. Opening depreciation and moving an asset
between locations are left out.

### The documents around production

`Requests`: material requests, the purchase orders against their rows, and the reorder
suggestion; the ordered quantity of a row is read and written without a lock, what
keeps two orders apart is the bin they lock first. `ProductionPlan`: edit, explode,
submit, cancel, and creating work orders in two transactions per row, from the plan as
it was loaded. `JobCards`: start, complete, cancel, as read and commit, so that two
operators overlap. `Subcontract`: send and receive, three transactions each, with
crashes, and the roll-back of their entries. Its numbers count the sixth decimal, the
smallest step a quantity column keeps: `MaterialFor` is `required_qty * (qty / job.qty)`
quantized, `UnitsFor` the quantized way back from the first row of a cancelled send, `Eps`
the tolerance `QTY_EPS` of the checks. `Boms`: which bill an item is made by, the
circle check, default and active flags, stored costs and their refresh.

### Margins and TaxWorksheet

Both model long-lived documents whose stored results should follow their inputs, with
requests served alone. `Margins`: seeding a plan from a quotation or an order, what-if
scenarios, recomputation, applying a scenario, drivers, allocations and settings, and
the gate before submission. `TaxWorksheet`: computing a worksheet as often as its user
likes, setting losses off and giving them back, the minimum-tax credit, submission,
cancellation, and the chain of original and revised returns.

### Pure computations

`Totals` (`taxes_and_totals.py`), `TaxKernel` and `TaxYear` (`taxation/kernel`,
depreciation), `CostDrivers` (the estimate of a margin) and `LeadTime` (explosion, cover
by open supply, forward and backward schedules, pegging) are operators on exact
fractions (`Decimals`) or whole quantities. The operators were compared with the Python
functions they translate on random inputs: 12,048 documents for `Totals`, 29,932 cases
for `TaxKernel` and `TaxYear`, 10,240 for `CostDrivers`, 12,096 for `LeadTime`, without a
difference.

## Runs

| run | instance and bounds | shows |
| --- | --- | --- |
| `stock_ledger` | 2 bins, 3 vouchers of 6 kinds of draft, 2 concurrent requests, the same voucher requested twice, negative stock refused | `TypeOK`, `LedgerMatchesBin`, `NoNegativeStock`, `InventoryFollowsStock` |
| `stock_waiting` | 2 bins, 2 vouchers of 7 kinds, negative stock allowed, fairness | `OrderedLocks`, `EmptyBinHasNoValue`, `CancelledStockIsGone`, `EveryRequestEnds` |
| `trade` | five parts side by side. Settlement: 2 purchase invoices (one with tax kept), a return, 2 payments (one with charges), 1 worker. Cycle: 2 orders for one bin, 2 deliveries, a return, 3 bills, a credit note of twice its bill, 1 clerk. Work order: 2 units ordered, 3 allowed, 2 components (one with a substitute), 3 entries, 1 worker. Serials: 2 numbers, 2 places, 7 vouchers, 2 requests. Bank: 2 lines, 3 vouchers | `BalancesAddUp`, `ImplementsBooks`; `DocumentsAddUp`, `MovedDriftsUnderReturns`, `OverrunOnlyByCancelling`; `OrderFollowsEntries`, `StatusTellsProgress`, `BackedUntilCancelled`; `SerialsFollowVouchers`; `BankFollowsStatement` |
| `settlement_race` | 2 payments, sales without tax, 2 workers | violates `NeverOverAllocated` |
| `serials_split` | a delivery from two warehouses, a return | violates `NumbersFillBins` |
| `subscription` | 3 subscriptions, 4 days, catch-up of 1, one that cannot be invoiced, a day nothing can be posted, 1 worker, fairness | `NeverTwice`, `NoGap`, `CompletedAtEnd`, `CancelledIsQuiet`, `DueIsBilled` |
| `subscription_starved` | the same, but the one that cannot be invoiced has the earliest cursor | violates `DueIsBilled` |
| `general_ledger` | 2 entries of 3 drafts (an expense, the same over two rows, a refund), 2 closings, 2 days, a budget of 2, 2 clerks; a tree of 3 nodes, 2 titles, 2 editors, 2 updates; a chart of 4 accounts, 3 labels, 2 clerks, 2 renames; beside them the computations, inputs enumerated and each checked against its reference: some 36,000 documents, 12,096 promises, schedules of tax and deals | `LedgerIsSound`, `FreezeOnlyAdvances`, `ClosedIsFinal`, `BudgetHolds`, `MastersHold`; `TotalsHold`, `TaxHolds`, `EstimatesHold` |
| `assets` | 1 asset, 2 periods, a sweep and a clerk, 2 revaluations, fairness | `BookedOnce`, `AssetAddsUp`, `DueIsBooked` |
| `documents` | seven parts: a subcontract job of 12 steps in lots of 4 and 9, with a third of one material and two of another to a unit, 4 entries, a production plan with 2 planners, a material request with its orders, a job card with 2 operators, margins with 2 orders, worksheets of 2 returns, 3 bills of materials of 2 goods | `CountersFollow`, `RecomputeReachesAll`, `MarginsHold`, `NothingSubmittedBelow`, `WorksheetHolds`, `RunsRepeat` |
| `subcontract_stuck` | a job of 3 units that needs 1 of a material, in lots of 1 unit, counted in hundredths; 2 entries | violates `EmptiedJobCancels` |
| `invoice_unbalanced` | documents whose grand total was corrected for rounding | violates `VouchersBalance` |

Most of the invariants above are conjunctions, stated at the end of their module: the
type invariant of the part and its properties (`BalancesAddUp` is `TypeOK`,
`OutstandingIsLeft` and `PartyLedgerAgrees`, and so on).

Why the bounds are enough. The properties relate a counter to the documents that move
it, and each violation we found or provoked by a mutant needs at most one document of
each kind and two of one kind. `stock_ledger` has three vouchers because cancelling
one voucher after another consumed part of it takes a receipt, a consumption and a
second receipt at another rate; two requests suffice since a bin has one lock holder
and one or more waiters. The settlement has two invoices so that a payment can be split,
two payments so that one can be reconciled after the other was cancelled, and amounts in
which every allocation leaves a remainder or none. The cycle has two orders so that
one can eat the other's reservation, deliveries that together exceed an order, and
three bills because a credit note of more than its bill needs a second bill to make
room for it and a third to be cancelled under it. The subcontract job counts in so small a number of
steps that every rounding is a visible part of it: with a third of a material to a unit, a
lot of 4 out of 12 is rounded down and comes back off by one, a lot of 9 comes back whole,
and either may be cut to what is left. The work order needs three entries for
over-production beyond the allowance and for a consumption ahead of a finish that is
then cancelled. In `subscription` four days let one subscription reach its second period
and its end, a catch-up of one makes the cap bite (the code has 60), and a request may
name any day. Two clerks and two closings are what it takes for one closing to overtake
an entry and another closing; two editors with one update each for a path to go stale.
Where a theorem is proved (below) the bound does not matter at all.

One worker and what it leaves out. `Settlement`, `TradeCycle`, `WorkOrder` and
`Subscription` keep the Check and Write steps (or transactions) of a handler apart, but
their passing runs serve one request at a time: with two, the lost updates that
`settlement_race` shows break nearly every counter at once, since nothing but the bin is
locked. What these runs check is that the sequential logic, with refusals, crashes
between transactions, retries and every order of submit and cancel, is right.
`Subcontract`, `Boms`, `Margins` and `TaxWorksheet` serve requests alone for the same
reason. `StockLedger`, `Serials`, `Banking`, `GeneralLedger`, `Trees`, `Chart`, `Assets`,
`Requests`, `ProductionPlan` and `JobCards` are checked with overlapping requests, and
their properties say in a history variable what an overlap may break.

Fairness. `StockLedger`: weak fairness of each request's own step (the event loop runs a
coroutine that can go on), strong fairness of taking a free lock (PostgreSQL queues those who
wait for a row), and the database breaks a deadlock. `Subscription` and `Assets`: strong
fairness of starting a sweep and of each of its steps; the scheduler starts one every
night, and a server that is killed again and again still reaches the next step some
night. Without it nothing obliges the server to run at all. No fairness is assumed of
users, crashes or the calendar. The other modules state safety only: their requests end
by themselves.

Deadlock checking is off in every run because in every model the system may stop: all
documents are cancelled and all days have passed.

Mutants. Each property of a passing run names mutated definitions (a dropped guard, an
off-by-one, a missing reset) under which TLC finds the property violated.

## Proofs

Eight modules hold theorems, with no assumption beyond the named ASSUME of the modules
they extend and the hypotheses each theorem states. The results to know of
(`theorems` in `PROJECT.json`):

| module | theorems | hypotheses |
| --- | --- | --- |
| `StockLedger_proofs` | `TypeCorrect`, `StockNeverNegative`, `EmptyBinsAreWorthless`, `LocksInOrder`, `AccountFollowsStock` | none |
| | `LedgerIsBin` | every count states its rate |
| | `CancellingEmptiesStock` | the same, a voucher in one request at a time, finitely many vouchers |
| | `SerialsFollow` | a delivery ships from one warehouse |
| `GeneralLedger_proofs` | `FreezeAdvances`, `ClosedPeriodIsFinal`, `LedgerSound`, `BudgetIsKept` | none |
| | `MastersAlwaysHold` (of `Trees` and `Chart`) | none |
| `Assets_proofs` | `AssetsAddUp`, `PeriodsBookedOnce` | none |
| | `WorksheetsAreSafe`, `RunsComeOutTheSame` (of `TaxWorksheet`) | none |
| `Settlement_proofs` | `MatchesAgree` (of `Banking`) | none |
| | `BalancesAgree` | one request at a time, no tax of its own on a return, receipts without deductions |
| | `KeepsTheBooks` (refinement of `OpenItems`) | one request at a time, no tax of its own on a return, no invoice twice in an entry |
| `TradeCycle_proofs` | `DocumentsAgree`, `DriftNeedsAReturn`, `OverrunNeedsACancellation` | one request at a time |
| | `MarginsAreSafe`, `GateHolds`, `DriversReachScenarios` (of `Margins`) | none |
| `Planning_proofs` | `StatusIsProgress`, `OrderIsItsEntries`, `FinishedIsBacked` (of `WorkOrder`) | one request at a time |
| | `CountersAlwaysFollow`, from `JobFollows`, `PlanFollows`, `RequestFollows`, `CardFollows`, `BomsFollow` | none |
| `Subscription_proofs` | `TypeCorrect`, `NeverBilledTwice`, `NothingAfterTheEnd`, `CancelledForGood`, `NothingLeftUnbilled` | one request at a time |

"One request at a time" is a hypothesis because it has to be: with two, the runs and the
instances named in the next section break the property. Nothing else about the
constants is limited: any number of documents, bins, accounts, days and quantities.

What every hypothesis excludes is a behaviour of the code, not a difficulty of the
proof. A count that states no rate keeps the bin it read before the lock. Two requests
for one voucher mirror it twice. A return with tax credits only the invoice amount when
it is cancelled. A receipt with deductions can leave a negative unallocated amount. An
entry that names an invoice twice has each row compared alone with what is open. A
delivery from two warehouses is what `serials_split` shows.

### Sums

Most of what this system promises is an equation between a counter and a sum over
documents. `SumLemmas` has the laws of `SumFunctionOnSet` (change one summand, split a
set, swap two sums, bound a part by the whole) for every finite set. The
library states induction with an operator parameter, which the provers
cannot instantiate, so the module proves induction again in set form: a set of
numbers, or of subsets of a finite set, that contains the first and is closed under the
next contains them all (`NumberInduction`, `ElementInduction`). The fold behind
`SumFunctionOnSet` is then a function on subsets, and every law is the choice of such a set.
`LeftAfter`, the written-down values of a schedule, is a recursive function too; that
it exists and where it starts and ends is again `NumberInduction`, and so is the walk
through the bills of materials (`IterationExists`). A finite set that only grows from
step to step stops growing (`GrowthStops`): what such a walk has collected after as many
steps as there are elements is all it ever collects.

### StockLedger

Types rest on the lemmas on valuation: every way of valuing a row turns a bin into a
bin (`ApplyType`), which needs that the divisors of the moving average are positive.
`StockNeverNegative` and `EmptyBinsAreWorthless` carry the same bound on the copies of the
bins an open request has computed, because those are what it will commit. `LedgerIsBin`
rests on the meaning of the row lock: whoever holds a bin's lock computed its copy from
the committed row (`CopiesAreFresh`), and nobody holds a copy without the lock.
`LocksInOrder` needs that the requests of a call are made in the order of the bins,
which sorting them gives. `AccountFollowsStock` is an action property: the difference
between account and stock of a bin moves only in the steps the property names.
`CancellingEmptiesStock` says what the ledger still holds of each voucher: all its rows
while it is submitted, none once it is cancelled, and in between what the open request has
in hand.

### Serials

The proof says why numbers nobody locks are safe all the same. `Vouched` gives each
number its place from the vouchers that name it: a voucher in force still holds its
numbers unless a later one took them (`Done`), two vouchers in force that send the same
number are one (`Once`), and nothing is returned before it was delivered (`Later`).
`InFlight` says that two requests in flight share no bin and that what a request read of
its numbers is still so; `NumbersApart` derives from the bins that they share no number
either. So a request may be taken as one step (`KeepPosts`), and each kind of voucher
keeps the links, the numbers and the count of a bin. `ReturnsGoHome` is the only place
where it matters that a delivery ships from one warehouse.

### Settlement

The inductive invariant is `Core /\ Current`. `Core` relates the stored columns to
each other: outstanding amounts to the submitted references and returns (`Allocated`),
every match to submitted documents of both sides (`Backed`), the party ledger to the
documents (`Entered`), and a row that is still untouched to its full amount. `Current`
says that what the one request in flight has loaded is what is stored and that its
checks still hold; without it `Core` is not inductive, since a write would put back an
old balance, which is what `settlement_race` shows. With it each write is the whole
effect of its handler at once, and the same lemmas show that it is a step of
`OpenItems`; every other step leaves the books alone. `KeepsTheBooks` needs `DistinctRows`
because the books never let an invoice be paid beyond what is open; `BalancesAgree`
does not.

### TradeCycle

`Books` says that billed counters are exact, that the reservation of a bin is the open
part of its orders, that the moved counter is never below the submitted movements and that
movements and bills belong to submitted orders; `Desks` that the request in hand
stands on its checks and its loaded counters are current. The proof explains when
`max(…, 0)` in `cycle_links.py` is harmless: it only ever raises the moved counter above
the documents, and without returns the sum of the submitted movements bounds each summand,
so it does nothing. The property on overruns was false as first stated (it named
returns): an instance with a credit note larger than the bill it credits led TLC to a
trace of 23 steps, since no quantity is ever compared with that bill.

### WorkOrder

`Sound`: consumption within what is required, production within what is allowed,
every recorded entry exists, a draft order has nothing, and the stored status is the
one its quantities give. `Busy`: the row loaded at the start is the current one, and what
the request counted follows the bill of materials. `Agreement`: while no entry
was orphaned, consumed and produced quantities are those of the entries, so the clamps of
the roll-back never act. A cancelled order without orphans has no stock. TLC checked the
invariant on 216,415 states before it was proved.

### Planning

Each of the five has an invariant in two parts: what holds whatever happens, and what
holds as long as a history variable is clear (an overlap, a crash between two commits, an
untold entry, an item on two rows).

Job card: unless requests overlapped, the request in hand has read what is there, and
what it checked when it began still holds.

Material request: who holds the lock of a bin is alone in it, so what a purchase order
read of a row all whose orders go into that bin is still so (`DealHolds`). This is why
the ordered quantity is right although its own row is never locked. `DraftsFit` is the
other half: a submission checks nothing, so a draft has to go on fitting until it is
submitted, and it does if it is the only draft of its row.

Production plan: a planner's copy knows no link the plan has not (`CopySound`), so that
writing it back cannot take a link away from a plan that is complete. An order without
its link is in the hands of the one planner at work (`PlanAlone`) or its maker died.

Subcontracting: the numbers are those the columns keep, with every rounding, and nothing
is assumed to divide. While an entry is on its way, what it was checked against still fits
(`FitsSlips`), whatever was cancelled in between. A cancellation takes a row back exactly,
because it takes it back from the entry; the units of a send it infers, so that `sent_qty`
follows the sends only to what each cancelled one was off (`Slack`), and a single send is
off by half a step and by what half a step of its first material is in units
(`SendsComeBack`). What is left of a row may be less than the next entry's share, since
earlier ones were rounded up: together by at most half a step each (`RoundedUp`), which
gives the bound on what an entry can lack (`Leeway`), and a receipt may lack what the sends
did besides (`RoundedDown`). If every entry has exactly its share - nothing was rounded or
cut (`InProportion`) - no more units are received than were sent.

Bills: the handlers walk, the proof counts in sets. `NoCircleAmongChecked`: every set of
items whose bills in use were looked through when they came into use has an item made of
nothing in the set. A bill that is submitted reaches nothing of what it makes
(`ReachedIsLeast`: the walk gives the least closed set, because among finitely many items a
set that grows at each step runs out of items), so a set without such an item would have
lost one before. That a circle of the walk is a set of this kind, and the other way
round, is `CirclesComeBack`. TLC checked the invariants before they were proved, on
7,814,876 states (a job with lots of 4, 5 and 9 and five entries) and 356,919 (bills).

### GeneralLedger

The freeze date and closed periods need the meaning of the counter row, which nobody
calls a lock: whoever closes holds it and compared the date after taking it (`Numbered`).
For the sums, `Untouched` says that an entry no overlap has disturbed was posted and
mirrored as often as its stage says, and `Carried` that a closing request not overtaken
still carries the balances it will move. For the budget, `WithinCap`: what a request that
is about to submit compared still fits, or the year was closed in between. It is stable
because every other commit reaches that request as news, and because a year is an interval of
days (`YearIsItsDays`), so that no entry of another year counts. Then only a
submission or a cancellation moves spending; the first has a single row on the account
(`OnlyRow`) and fits, the second adds spending only by undoing a refund.
That `YearOf` grows with the day states that a fiscal year is what the code stores, a first
and a last day, and that years do not overlap; `get_fiscal_year` takes whichever row
covers the day, and a company starts with one.

### Trees and Chart

A rename or move replaces, in every path, a first part `P` by `T` (`Replaced`). All that
is known of sequences is how long they are and what stands where, which makes the laws
of `Replaced` and of `Starts` plain arithmetic: replacing and going one step down commute
(`ReplacedStep`), unless that step ends at `P` itself. A path that no other node has
(`NodesApart`, `ChartApart`) is ended at only by the node renamed, and its new parent is not
below it (`NotBelowItself`); so a path that told its place still does. `TreeInv` and
`ChartInv` add what an open request knows: as long as no other has committed, what it is going
to write is what it would compute now (`EditCurrent`, `KeepCurrent`). That all nodes are
shown is `GrowthStops` and the shortest path not shown, whose parent would be shorter still. For the
statements, the way from a group down to an account leads through exactly one of the
accounts right below the group (`ChildOnTheWay`), so the rows of these split the row of
the group (`RowsAddUp`). `TotalsAreAll` needs no exception: its own premise says which
charts it is about. TLC checked both invariants on 856,747 states before they were proved.

### Assets

`Good` says of one asset and its entries what each operation keeps, whoever works on
it: every posted row names an entry of its own (`Linked`), and what the open rows still
plan to depreciate is at most the book value (`Fits`). The second does not follow from
the sums in the ledger, and it survives a revaluation followed by a reversal only
because a row takes as much out of the plan as it puts into the accumulated
depreciation; that holds for a stale copy as well, since a poster flags a row and never
writes its amount. While nobody crossed the asset and its entries were reversed by
nobody else, `Matches` pairs the posted rows with the depreciation entries that stand,
and `Balanced` makes cost and accumulated depreciation in the ledger those of the
asset. `Fresh` is what makes a sweep safe: the copy of an uncrossed asset is the asset,
and the rows still to be posted are open in it, because every operation on an asset that
somebody holds makes it crossed. A reversal then takes out exactly what the posted rows
wrote (`MirrorTakesOut`), which is a sum over rows carried over to a sum over entries.
That a new plan never exceeds the value it depreciates (`RescheduleAdds`) needs nothing
of the rounding of the parts: the last row takes what the others leave, so a plan adds
up to the depreciable amount exactly, and that is at most the value.
TLC checked the invariant on 491,007 states before it was proved.

### Banking and Subscription

`MatchesAgree` strengthens the property by what the request that makes a voucher knows
(`Making`): its line is free, its voucher has the amount of the line, and no line names
that voucher. `NeverBilledTwice` has `Unbilled`, nothing is invoiced at or after the
cursor, and `Sound`, what a worker still has to bill it holds as stored; a stale copy would
bill at an old cursor, which is what happens with two workers. `NothingLeftUnbilled` adds
that the cursor is a whole number of cadences past the first day and that no period starts
between it and the next.

### Margins and TaxWorksheet

`MarginInv` adds to the property what a recomputation relies on: the first scenario of a
plan is its baseline and no other is (`WholePlan`), every estimate is that of its own
line (`Estimated`), what a plan charges by revenue is a percentage and equal to its
allocation, and no order exists before the quotation is submitted (`SalesFollow`). The
gate compares stored integers only, so that `GateHolds` follows by cross-multiplying
once the latest plan is known to hold the estimate of its line; that the plan is the
latest of its document is part of the property. A document worth nothing has no margin in
percent, and `evaluate_margin_policy` lets it pass: the property names that case.
TLC checked the invariant on 2,853,048 states before it was proved.

`WorksheetInv` says that every run but the last is superseded and has given its losses
back (`InOrder`). So what a worksheet holds is what its last run set off (`HeldByLast`),
and a new run may be taken as a move from one loss to the other side: the sum over
worksheets changes by that run alone (`SumOfChange`). `LatestRepeats` is what makes a
run repeatable: what the run computed last took is what `SetOff` takes of the pool as it
would be after giving it back; every step that touches the pool otherwise clears
`latest`. `SetOff` is a sum over the losses before each one and needs no
induction. TLC checked the invariant on 2,809,527 states before it was proved.

### Only model-checked

- Liveness (`EveryRequestEnds`, `DueIsBilled`, `DueIsBooked`): out of the prover's reach,
  as are ENABLED and hence fairness.
- `TotalsHold`, `TaxHolds`, `EstimatesHold`: recursion and folds over sequences, where a
  proof would be an induction over data.
- `RecomputeReachesAll`: its half on margins (`PlansRecomputed`) is proved by
  `DriversReachScenarios`; that a new price reaches the nested bills (`RefreshReachesLeaves`,
  in `Boms`) is a recursion along paths, which would be an induction over them.

For these the bounds of the runs matter.

## What the code does otherwise than it says

Shown by runs (`findings` in `PROJECT.json`):

- `settlement_race`: the outstanding amount is compared before it is written and no row
  is locked (`payment_entry.py:288`), so two payments settle one invoice twice.
- `serials_split`: a return from another warehouse than the delivery's leaves a number
  in one place and its quantity in another (`delivery_note.py:448`, against the head of
  `stock_serials.py`).
- `subscription_starved`: one failing subscription with an early cursor ends every
  sweep before the others are billed (`jobs/subscription.py:91`).
- `subcontract_stuck`: a job for 3 units that needs 1 of a component sends 0.333333 of it
  for one unit; cancelled, that comes back as 0.999999 units (`subcontract_job.py:474`).
  `sent_qty` stays at 0.000001, the status at "Materials Sent", and the cancellation of the
  job is refused for good, asking to cancel entries that are cancelled already
  (`subcontract_job.py:227`).
- `invoice_unbalanced`: a grand total corrected for rounding differences gives a voucher
  that does not balance (`sales_invoice.py:492`).

Stated in the modules and false, without a run of their own (each is reached within a
few steps by the instance named):

- `NoDeadlock` (`StockLedger`, drafts `TransferDrafts`): opposite transfers wait for
  each other, since the order of locks holds within a posting call only
  (`stock_entry.py:337`). The database breaks it, so `EveryRequestEnds` holds.
- `LedgerMatchesBin` (`StockLedger`) with a count that states no rate
  (`stock_ledger.py:78`).
- `DocstatusMovesForward` (`Settlement`, two workers): a late submit revives a
  cancelled invoice. `UnpaidMeansFull` with a taxed return that is cancelled.
- `StatusTellsMoved` (`TradeCycle`, factors `TwoPerUnit`): status compares stock units
  with document units (`sales_order.py:64`). `WithinCaps`: a cancelled credit note
  leaves an order billed beyond its amount.
- `CancelledHasNoStock`, `AllGivenBack` (`WorkOrder`): after a crash an order can be
  cancelled although its goods were posted (`work_order.py:677`); cancelling a finish
  that used a substitute leaves the component counted as consumed (`work_order.py:721`).
- `NeverTwice`, `CancelledIsQuiet` (`Subscription`, two workers): the sweep and a request
  bill the same period; a subscription cancelled during a sweep is billed.
- `BookedOncePerLine` (`Banking`): after a crash between its commits the retry books a
  second voucher for the line.
- `NobodyVanishes`, `NobodyVanishesAlone` (`Trees`): two editors can move two nodes below
  each other, out of the tree; a rename takes along the children of a twin.
- `NothingLeftOut`, `GroupsAddUpForTwo` (`Chart`): an account with the label of a group beside
  it falls out of the totals (the balance sheet's balancing figure hides it); an
  overlapping rename and creation leave a stale path.
- `NothingMadeOfItself` (`Boms`): the circle check looks only at the bills in force when a
  bill is submitted; reactivating one, or the next in line taking over, brings a circle back.
- `UncoveredIsBoughtAnew`, `StockCoversOnce`, `YesMeansEveryLine` (`LeadTime`): open supply
  is counted by every line, one stock covers several rows, and a past delivery date
  or a circle still answers "can fulfil".
- `SettingsReachStructure` (`Margins`): the settings are committed before the
  structure is synchronised, and the synchronisation is only flushed (`settings.py:101`).
- `OpeningIsLeft` (`TaxYear`): a block the earlier year left empty opens with the cost of
  the first asset in use, and one without a register with the first asset alone.

Seen while modelling, outside the runs:

- Payments: two rows for one invoice are validated alone (`payment_entry.py:108`); an
  invoice of a subscription whose submit failed stays a draft that nothing retries,
  although the comment at `subscription.py:170` counts on the daily job.
- Ledger: a cancelled budget of a cost center cannot be created again (`uq_budget` stays;
  one without a cost center can, which is the one modelled); the budget control
  does not see spending once a closing in mid-year has moved it.
- Assets: a manual and a nightly posting that overlap book a period twice, against the
  comment of `jobs/assets.py`; one refused row ends the sweep; cancelling a
  depreciation entry from the journal screen mirrors it again later.
- Serials: counts move serialised bins without their numbers, and manufactured goods
  get none.
- Subcontracting: a cancelled send of an item that stands on two rows of the job takes
  back the sum of both, divided by what one of them needs per piece
  (`subcontract_job.py:474`); the job then counts too little as sent and can be cancelled
  with a send still posted. The properties except such jobs (`InOrder`). A send cut to what
  is left of its first material comes back as fewer units than it went out for, and a job
  of a single step (0.000001) reads "Completed" after any of its entries is cancelled.
- Production plans: a crash between creating a work order and linking it, or two
  creators, make a second order; explosion ignores what other plans will make.
- Material requests: two purchase orders drafted from one row together exceed it.
- Worksheets: `create_run` accepts a submitted sheet; cancelling a computation keeps its
  set-offs and credit rows; acknowledging a return again overwrites its date; a
  return generated before the last one was acknowledged is never linked to it.
- Margins: recomputation with overridden baselines is not idempotent; applying a
  scenario keeps the discount of the header; a plan that is not a draft can be applied to.
- Calculations: an inclusive tax per quantity alone is not divided out; with two
  surcharge thresholds the tax falls at the second; an asset added and disposed of in one
  year is depreciated out of nothing.

## Not modelled

`PROJECT.json` lists every component with the reason. In short: read-only parts
(reports, statements, printing, registry, frontend) have no state to check; naming,
permissions and workflow only guard or label what the modelled operations do; GST and
TDS returns and e-documents are formats and rules to compare with the law; shares,
pricing rules, promotions, payment requests, dunning and opening invoices are
single-document operations left for later; batches have no quantity of their own.
`map` covers about a sixth of the implementation lines: the rest is schemas, routes,
seeds, reports, the metadata registry and these parts.

Within the modelled components the following is abstracted. Prices, currencies and
accounts do not appear except where a property is about them; one item and rate 1 in
`TradeCycle`; whole multiples of the bill of materials in `WorkOrder`; amounts that match to the cent
(`TOLERANCE`) are equal in `Banking`; the gate of `Margins` compares exact fractions where the
code compares a percentage rounded to two places; the generic settings screen, which can
write the freeze date, is outside `GeneralLedger`; month ends in
`Subscription`; minutes and costs in `JobCards`. Every further check a handler makes
(credit limits, inspections, permissions) can only refuse, and refusing is always
possible.

## Plan

Done: the modules above; the theorems above. What comes next, the most telling first:

1. `RefreshReachesLeaves`: the walk of `Boms` that finds where a new price is to arrive,
   as a set that grows.
2. `StockLedger` with counts that state no rate: the weaker equation that still holds.

## How to run

    tlc -workers 2 -config StockLedger.cfg MCStockLedger     # a run: cfg and MC module
    tlapm StockLedger_proofs.tla                             # the proofs of a module

Each `.cfg` belongs to the `MC` module of its specification; `PROJECT.json` names the
pairs. The proofs are independent of each other; the largest takes some ten minutes.
