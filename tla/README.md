# Cartwright: a verification project

Cartwright is a desktop program (Python, PySide6, Playwright) that buys single
items on Amazon for its user: it prepares a checkout in a real browser, checks
it against the user's rules, asks for a confirmation (or, for an acknowledged
automatic watch, does not), presses "Place your order" once, and works out what
came of it. The two things that must not go wrong are buying twice and buying
something else. Paths below are relative to `src/`.

This directory holds TLA+ models of the parts of the program on which those two
things depend, TLC configurations that check them on small instances, and
theorems that TLAPS checks for every instance. `PROJECT.json` lists the runs,
the lines of code each definition stands for, the hazards and the findings.

## 1. The system

| Component | Where | State it keeps | Operations |
|---|---|---|---|
| State machine | `app/purchasing/states.py` | none | the table of legal moves, classes of states (live, terminal, "order may exist") |
| Purchase workflow | `app/purchasing/purchase_service.py`, `app/database/repositories/purchases.py`, `orders.py` | `purchase_jobs`, `purchase_attempts`, `orders`; in memory `_pending`, `_tasks`, `_reported` | start, the preparation, confirm, submit, cancel, resolve an uncertain order, recover after a restart |
| Browser worker | `app/automation/browser_worker.py` | a priority queue, the current task, a cancel flag per task | submit, cancel, run one task at a time, report, stop and drain |
| Amazon adapter, checkout manager | `app/automation/amazon_adapter.py`, `checkout_manager.py` | the page in the browser | inspect, prepare, re-read, submit, read the confirmation, search the order history |
| Cart isolation | `app/automation/cart_manager.py` with its callers | the isolation journal, in memory and in `purchase_jobs.isolation_journal_json` | plan, set aside, restore |
| Purchase guard | `app/purchasing/purchase_guard.py` | none | check the product, the cart, the order page |
| Watches | `app/monitoring/*.py`, `app/database/repositories/watch.py` | `watch_jobs`, checks in flight | tick, check, back off, auto-buy, pause, resume, complete |
| Main window and dialogs | `app/ui/main_window.py`, `app/ui/dialogs/` | open modal dialogs | handle the worker's signals, carry out the user's answers |
| Application context | `app/ui/app_context.py`, `app/main.py` | none | start, recover, restore carts, shut down |
| Product page and money | `app/automation/product_parser.py`, `page_reader.py`, `selectors.py`, `app/core/money.py`, `app/purchasing/product_service.py` | none | read a snapshot off a page, read amounts off a text, suggest rules |
| Session and browser | `app/automation/login_detector.py`, `amazon_adapter.py`, `browser_manager.py` | the browser and its profile, what the window knows of the account | classify a page, wait for the user, connect, test, clear, start, repair, close |
| Notifications | `app/notifications/notifier.py`, `app/database/repositories/activity.py` | the settings, the log, what is on screen | allow, keep back, show, record |
| Rules, watches, observations | `app/database/repositories/*.py`, `migrations/m0001_initial.py` | the rows and the references between them | create, edit, delete, record, start a purchase |
| Database file | `app/database/database.py`, `app/main.py` | the file, its log, its version, its backups | open, migrate, back up, restore, close |
| Launch | `app/main.py`, `app/winint/single_instance.py`, the tray and closing of `main_window.py` | a lock and a socket; the window and the tray icon | start, hand over to the running copy, hide, exit |
| Others | settings pages, diagnostics, presentation, the rest of the Windows integration | | |

How they interact. The GUI thread calls the service; the service queues a task
on the worker; the worker thread runs the task, which calls the adapter and
writes the database from that thread; what it has to say goes back to the GUI
thread as *queued Qt signals*, handled later, in order. Dialogs are modal: each
is a nested event loop in which further signals are handled and further
dialogs open on top. Nothing locks a job: the GUI thread and the worker both
read and move `purchase_jobs.state`. Amazon's side - the page, the cart, the
order - changes by itself and by the user's hand.

What is hard:

* *Interleaving.* A cancel, a confirmation, a late failure report or a
  shutdown may come between any two steps of a task, which may be the same
  job's (`purchase_service.py:266`, `:489`, `:1075`).
* *Crashes.* The program can stop between the record of a submission and the
  click, between the click and the answer, between two moves of a cart line.
* *Unknown outcomes.* A click is not an order. The job then is `UNKNOWN`, must
  stay so until the user says what happened, and must block its product.
* *Exceptions as control flow.* Up to three handlers see the same error (in the
  task, in the worker, in the GUI), and a cancellation is an exception as well.
* *Stale data.* The page that was reviewed is not the page that is submitted;
  the cart that was checked is not the cart that is checked out.

What makes each component correct:

* the **state machine** - a job moves along the table only;
* the **workflow** - one order per job at most and only after it is on record, a
  recorded submission is never forgotten, one open purchase per product, what is
  ordered is what was reviewed, only the user resolves an uncertain order, every
  purchase comes to rest;
* the **worker** - one task at a time, every task reported, nothing in the
  background after a stop;
* **cart isolation** - no order holds another line, every line set aside comes
  back;
* the **guard and the parsers** - what passes is what the user was shown and
  allowed, whatever part of a page could not be read;
* the **answer to an order** - it is about this order;
* **watches** - one purchase per watch, no watch in flight for ever, the news
  about them told once;
* the **session** - nothing is read out of a challenge, "signed in" is true, and
  a cleared session stays cleared;
* the **database** - a version is recorded with its schema or not at all, a
  restore destroys nothing, a purchase keeps the rules it was judged by;
* the **launch** - one copy works at a time, and one that hides can be found.

## 2. The modules

| Module | What it is |
|---|---|
| `PurchaseStates` | states and the table of moves (`states.py`) |
| `PurchaseService` | the workflow between worker thread, GUI thread, database and Amazon |
| `PurchaseProperties` | what it must keep true; and what the documents say that it does not |
| `OrderSafety` | the promise: an abstract specification in five actions |
| `PurchaseSlots` | a second promise, to the rest of the program: who buys which product, what is in doubt, who has an order |
| `PurchaseRefinement` | the mappings under which `PurchaseService` implements `OrderSafety` and `PurchaseSlots` |
| `PurchaseInvariant` | the inductive invariants of the workflow, `Inv`, `UserInv` and `CarryInv` |
| `PurchaseSafety`, `PurchasePromise`, `PurchaseUser` | the theorems: types and safety; the promise of `OrderSafety`; moves, review, questions, nobody forgotten, and the promise of `PurchaseSlots`. Each EXTENDS the one before |
| `CartIsolation` | the cart, the journal, the restores; its properties |
| `BrowserWorker` | the worker thread and its priority queue, for a module that says what a task does |
| `CheckDecision` | what a check of a watch means (`watcher.py`, `scheduler.py`) |
| `WatchMonitor` | the watch list, the scheduler, the checks and the purchases they start; EXTENDS the two above |
| `Records` | rule sets, watches, observations and purchases as rows; EXTENDS `CheckDecision` |
| `Money` | amounts and how they are read off a text |
| `PurchaseGuard` | every check of the guard, as operators; EXTENDS `Money` |
| `ProductPage`, `Inspection` | from a product page to a snapshot, to rules, to the next look |
| `CheckoutPage` | the order page, the final check, the steps of the submission, the answer to an order |
| `SignIn` | what Amazon served, the wait for the user, the account |
| `BrowserProfile` | the browser, its profile, and the worker's care for both |
| `Notifier` | what is told, what is kept back |
| `DatabaseFile` | migrations, backups and restores of the file |
| `Launch` | copies of the program, the window and the tray |
| `MCPurchase`, `MCCart`, `MCPages`, `MCProgram` | instances for TLC (`browser_retry` runs `BrowserProfile` itself) |
| `CartInvariant`, `CartSafety` | the inductive invariant of the cart, and its theorems |
| `WatchInvariant`, `WatchSafety` | the same for `WatchMonitor` and its worker |
| `WatchRefinement` | the mapping under which what `WatchMonitor` sees of the purchases is `PurchaseSlots` |
| `StorageInvariant`, `StorageSafety` | the same for `DatabaseFile`, `Records` and `Notifier` |
| `ProcessInvariant`, `ProcessSafety` | the same for `Launch`, `BrowserProfile` and `SignIn` |
| `PagesInvariant`, `PagesSafety` | the same for `Inspection` and `CheckoutPage`, and what passes the `PurchaseGuard` |

### PurchaseService and the code

`state`, `row`, `recorded`, `ordered`, `answer` and `testMode` are what the
database keeps: `purchase_jobs.state` (with "absent" for a row not created), its
immutable columns, the jobs with a submitted attempt, the jobs with an order in
the history, the user's verdict on an uncertain order, and the Test Mode
setting. `placed` and `page` are Amazon's. `queue`, `job`, `step`, `total` and
`cancelling` are the worker's; `pending`, `reported` and `review` the
service's; `signals`, `dialogs` and `act` the GUI thread's; `asks` and `again`
the two lists of startup prompts; `alive` is the process.

Each method is cut where another thread can see it: at every committed
transaction and at every use of the browser. `_run_preparation` becomes
`Inspect`, `CheckRules`, `PlanCart`, `PrepareCheckout`, `EnterFinalValidation`
and then `AwaitConfirmation`, `SubmitAutomatically`, `FinishTestRun` or `Block`;
`_submit` becomes `Recheck`, `PassTestMode` (or `StopForTestMode`), `BeginAttempt`,
`FindButton`, `RecordSubmission`, `Click`, `ReadResponse`, and `MarkUncertain`
or `RecordOrder` and `Confirm`. An exception is `Raised` at each step where
the code may raise, followed in the same action by the handlers that catch it
(`CatchSubmitError`, `CatchPreparationError`, `CatchUnexpected`, `LeaveTask`).
A task that was cancelled before it began, or for which the browser could not be
started, is reported without running (`SkipTask`).
The GUI thread's handlers are one action each; the two calls that are not atomic
towards the worker (`cancel` and the recording of an order the user
confirms) keep their second half in `act`. `Shutdown` waits for the
worker, `ProcessStops` does not; `Restart` runs the recovery row by row.

Modelled as choices: what the guard says of a product, a cart or a page
(`Block` or the step that goes on; of its checks `RecheckPasses` keeps the two
the workflow's safety rests on: the item is the only one, the total is the
reviewed one), what Amazon answers (`ReadResponse`: the history may say yes
or no whatever Amazon did), and what price the page shows (`Reprice`).

Abstracted: `transition` and the return of the task that calls it last are one
step (an activity entry that cannot be written in between is in the hazard list
instead). Purchase tasks have one priority, so the queue is first in, first out
(`BrowserWorker` has the priorities). `verify_uncertain`
only reads. The watch a purchase belongs to is in `WatchMonitor`.

### CartIsolation and the code

`cart`, `saved`, `checkout` and `bought` are Amazon's: the active cart, "Saved
for later", the lines on the order page on screen and what has been ordered.
`stored` is the journal in the database, `journal` the object a task carries.
`away` is history: the lines set aside, by their name, that neither a restore
nor the user has put back. The steps of a task follow `plan_isolation`,
`prepare_purchase` (`StartBuyNow`, or `AsideRecord`, `AsideClick`, `Persist`,
`AddToCart`, `VerifyCart`, `Proceed`), the final check, the submission and
`restore_cart`. "undo" is a direct call of `restore_cart`, "safe" one of
`_safe_restore`: they differ in what an exception of the restore does
(`RestoreRaises`). `Shop` is the user, on any device, at any time. A reading of
the cart may take the item itself for a foreign line (its ASIN was not read) or
see no line at all (the rows could not be counted): `ForeignReadings`. Whether a
click was reported as done and whether it moved the line are independent
(`AsideClick`, `RestoreOne`).

Left out: quantities, the limits of 60 rows and 50 jobs, dialogs for add-ons
and subscriptions. A purchase that stops as uncertain is "over" here: its
product slot is `PurchaseService`'s business.

### BrowserWorker, WatchMonitor and the code

`queue`, `running`, `signals`, `workerState` and `stopping` are the worker's. A
task is [id, priority, context, cancel]; `NextUp` is the order of the
priority queue, `Shutdown` flags every task and sends the sentinel, which goes
before whatever waits, and `StopThread` is the thread's end, with the drain that
throws the queue away. `cancel` and `cancel_all` set flags and remove nothing.

`WatchMonitor` is `MonitorService`, `Scheduler` and `RequestPacer` on that
worker. `watches` are the rows (status, action, time to the next check),
`inFlight` is `_in_flight`, `scheduling` the timer, `gap` the pacer; `found` is
what the running task has learned and not yet reported. `taken` and `bought`
are what of the purchases concerns a watch: the product's slot, and the orders.
A check is `TakeTask`, `ReadPage` (or `FailCheck`, `CancelCheck`), `RecordCheck`
and the report, and between any two the user may pause, resume, edit, remove
(`ForgetInFlight` only flags), check now, or stop monitoring. `AskForPurchase`
has the tests of `_start_automatic_purchase` in their order. `ConfirmOrder` and
`CompleteWatch` are two steps, as they are two transactions, and the program may
stop between them. `Tick` removes the expired watches, then dispatches.
`Recovered` is what `recover_interrupted` makes of the purchase that holds a slot:
one that waits for its user (`EndNeedingUser`) or is in doubt keeps it, one whose
submission may be on record becomes a doubt, any other is ended.

Abstracted: the back-off is a choice from `Delays` (it has a random part in the
code); a stop date may pass before any tick; a purchase has the four ends
that a watch can tell apart. `PurchaseService` has the rest of it. What the two
modules may take for granted of each other is `PurchaseSlots`: holders, doubts and
orders. `PurchaseService` implements it with its jobs as the buyers (`KeepsSlots`),
and `WatchMonitor`'s account of the purchases implements it with its watches and
the user (`WatchKeepsSlots`), so neither lets a purchase do what the other rules
out: take a slot that is held, give up another's, end a doubt by a restart.

### The pages and the code

`Money` reads a text as a sequence of lexemes, with the order in which the two
patterns consume it: a number with a trailing symbol takes its symbol away from
the next one. A text and a chain of candidates are functions, folded from the
left. `ProductPage` takes a page for what the chains of selectors found
on it; `MCPages.OfferPage` says which these are for an offer, without the parts
that were missed. The text of the buy box is the set of its sections, and
`WithoutAlternatives` takes out those that stand in a block of other offers,
before it is searched for the words of a used item. `Inspection` looks twice, at a market that moves in between:
first to suggest the rules, then to have `CheckProduct` judge the snapshot.

`CheckoutPage` does the same for the order. `Approve` is `read_checkout` and the
final check; `submit` is `RecheckTotal`, `FindOrderButton`, `RecordSubmit` and
`Click`, and `OrderChanges` may come before, between and after any of them;
`submission` knows how far it has come and whether the order changed since its
total was read again. `ReadAnswer` is the confirmation page and, failing that, the
search of the order history, which may not list the new order yet. The order page stands in the window or in the Buy Now frame, and
any part of it may be missed. What the guard says is computed by `PurchaseGuard`
from what was read, where `PurchaseService` leaves it open.

What a page looks like is a parameter (`Render`, `Display`), of which `Inspection`
and `CheckoutPage` assume only that nothing on it says what is not so (`Says`,
`ShowsOrder`; section 4 lists what this comes to). An offer whose box does not tell
that it is used is one of the offers (`told`); `MCPages` gives the pages of the instance as tables. Where the
order of a table of cases matters, these modules use nested IFs: a CASE of TLA+ may
take any branch whose guard holds.

### SignIn, BrowserProfile and the code

`SignIn`: a page is the signs on it, and what Amazon meant by it, which the
program cannot see. `Classify` is the table of signs in its order. A job loads its
page, is interrupted, waits (`Poll`, `Patience`) while the user acts in the
browser, and ends with a result that the window handles later; Clear session
takes its place in the same queue.

`BrowserProfile`: processes of the app's browser, of a killed earlier run and of
the user's own Chrome; who holds the profile; what a process has not yet written
to it. `StartBrowser`, `Launch`, `Recover`, `Relaunch` are `start`, with the
lock recovery; `ClearProfile`, `StartRepair` and `StopBrowser` what the worker
does around tasks. `CloseWindow` is the user, `ProgramDies` a crash.

### Records, Notifier, DatabaseFile, Launch and the code

`Records`: two looks at one product may be recorded before the first is
reported; `reports` are the queued signals. `StartPurchase` copies the rules
before it asks for the product's slot, as `start` does.

`Notifier`: `Notify` decides, `Record` writes the log afterwards; the tray is
tried when the toast fails. A piece of news is its kind, its subject and a detail;
the log knows it by its key (`DedupeKey`), and several may have one key: for an
error in watching a product, that is the product's title (`Title`). An age
counts time to `Window`, after which nothing is told apart. The self test, whose
result only the settings show, is left out.

`DatabaseFile`: each statement of a migration, the move and the copy of a restore
are steps of their own, and `KillProgram` may come between any two. `wal` is
what has not reached the file.

`Launch`: every copy takes the lock, starts the socket or hands over, builds the
context, runs, hides or exits, and lets go in the order of `shutdown`.

## 3. The runs

| Run | Instance | Shows |
|---|---|---|
| `one_product` | 1 product, 2 jobs, totals {1, 2} | type invariant, `OneOrderPerJob`, `SubmissionNeverForgotten`, `ConfirmedIsInHistory`, `OrderMatchesReview` (prices change), `LegalMoves`, `OnlyTheUserResolves` |
| `two_products` | 2 products (symmetric), 2 jobs, 1 total | `AskedOnce`, `OneHolder`, `TaskIsCurrent`, `OrderMatchesReview` (the page is shared), `NeedsUserIsKept`, `SecondOrderOnlyWhenSettled`, `WorkIsCarriedOn` (no purchase is left that nobody will move), and `KeepsPromise`, the refinement of `OrderSafety` |
| `liveness` | 1 product, 2 jobs, 1 total, with fairness | `EventuallyRests`, and `KeepsSlots`, the refinement of `PurchaseSlots` |
| `cart` | 2 lines (symmetric), 2 jobs, 2 moves | `OnlyTheItemIsOrdered`, `SetAsideIsOnRecord`, `PreparationPutsBack` |
| `program` | the components around the workflow, see below | 20 properties |
| `decline`, `unresolved`, `asked_twice`, `cancelled` | 1 product, 1 job | the four findings of the workflow |
| `cart_interrupted`, `cart_stopped` | 2 lines, 1 job | the two findings of the cart |
| `browser_retry` | one browser, one profile | the finding of the browser |

`program` checks these; the types of the cart and of the watch list are theorems
(`TypeCorrect`, `WatchTypes`):

| Part | Properties | Instance |
|---|---|---|
| watch | `OneOrderPerWatch`, `InFlightIsOutstanding`, `StoppedIsQuiet`, and `WatchKeepsSlots`, the refinement of `PurchaseSlots` | 1 watch, 2 tasks, delays of one unit, 2 kinds of error, at most 2 orders |
| inspection | `WhatPassesIsWhatWasShown` | 32 offers (2 prices, 2 sellers, 3 conditions, recurring, stock; a used one and a collectible told by the used row only, or nowhere), 10 parts of which each look misses any |
| checkout | `PassedOrderIsTheOrder`, `ChargedIsApproved`, `AnswerIsAboutTheOrder` | 24 orders, 10 parts of which a reading misses any (the mark of a subscription among them), an order that changes at any step until the click, 4 order histories that may lag |
| signIn | `ChallengeIsNeverRead`, `ConnectedIsSignedIn` | 2 polls, 1 job waiting behind the running one |
| browser | `ClearedStaysCleared`, `StrangersAreLeftAlone` | one process of each kind |
| records | `OneAlertPerReturn`, `PurchasesKeepTheirRules` | 2 watches of a product, 2 texts of rules, 2 rule sets, 1 purchase, 2 reports |
| notices | `SilencedOnlyIfTold`, `NotToldTwice` | 5 pieces of news: two prices of one watch, one about money, errors of two watches whose products have one title; a quiet period of 2 units |
| database | `SchemaMatchesVersion`, `RestoreKeepsTheOldFile` | 2 versions, 2 rows, 1 backup kept, 1 restore |
| launch | `OneCopyAtWork`, `HiddenIsReachable` | 2 copies |

The parts share no state that the models keep: what joins them in the program
- a status, a snapshot, an error - is an input of each, taken from a small set:
the cases its properties turn on (of the errors of a check, say, the throttle and
the demand for a human; the others only change a status).
Their product would only multiply the states, so `MCProgram` takes their sum:
`part` says which one moves, and the others rest in their idle state.

Every property of a passing run has a mutant beside the definition it changes
(`EndTask_StepKept`, `Occupied_UnknownFreesSlot`, `BlockCart_Left`, ...): a
plausible mistake at that place of the code under which TLC finds the property
violated.

The bounds. `MaxJobs` is the number of rows of `purchase_jobs`. Two jobs are
what every property relates at most: a job and its own earlier signals, two
jobs of one product, two of different products that share a page. Two totals
are a reviewed one and another. Nothing else is bounded: the user, Amazon,
crashes, restarts and switches of Test Mode go on for ever. In `CartIsolation`,
`MaxMoves` stands for `range(25)`; with 2 it is reached, because the user puts
lines back while they are being moved. Two lines are the item and another, and
each is the item of one job and foreign to the other. `liveness` has one
product: a step of `PurchaseSlots` is about one, but for a restart, and two jobs are
the holder of its slot and the next one.

In `program`, one watch meets all that its properties relate - its checks in
flight, the purchase of its product by the user, two orders; two tasks are a
check and what was queued meanwhile; a delay of one unit is late or due, and no
property asks for more. `MaxOrders` is one above what may happen. Every look at
an offer, and every reading of an order, misses any parts: no combination of
fallbacks may let a wrong value pass. Two copies, two versions, two texts, two
pieces of news of one watch are the one and the other of what each property
compares; two watches with one title are what shares a key. `MaxRestores` is 1 because `RestoreKeepsTheOldFile` does not hold of a
second restore, and says so.

Deadlock is checked in every passing run but `program`: there an inspection is
over after its second look and an order after its answer, and the part stops.
`browser_retry` does not check it, because it looks for one state only.

Fairness is used by `liveness` only; the watch list is checked for safety,
since its fair behaviours are too many for the instance, and
`InFlightIsOutstanding` is the part of "no watch waits for ever" that an
interleaving can break. `WF(WorkerStep)`: the worker is a thread in
a loop that takes the next task whenever there is one. `WF(FinishCall)`: a call
of the GUI thread that has begun goes on. `SF(HandleSignal)`: a queued signal
waits for calls the user makes, but Qt serves its queue in order, so a signal is
not passed over for ever. `WF(StartupStep)`: recovery is a loop. The user owes
nothing - a dialog may stay open for ever, and a purchase under a dialog counts
as at rest - nor do Amazon and the machine. A browser call that never returns is
excluded: Playwright calls time out, and the wait for the user to clear a
challenge has a limit of its own.

## 4. What is proved

Every theorem holds for all values of the constants that satisfy the named
assumptions of its modules, and TLC evaluates each assumption on its instance:

* *Workflow.* `NoProduct \notin Products`, `Totals \subseteq Nat \ {0}` (the code
  treats an unread total as none and never approves it), `MaxJobs \in Nat`.
* *Cart, watches, worker.* The placeholders are no lines and no watches, the
  bounds and delays are natural numbers, every watch has a product, the watches are
  finitely many.
* *Storage.* `MaxVersion`, `BackupRetention`, `MaxReports`, `Window` are natural
  numbers; a look finds stock, none, or neither. News of a return to stock, a sign-in or a
  verification says no more than its kind and subject (`NewsAssumption`). That no
  other news share a key is not assumed: errors in watching do.
* *Pages.* Prices and totals, shown and in the history, are in one currency, and
  the limits of the rules are amounts. Any part of a page may be missing, but
  nothing on it says what is not so. Of the product page (`PageAssumption`): a text
  that holds prices holds the asked one; whole and fraction are those of the price;
  a seller that is named is the seller; the caption of the selected offer and the
  label of the condition are right where they are found; a recurring offer has the
  words of one on the page and its one-time choice is not the selected one; what is
  sold out has no buy button and no text that only says it is in stock. Of the
  condition of an offer that is *told by its box* it is assumed that the box, where
  it is found and once the blocks of other offers are taken out, has one of the
  phrases the program looks for. Offers that are not told by it are allowed, and
  of their condition the theorems say nothing. Of the order page
  (`DisplayAssumption`): the rows of its lines are all there or none is; a
  row names its own item, quantity and price; another item does not have just the
  title of the wanted one; no price stands beside the right one that is above it
  (the code takes the largest price it finds, so a page that broke this would be
  read wrong). Of the mark of a subscription nothing is assumed there, and nothing
  is claimed of it.

`PurchaseSafety`, the purchase workflow:

| Theorem | Property | Establishes |
|---|---|---|
| `TypeCorrect` | `TypeOK` | Every variable of the purchase workflow keeps its type, for any products, totals and number of jobs. |
| `OnePartyPerJob` | `OneHolder` | A job is queued once, or running, or under review, or given up: no two parties of the workflow ever hold it together, although nothing locks it. |
| `TasksAreCurrent` | `TaskIsCurrent` | At each step of a task, the state and the record of its job are what the code at that step takes for granted, whatever the GUI thread did meanwhile. |
| `NoDoubleOrder` | `OneOrderPerJob` | A job is ordered at most once, and only after the database says that it is about to be, through any crashes and restarts. |
| `NothingForgotten` | `SubmissionNeverForgotten` | A recorded submission stays a possible order until the user says that there is none. |
| `Invariance` |  | The inductive invariant of the purchase workflow: types, one holder per job, no strangers, tasks that are current, a fresh start, and the two safety properties it is there for. |

`PurchasePromise`, the promise:

| Theorem | Property | Establishes |
|---|---|---|
| `PromiseKept` | `KeepsPromise` | The workflow implements OrderSafety: every step is a step of the promise or leaves it alone. |
| `NoSecondOrder` | `SecondOrderOnlyWhenSettled` | No job of a product is ordered while the outcome of another order of it is open. |
| `OneLiveJobAtATime` |  | A product has one live job at most, through every recovery and every answer: no insert and no move ever meets the unique index. |
| `UserResolves` | `OnlyTheUserResolves` | An uncertain job is moved by the user's answer to its own question only, and to what that answer says. |

`PurchaseUser`, what the user is shown and asked:

| Theorem | Property | Establishes |
|---|---|---|
| `UserInvariance` |  | The second inductive invariant of the purchase workflow: where in the table each task finds its job, that the review is still on the page, that a task's end is reported once, and that a question concerns a job that never becomes uncertain again. |
| `MovesAreLegal` | `LegalMoves` | No handler ever asks for a move that is not in the table, however the threads interleave: transition() never raises IllegalTransition. |
| `ReviewedIsOrdered` | `OrderMatchesReview` | A submission is recorded only with its job's item on the page and the reviewed total approved. |
| `ConfirmedIsWritten` | `ConfirmedIsInHistory` | A job the program confirmed is in the order history, wherever the process stops. |
| `NeedsUserStays` | `NeedsUserIsKept` | The worker's report of an error that has sent its job to the user does not fail the job. |
| `UserAskedOnce` | `AskedOnce` | There is one question at most about an uncertain order, on its way or open, although a task, a late report and the start may each raise it. |
| `NobodyIsForgotten` | `WorkIsCarriedOn` | A purchase on its way has a task that will move it, a report that waits, or a review open with its user: no exception, cancellation, late report or restart leaves one that nobody will ever move. |
| `SlotsKept` | `KeepsSlots` | The workflow implements `PurchaseSlots`: a slot is taken when empty only, given up by its own holder's end, and in doubt until an order is confirmed or ruled out. |

`CartSafety`, the cart:

| Theorem | Property | Establishes |
|---|---|---|
| `Invariance` |  | The inductive invariant of the cart: who holds a job, what the running task may take for granted of cart, order page and journals, and that every line set aside has somebody who knows of it. |
| `TypeCorrect` |  | Every variable of the cart keeps its type, for any lines, jobs and number of moves. |
| `OrdersAreExact` | `OnlyTheItemIsOrdered` | Whatever the user does to the cart between its last check and the click, no order holds another line than the item. |
| `AsideIsOnRecord` | `SetAsideIsOnRecord` | A line that was set aside by its name and has not come back is in a journal that somebody still has to act on, through failures, cancellations and restarts. |
| `PreparationsPutBack` | `PreparationPutsBack` | No way out of a preparation leaves lines set aside without an attempt to put them back, unless the task was stopped or the purchase went on. |

`WatchSafety`, the watch list and the worker:

| Theorem | Property | Establishes |
|---|---|---|
| `WatchInvariance` |  | The inductive invariant of the worker and the watch list: tasks have different ids, what is in flight is a task or a report to come, a purchase that waits or runs is the only one of its watch and holds the product, whose holder has no order yet. |
| `WatchTypes` |  | Every variable of the worker and of the watch list keeps its type, for any watches, products, delays and errors. |
| `WatchOrdersOnce` | `OneOrderPerWatch` | A watch buys at most once, whatever was queued, confirmed or started by hand meanwhile, and wherever the program stops. |
| `NoneForgotten` | `InFlightIsOutstanding` | A watch that counts as in flight has a task that will report, or a report that waits: none is left out for ever. |
| `QuietAfterStop` | `StoppedIsQuiet` | After monitoring was stopped every check that is queued or running is flagged: none goes on loading pages. |
| `WatchSlotsKept` | `WatchKeepsSlots` | The purchases that the watch list sees are those that `PurchaseSlots` promises: no watch takes a product from another buyer, none buys twice, and no restart ends a doubt. |

`StorageSafety`, the database file, notices, rows:

| Theorem | Property | Establishes |
|---|---|---|
| `DatabaseInvariance` |  | The inductive invariant of the database file: what a migration or a restore under way has done to file, log and version. |
| `VersionIsTrue` | `SchemaMatchesVersion` | The version row tells the schema of the file wherever a migration fails or the program ends, for any number of versions and restores. |
| `OldFileIsKept` | `RestoreKeepsTheOldFile` | The first restore loses nothing of the database it replaces, whenever it stops or fails. |
| `NoticeInvariance` |  | The inductive invariant of the notifications: what the log says was told was told, at the age it says. |
| `OnlyToldIsSilenced` | `SilencedOnlyIfTold` | The quiet period keeps back only news that the user has been told; an error in watching also when one was told of a product of the same title. |
| `ToldOnce` | `NotToldTwice` | No news is told twice within the quiet period while the program runs. |
| `RecordsInvariance` |  | The inductive invariant of the rows: a purchase has a rules row that no watch refers to and that still says what it was judged by; and the returns reported, with the one that may still be, are no more than the spells out of stock. |
| `RulesStayOnRecord` | `PurchasesKeepTheirRules` | Whatever is edited or removed, a purchase keeps the rules it was started under. |
| `ReturnIsToldOnce` | `OneAlertPerReturn` | One return to stock is told at most once per product, with any number of watches, looks and reports still queued. |

`ProcessSafety`, copies, browser, account:

| Theorem | Property | Establishes |
|---|---|---|
| `LaunchInvariance` |  | The inductive invariant of the launch: the lock is held from before anything else is until after everything else is let go, and by one copy. |
| `OneWorks` | `OneCopyAtWork` | Of any number of copies, one at most has the database, the worker or the browser. |
| `HiddenHasTray` | `HiddenIsReachable` | A copy that runs without its window has a tray icon to bring it back. |
| `BrowserInvariance` |  | The inductive invariant of the browser: a browser of the program is behind a context, none is left over beside it, and what one remembers goes when it closes and when the profile is cleared. |
| `ClearedForGood` | `ClearedStaysCleared` | A cleared profile is not written again by a browser that was running when it was cleared. |
| `StrangersLive` | `StrangersAreLeftAlone` | No recovery of the profile ends the user's own browser. |
| `SignInInvariance` |  | The inductive invariant of the account: what Amazon demands shows on the page it serves, and a reading begins on a page that was classified as a product only. |
| `ChallengesAreNotRead` | `ChallengeIsNeverRead` | Nothing is read out of a page that Amazon meant as a challenge, a throttle or a sign-in, whatever else the page looks like. |
| `ConnectedIsTrue` | `ConnectedIsSignedIn` | The account becomes connected only by a page of a signed-in session. |

`PagesSafety`, the guard, the product page and the order page:

| Theorem | Property | Establishes |
|---|---|---|
| `UnreadProductIsRefused` |  | What passes the check of the product has no unread part that the rules speak of, and its price is known and within the limit, for any rules and any snapshot. |
| `UnreadOrderIsRefused` |  | What passes the final check holds the lines taken for the item and no other, in the number wanted, at prices, a total, an address and a payment that were read and are allowed, for any rules and any reading of the order page. |
| `InspectionInvariance` |  | The inductive invariant of the two looks at a product: the price limit and the seller of the rules are those that were shown, and what passed is an offer that is no worse; of its condition, if the box tells of it. |
| `WhatPassesWasShown` | `WhatPassesIsWhatWasShown` | Whatever parts of either page are missed and however the market moves in between: a product that passes costs no more than was shown, is sold by the seller that was shown, is in stock, recurs only if that is allowed (a recurring offer has the words of one on its page), and is in a condition that was asked for if its box tells of it once the alternative offers are taken out. |
| `PassedOrderIsWanted` | `PassedOrderIsTheOrder` | Whatever parts of the order page are missed: the order that passes holds the item alone, in the number wanted, within the limits, to the required address. Whether it recurs is not claimed: a missed mark reads as none. |
| `CheckoutInvariance` |  | The inductive invariant of the order page: the approved total is known and affordable; from the second look at it the order costs that, unless it changes after it; an answer is about it. |
| `ChargeIsApproved` | `ChargedIsApproved` | What is charged is the approved total, although the order changes after the final check and its page is read worse the second time, unless the order changes after that second look, before the click. |
| `ChargeIsAffordable` |  | No order is placed for more than the limit of its rules, unless it changes between the second look at its total and the click. |
| `AnswerIsOurs` | `AnswerIsAboutTheOrder` | The answer is about this order, or about one in the history that cannot be told from it. |

### The arguments

*Workflow, `Inv`.* `OneOrderPerJob` is not inductive: from a state with a task
at "click" whose job was ordered before, it breaks. `TaskIsCurrent`
says what each step of a task takes for granted of its job's row. For that to
survive the steps of the GUI thread, no GUI action may move a job that has a
task; the code has no lock that would ensure it, and what does is `OneHolder`:
a job is queued once, or running, or under review, or given up by a signal still
to be handled, and no two of these. `NoStrangers` (nothing refers to a row not
created) keeps a new job apart from all that, and `FreshStart` (nothing of what
was in memory survives a stop) carries it through a restart.
`Inv` in `PurchaseInvariant` is their conjunction with `TypeOK` and the two
safety invariants. `PurchaseSafety` proves that each action preserves each
conjunct it can disturb; `Invariance` puts it together.

*Promise.* `NoSecondOrder` needs one more fact, `OneLiveJobAtATime`: two jobs of one
product are not live together, which `Start` ensures (the partial unique index
would refuse it otherwise) and `Resolve`, recovery and every other move preserve.
`StepShape` then says what a step can do to the three abstract variables: it moves
at most one job and places at most one order; and each of these cases is an action
of `OrderSafety` under the mapping. The promise is committed by the *record*, not by the click:
that is where the code puts it (`mark_submitted` before the click,
`checkout_manager.py:651`).

*Workflow, `UserInv`.* On top of `Inv`. `StepStates` says in which state of the table
each queued task and each step of the running one finds its job; the GUI thread
disturbs none of them, because it moves no job that has a task (`OneHolder`).
With it the lemma `Table` gives `LegalMoves`. `ReviewIsOnPage`
carries the reviewed product from the review to the record of the submission
(`OrderMatchesReview`), `HistoryFirst` the order of the two writes of `_confirm`
(`ConfirmedIsInHistory`). `AskedOnce` rests on two facts: the end of a task is
reported once (`OneReport`, from `OneHolder`), and a question once raised is about
a job that cannot become uncertain again (`QuestionsAreOld`), so a second
question would need a second way into `UNKNOWN`, which the table does not have.

*Workflow, `CarryInv`.* `NobodyIsForgotten` is the safety core of `EventuallyRests`:
what fairness then brings to rest is never out of everyone's hands. An exception
passes up to three handlers, each of which relies on what the one before has
decided; `CarryInv` says that it has: a report that is marked as already handled is
of a job that is decided, and a review that can be approved waits for its user.
Three facts carry it: the task that moves a job is the one that is running
(`OneHolder`), a task that ends undecided leaves a report (`WorkerEnds`), and that
report is handled by moving the job (`HandledIsDecided`).

*The two sides of `PurchaseSlots`.* A step of the workflow moves at most one job
(`StepShape`), along the table (`LegalMoves`: hence a doubt is never taken back by
a move, and an order comes from no other state than the two before it), and of a
product at most one job is live (`OneLiveJobAtATime`: hence the holder is that job,
and its end empties the slot). In `WatchMonitor`, `WatchShape` says what a step may
do to the slots and the orders; that an order is counted once and for the holder
is `HoldersHaveNoOrder` and `PurchasesHold`, and what a restart does is
`Recovered`, one slot at a time.

*Cart, `CartInv`.* `SetAsideIsOnRecord` speaks of two journals, in memory and in
the database, of which one or the other is behind. `Isolating` says that up to
`Persist` the one in memory is the truth and the click's line is in it
already; `Isolated` that from then on the two are equal, for whichever task goes on
with the job; `Restoring` that a restore looks for all that is away; `Waiting`
that a job without a task has its lines in the database. `Rechecked` - the order
page is still the one that was rechecked - gives `OnlyTheItemIsOrdered`.

*Watches, `WatchInv`.* `OneOrderPerWatch` needs more than the product's slot,
since the slot is free again after an order: `PurchasesHold` (a purchase that is
queued, or runs without an order yet, is the only one of its watch and holds the
product) and `HoldersHaveNoOrder`. `NoneAbandoned`, that a purchase's report is a
cancellation only when the thread ends, lets the slot be given back only then.
`InFlightIsOutstanding` and `StoppedIsQuiet` are inductive with the types of
tasks and reports (`WorkerInv`); what they needed are lemmas on the drain of the
queue and on the first in priority order.

*Storage.* `DatabaseInv`: each file is `Sound` by itself (its version row tells its
schema) at every statement, and what was kept is in the live file before the first
restore and in the damaged one after it (`KeptSomewhere`). `RecordsInv`: the rules
of a purchase are referred to by no watch (`OwnRules`), and the reports that bring
news of a return, with the one that an open spell still allows, are no more than
the spells (`ReturnsInv`): a count over a growing sequence, by the cardinality
theorems. `NoticeInv`: the age in the log of a key is that of the latest news told under it,
but for the piece of news on screen whose entry is not written yet (`LogIsTold`).
`SilencedBy` is then whose delivery can have kept a piece of news back.

*Processes.* `LaunchInv`: the lock outlives everything that is done under it
(`Sane`), and one copy has it. `BrowserInv`: a browser of the program is behind a
context, no other is left over beside it, and what it remembers goes with it;
hence a cleared profile has nobody left to write to it. `SignInInv`: what Amazon
demands shows among the signs on the page (`PageIsServed`), and reading begins only
on a page classified as a product; the table of `Classify` does the rest.

*Pages.* `UnreadProductIsRefused` and `UnreadOrderIsRefused` are about the guard
itself, for any rules and any reading: an unread value is never a match.
`CheckoutInv` adds that what was approved is `Affordable`, and that the re-read
total can only be the shown one or none (`SummaryIsShown`): from then on, the order
costs what was approved, unless it changes again before the click
(`submission.moved`), which the code cannot see. `ChargeIsAffordable`
is their sum.

`WhatPassesWasShown` puts the guard and the parsers together. Of a page that says
nothing that is not so, the chain of readings of the price gives none below the
asked one: the strict reading gives it or nothing, the highest price of a text is no
lower, and whole and fraction compose it, or nothing when the fraction behind a
point was missed (`StrictIsThePrice`, `CeilingIsAtLeast`,
`SplitIsThePrice`, `ReadPriceIsAtLeast`). The seller is the right one or unread,
and a recurring or a sold-out offer is never read as a better one, nor is the
condition of an offer that its box tells of (`ReadConditionIsTheCondition`,
`SnapshotIsTrue`). The guard refuses what is unread, and `InspectionInv`
remembers whose price and seller the rules are. `PassedOrderIsWanted` is the same
for the order page: no line is added or left out (`UnreadOrderIsRefused` then says
that each is the item), the units are those of the row or follow from the
subtotal, and the largest price in a row is the right one. The
least number of a set, on which "the largest price", "the first known value" and
"the newest match in the history" rest, is the lemma `LeastNatural`, by
well-founded induction.

### Model-checked only

`EventuallyRests`: fairness and liveness are beyond the prover; `NobodyIsForgotten`
is what of it is safety. Every invariant and every action property that a passing
run checks is a theorem. How a single text is read, lexeme by lexeme, is a fold; what a
fold returns for every text needs induction over data with an operator as
parameter, which the provers cannot instantiate. The theorems about the pages
therefore speak of the prices that are in a text (`ExtractPrices`) and take from
`Says` and `ShowsOrder` that the right one is among them; TLC evaluates these
assumptions for every page of the instance. The seven findings are
counterexamples. No module uses RECURSIVE.

## 5. Findings

1. **A declined review keeps its job** (`decline`). Cancelling at the confirmation
   dialog leaves the job `AWAITING_CONFIRMATION`, its product blocked and its
   set-aside lines away until the next start.
2. **An uncertain purchase is asked about at one startup only** (`unresolved`).
   What was `UNKNOWN` before the stop is not among the jobs recovery returns.
3. **The question is put twice at startup** (`asked_twice`), the second time about
   a job that may be answered by then.
4. **A purchase the user stops fails with an internal error** (`cancelled`):
   `except BaseException` in `_run_preparation` also catches
   `OperationCancelled`.
5. **The journal is not written before the moves** (`cart_interrupted`). It reaches
   the database once, after all of them; a stop in between loses the lines that
   were moved already.
6. **A stopped purchase does not put the cart back** (`cart_stopped`).
   `restore_cart` starts with `session.step`, which raises again as long as the
   cancel flag is set, and `_safe_restore` swallows it.

7. **A closed browser window breaks every later task** (`browser_retry`).
   `start()` returns the context of the closed browser as long as it is not
   `None`, and nothing sets it to `None`, although the program tells the user to
   close the window after signing in and calls the error retryable.

Met while modelling and described by the actions, without a run of their own:

* *Watches.* The settings switch "Keep watching my products" writes the setting
  and neither stops nor starts the scheduler (`SetKeepWatching`). A late check
  puts a watch that has bought back among the active ones; it never buys again
  (`OneOrderPerWatch`), but `USER_GUIDE.md:213` says it stops for good. "Stop
  watching" promises to remove the price history, which is the product's and
  stays. A watch that needs a sign-in is not resumed by reconnecting. Pause and
  resume let one watch be queued twice.
* *News.* The "back in stock" alert is lost when an unreadable look, a manual
  inspection or a look of another watch is recorded in between, or when the
  program stops between the record and the report (`OneAlertPerReturn` is "at
  most once" for that reason). A clock moved back silences news, and a stop
  between showing and recording tells it twice.
* *Money.* The pattern for trailing symbols takes the leading symbol of the next
  price: "$10.00 $20.00" reads as one amount.
* *Answers.* The search of the order history takes an older order of the same, or
  of an unreadable, total for this one (`AnswerIsAboutTheOrder` says what is left).
* *Pages.* A used offer of which only the row in the used block tells, or whose
  wording is not among the listed phrases ("collectible"), is read as new when the
  caption of the selected offer and the label are both missed: the block is taken
  out of the box before it is searched, and a box without a used phrase means new.
  `USER_GUIDE.md:109` says the purchase stops when the condition is not stated.
  The order may change between the re-reading of its total
  (`checkout_manager.py:616`) and the click (662), over a search for the button and
  a write; nothing in the code would see it (`submission.moved`). At checkout a
  subscription is known by three CSS ids (`selectors.py:921-926`), and a miss reads
  as none; what stands before it is the check of the product page, which goes by
  the words of the buy box, or of the page.
* *Errors of watches.* `monitoring_error` is keyed by the product's title only
  (`notifier.py:654`), so two errors of one product, or of two products with one
  title, silence each other within the quiet period; `notifier.py:111-113` says that
  two products never do (`SilencedBy`).
* *Account and browser.* Any failure of the second try to start the browser is
  reported as a locked profile. Connect results that were queued before Clear session mark the
  account connected afterwards; a throttle page that greets by name counts as
  signed in; "couldn't find that page" is never matched, for its apostrophe.
* *Database.* A stop between the move and the copy of a restore makes the next
  start open a new, empty file; a copy that fails half way leaves a partial one in
  its place (`CopyBackup`); a second restore deletes the earlier damaged one; a
  backup that failed half way is offered as the newest. `delete_orphans` has no
  caller, so refused purchases leave their rule sets.
* *Launch.* An activation request that arrives while the first copy shows a
  message box is dropped.
* *Purchases.* A job in `NEEDS_USER` stays there: no task, no button and no
  recovery moves it again, so its product can no longer be bought
  (`EndNeedingUser`, `Recovered`, and `RecoverInterrupted` of `PurchaseService`).
  `states.py:212` says that "the run may resume", and
  `m0001_initial.py:222` that it blocks its product "until a human resolves it".
  The user's own answer that an order was placed is two transactions
  (`purchase_service.py:776-801`): a stop between them leaves a confirmed order
  without its entry in the history (`ConfirmedIsInHistory` is about the jobs that the
  program confirms).
* *Startup.* `recover_after_restart` failing with an AppError is swallowed, and
  monitoring starts all the same.

## 6. Not modelled, and the plan

Not modelled: wording, layout and pages of the user interface, apart from the
handlers named above; diagnostics, logging and redaction, which nothing else
depends on; calls into Windows (power, toasts, autostart); busy timeouts and
pruning of the database; failures of the activity feed; the selectors
themselves, of which a chain's order and its loose members are kept;
quantities, limits of rows and the dialogs for add-ons in the cart. Five hazards
have no property: for each `PROJECT.json` says why.

Simplified, where the difference does not reach a property: the confirmation of an
order is two steps of `PurchaseService` and its mark on the watch one of
`WatchMonitor`, for the four transactions of `purchase_service.py:659-708`; the
earlier aside file of a restore is deleted in the step that moves the next one
(`main.py:237-238`); a search of the order history that verifies nothing reports
no number. And where it could, so that the property holds under it only: the
previous observation is the one inserted last, where `products.py:180-184` orders
by its time (the same, as long as the clock is not set back); the processes of a
profile are known exactly, where `browser_manager.py:430` looks for its path in
their command lines and ends the process tree; a tray icon, once shown, stays
(`HiddenIsReachable`).

What could be taken further, in this order:

1. The reading of single texts: `ExtractPrices` of a text whose lexemes are given,
   as a theorem about a fold instead of an assumption about the page.
2. An abstract specification of the cart - lines go aside and come back, an order
   takes the item - with the proof that `CartIsolation` implements it.
3. A watch's purchase as the composition of `PurchaseService` and `WatchMonitor`
   through `PurchaseSlots`, instead of two modules that each keep it.
4. Purchases that need their user: nothing in the code resumes or ends them, so the
   models let them hold their slot for ever. A version of the program with such an
   operation needs an action for it in both modules.
