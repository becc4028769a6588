--------------------------- MODULE PurchaseService ---------------------------
(***************************************************************************)
(* The purchase workflow of Cartwright: PurchaseService                    *)
(* (app/purchasing/purchase_service.py) with the three parties it works    *)
(* between.                                                                *)
(*                                                                         *)
(*  - The browser worker: one thread that runs queued tasks one at a time. *)
(*    A task is the preparation of a job or the submission of a reviewed   *)
(*    one.  Between any two steps of a task the other threads run.         *)
(*  - The GUI thread: it starts purchases, handles the worker's queued     *)
(*    signals, opens modal dialogs and carries out the user's answers.     *)
(*  - The database: what survives when the process stops.                  *)
(*  - Amazon: the checkout page the browser shows and the orders it takes. *)
(*                                                                         *)
(* The process may stop at any step.  An exception of Python is a disjunct *)
(* of its own, with the handler that catches it.                           *)
(***************************************************************************)
EXTENDS PurchaseStates, Naturals, Sequences, FiniteSets

CONSTANTS Products,   \* what can be bought
          NoProduct,  \* the page shows no checkout
          Totals,     \* order totals Amazon may show, in cents
          MaxJobs     \* bound: purchase_jobs rows

ASSUME NoProductAssumption == NoProduct \notin Products
ASSUME TotalsAssumption == Totals \subseteq Nat \ {0}
ASSUME MaxJobsAssumption == MaxJobs \in Nat

Jobs == 1 .. MaxJobs
NoJob == 0
NoTotal == 0

VARIABLES
    (* The database. *)
    state,      \* purchase_jobs.state, or "absent"
    row,        \* the immutable columns of a job
    recorded,   \* jobs with an attempt marked submitted
    ordered,    \* jobs whose order is in the order history
    answer,     \* what the user answered about an uncertain order
    testMode,   \* the Test Mode setting
    (* Amazon. *)
    placed,     \* how many orders Amazon took for a job
    page,       \* the checkout on the browser's page
    (* The worker thread. *)
    queue,      \* submitted tasks, first in first out
    job, step,  \* the running task's job and where it stands
    total,      \* SubmitAuthorization.approved_total
    cancelling, \* jobs whose queued or running task has its cancel flag set
    (* The service and the GUI thread. *)
    review,     \* the total of the review prepared for a job
    pending,    \* PurchaseService._pending
    reported,   \* PurchaseService._reported
    signals,    \* signals queued for the GUI thread
    dialogs,    \* open modal dialogs, the last on top
    act,        \* a GUI-thread call between two of its steps
    asks,       \* startup prompts still to be made by recover_after_restart
    again,      \* and then by raise_uncertain_purchases
    alive       \* "up", "stopping", "down" or "recovering"

database == <<state, row, recorded, ordered, answer, testMode>>
amazon == <<placed, page>>
worker == <<job, step, total>>
startup == <<asks, again, alive>>
vars == <<database, amazon, worker, queue, cancelling, review, pending, reported,
          signals, dialogs, act, startup>>

-----------------------------------------------------------------------------
(* Types. *)

Checkouts == [product : Products \cup {NoProduct}, total : Totals \cup {NoTotal}]
NoCheckout == [product |-> NoProduct, total |-> NoTotal]

Rows == [product : Products \cup {NoProduct}, automatic : BOOLEAN, test : BOOLEAN]
NoRow == [product |-> NoProduct, automatic |-> FALSE, test |-> FALSE]

Tasks == [job : Jobs, submit : BOOLEAN]
Signals == [kind : {"ready", "uncertain", "failed", "cancelled"}, job : Jobs]
Dialogs == [kind : {"confirm", "uncertain"}, job : Jobs]

(* The preparation sequence, then the submission. *)
PrepareSteps == {"inspect", "rules", "cart", "checkout", "final", "decide"}
RecheckSteps == {"recheck", "live", "begin"}
SubmitSteps == {"press", "record", "click", "respond"}
OutcomeSteps == {"unverified", "order", "settle"}
Steps == PrepareSteps \cup RecheckSteps \cup SubmitSteps \cup OutcomeSteps

NoAct == [op |-> "idle", job |-> NoJob]

DatabaseTypes ==
    /\ state \in [Jobs -> States \cup {"absent"}]
    /\ row \in [Jobs -> Rows]
    /\ recorded \subseteq Jobs
    /\ ordered \subseteq Jobs
    /\ answer \in [Jobs -> {"none", "placed", "not_placed"}]
    /\ testMode \in BOOLEAN

AmazonTypes ==
    /\ placed \in [Jobs -> Nat]
    /\ page \in Checkouts

WorkerTypes ==
    /\ queue \in Seq(Tasks)
    /\ job \in Jobs \cup {NoJob}
    /\ step \in Steps \cup {"idle"}
    /\ job = NoJob <=> step = "idle"
    /\ total \in Totals \cup {NoTotal}
    /\ cancelling \subseteq Jobs

ServiceTypes ==
    /\ review \in [Jobs -> Totals \cup {NoTotal}]
    /\ pending \subseteq Jobs
    /\ reported \subseteq Jobs
    /\ signals \in Seq(Signals)

WindowTypes ==
    /\ dialogs \in Seq(Dialogs)
    /\ act \in [op : {"idle", "stop", "history"}, job : Jobs \cup {NoJob}]
    /\ act.job = NoJob <=> act.op = "idle"
    /\ asks \in Seq(Jobs)
    /\ again \in Seq(Jobs)
    /\ alive \in {"up", "stopping", "down", "recovering"}

TypeOK == DatabaseTypes /\ AmazonTypes /\ WorkerTypes /\ ServiceTypes /\ WindowTypes

Init ==
    /\ state = [j \in Jobs |-> "absent"]
    /\ row = [j \in Jobs |-> NoRow]
    /\ recorded = {}
    /\ ordered = {}
    /\ answer = [j \in Jobs |-> "none"]
    /\ testMode \in BOOLEAN
    /\ placed = [j \in Jobs |-> 0]
    /\ page = NoCheckout
    /\ queue = <<>>
    /\ job = NoJob /\ step = "idle" /\ total = NoTotal
    /\ cancelling = {}
    /\ review = [j \in Jobs |-> NoTotal]
    /\ pending = {}
    /\ reported = {}
    /\ signals = <<>>
    /\ dialogs = <<>>
    /\ act = NoAct
    /\ asks = <<>>
    /\ again = <<>>
    /\ alive = "up"

-----------------------------------------------------------------------------
(* The database's transitions and the worker's signals. *)

(* PurchaseRepository.transition.  That the move is legal is not a guard    *)
(* here: an illegal one raises, and LegalMoves says none is ever attempted. *)
Move(j, s) == state' = [state EXCEPT ![j] = s]

Signal(k, j) == [kind |-> k, job |-> j]

(* A queued signal; with the GUI's event loop over, nobody will handle it.  *)
Emit(emitted) == signals' = IF alive = "stopping" THEN signals ELSE signals \o emitted

(* The running task goes on to its next step. *)
Goto(s) == step' = s /\ UNCHANGED <<job, cancelling>>

(* Mutant: the loop forgets that the task is over. *)
EndTask_StepKept ==
    /\ job' = NoJob /\ total' = NoTotal /\ UNCHANGED step
    /\ cancelling' = cancelling \ {job}

(* The running task returns or raises; its cancel flag goes with it. *)
EndTask ==
    /\ job' = NoJob /\ step' = "idle" /\ total' = NoTotal
    /\ cancelling' = cancelling \ {job}

(* session.step() at the start of the current step lets the task go on. *)
NotCancelled == job \notin cancelling

(* The service's work on the GUI thread. *)
gui == <<pending, dialogs, act, startup>>

(* _mark_uncertain: idempotent, and asks the user only the first time. *)
Uncertain(j) == IF state[j] = "unknown" THEN <<>> ELSE <<Signal("uncertain", j)>>

-----------------------------------------------------------------------------
(* Starting a purchase. *)

(* Mutant: an unknown outcome does not hold the product's slot. *)
Occupied_UnknownFreesSlot(p) ==
    \E j \in Jobs : row[j].product = p /\ state[j] \in LiveStates \ {"unknown"}

Occupied(p) == \E j \in Jobs : row[j].product = p /\ state[j] \in LiveStates

(* PurchaseService.start on the GUI thread: by the user when no dialog is in *)
(* the way, or by a watch.  The unique index refuses a second live job.      *)
Start(p, automatic) ==
    /\ alive = "up" /\ act = NoAct
    /\ automatic \/ (dialogs = <<>> /\ asks = <<>>)
    /\ ~Occupied(p)
    /\ \E j \in Jobs :
        /\ state[j] = "absent"
        /\ \A i \in Jobs : i < j => state[i] # "absent"
        /\ Move(j, "created")
        /\ row' = [row EXCEPT ![j] = [product |-> p, automatic |-> automatic,
                                      test |-> testMode]]
        /\ queue' = Append(queue, [job |-> j, submit |-> FALSE])
    /\ UNCHANGED <<recorded, ordered, answer, testMode, amazon, worker, cancelling,
                   review, pending, reported, signals, dialogs, act, startup>>

-----------------------------------------------------------------------------
(* The worker takes a task. *)

(* _execute of a task whose flag was set while it was queued, or for which   *)
(* the browser could not be started: nothing of the task itself runs.        *)
SkipTask ==
    /\ alive \in {"up", "recovering"} /\ job = NoJob /\ queue # <<>>
    /\ queue' = Tail(queue)
    /\ cancelling' = cancelling \ {Head(queue).job}
    /\ Emit(<<Signal(IF Head(queue).job \in cancelling THEN "cancelled" ELSE "failed",
                     Head(queue).job)>>)
    /\ UNCHANGED <<database, amazon, worker, review, reported, gui>>

(* _run_preparation begins, or the _submit of a confirmed review does. *)
TakeTask ==
    /\ alive \in {"up", "recovering"} /\ job = NoJob /\ queue # <<>>
    /\ Head(queue).job \notin cancelling
    /\ queue' = Tail(queue)
    /\ job' = Head(queue).job
    /\ IF Head(queue).submit
       THEN step' = "recheck" /\ UNCHANGED state
       ELSE step' = "inspect" /\ Move(job', "product_check")
    /\ UNCHANGED <<row, recorded, ordered, answer, testMode, amazon, total,
                   cancelling, review, reported, signals, gui>>

-----------------------------------------------------------------------------
(* The preparation sequence. *)

Inspect ==
    /\ step = "inspect" /\ NotCancelled
    /\ Move(job, "rule_validation") /\ Goto("rules")
    /\ page' = NoCheckout
    /\ UNCHANGED <<row, recorded, ordered, answer, testMode, placed, total, queue,
                   review, reported, signals, gui>>

CheckRules ==
    /\ step = "rules" /\ NotCancelled
    /\ Goto("cart")
    /\ UNCHANGED <<database, amazon, total, queue, review, reported, signals, gui>>

PlanCart ==
    /\ step = "cart" /\ NotCancelled
    /\ Move(job, "cart_preparation") /\ Goto("checkout")
    /\ UNCHANGED <<row, recorded, ordered, answer, testMode, amazon, total, queue,
                   review, reported, signals, gui>>

(* prepare_purchase reaches the final review page without ordering. *)
PrepareCheckout ==
    /\ step = "checkout" /\ NotCancelled
    /\ \E t \in Totals :
        /\ page' = [product |-> row[job].product, total |-> t]
        /\ review' = [review EXCEPT ![job] = t]
    /\ Move(job, "checkout") /\ Goto("final")
    /\ UNCHANGED <<row, recorded, ordered, answer, testMode, placed, total, queue,
                   reported, signals, gui>>

EnterFinalValidation ==
    /\ step = "final"
    /\ Move(job, "final_validation") /\ Goto("decide")
    /\ UNCHANGED <<row, recorded, ordered, answer, testMode, amazon, total, queue,
                   review, reported, signals, gui>>

(* The final checks pass for an assisted purchase: the review is handed over. *)
AwaitConfirmation ==
    /\ step = "decide" /\ NotCancelled
    /\ ~row[job].test /\ ~row[job].automatic
    /\ pending' = pending \cup {job}
    /\ Move(job, "awaiting_confirmation") /\ Emit(<<Signal("ready", job)>>)
    /\ EndTask
    /\ UNCHANGED <<row, recorded, ordered, answer, testMode, amazon, queue, review,
                   reported, dialogs, act, startup>>

(* They pass for an automatic one: it continues in the same task. *)
SubmitAutomatically ==
    /\ step = "decide" /\ NotCancelled
    /\ ~row[job].test /\ row[job].automatic
    /\ Goto("recheck")
    /\ UNCHANGED <<database, amazon, total, queue, review, reported, signals, gui>>

(* _finish_test_run, whatever the final checks said. *)
FinishTestRun ==
    /\ step = "decide" /\ NotCancelled
    /\ row[job].test
    /\ Move(job, "cancelled") /\ EndTask
    /\ UNCHANGED <<row, recorded, ordered, answer, testMode, amazon, queue, review,
                   reported, signals, gui>>

(* A guard phase does not pass, or the cart is in the way. *)
Block ==
    /\ step \in {"rules", "cart", "checkout", "decide", "recheck"} /\ NotCancelled
    /\ step = "decide" => ~row[job].test
    /\ Move(job, "blocked") /\ EndTask
    /\ UNCHANGED <<row, recorded, ordered, answer, testMode, amazon, queue, review,
                   reported, signals, gui>>

-----------------------------------------------------------------------------
(* The submission: _submit, then AmazonAdapter.submit_order. *)

(* Mutants: the total, or the item, is not compared again. *)
RecheckPasses_TotalNotCompared == page.product = row[job].product
RecheckPasses_ItemNotIdentified == page.total = review[job]

(* refresh_checkout re-reads the page on screen; check_final finds the item  *)
(* in it and verify_total_unchanged compares it with the reviewed total.     *)
RecheckPasses ==
    /\ page.product = row[job].product
    /\ page.total = review[job]

Recheck ==
    /\ step = "recheck" /\ NotCancelled
    /\ RecheckPasses
    /\ total' = page.total
    /\ Goto("live")
    /\ UNCHANGED <<database, amazon, queue, review, reported, signals, gui>>

TestModeNow == testMode \/ row[job].test

(* Test Mode is read from the settings, not from when the job was started. *)
StopForTestMode ==
    /\ step = "live" /\ TestModeNow
    /\ Move(job, "cancelled") /\ EndTask
    /\ reported' = reported \cup {job}
    /\ UNCHANGED <<row, recorded, ordered, answer, testMode, amazon, queue, review,
                   signals, gui>>

PassTestMode ==
    /\ step = "live" /\ ~TestModeNow
    /\ Goto("begin")
    /\ UNCHANGED <<database, amazon, total, queue, review, reported, signals, gui>>

(* Mutant: the submission goes on before the job says that one has begun. *)
BeginAttempt_StateLater ==
    /\ step = "begin"
    /\ Goto("press")
    /\ UNCHANGED <<database, amazon, total, queue, review, reported, signals, gui>>

(* begin_attempt opens a row that says nothing yet, and SUBMITTING is entered. *)
BeginAttempt ==
    /\ step = "begin"
    /\ Move(job, "submitting") /\ Goto("press")
    /\ UNCHANGED <<row, recorded, ordered, answer, testMode, amazon, total, queue,
                   review, reported, signals, gui>>

(* CheckoutManager.submit: the total on the page must be the approved one. *)
FindButton ==
    /\ step = "press" /\ NotCancelled
    /\ page.total = total
    /\ Goto("record")
    /\ UNCHANGED <<database, amazon, total, queue, review, reported, signals, gui>>

(* Mutant: the click is reached before anything is recorded. *)
RecordSubmission_NotPersisted ==
    /\ step = "record"
    /\ state[job] \in SubmitRecordStates /\ job \notin recorded
    /\ Goto("click")
    /\ UNCHANGED <<database, amazon, total, queue, review, reported, signals, gui>>

(* mark_submitted: the record precedes the click. *)
RecordSubmission ==
    /\ step = "record"
    /\ state[job] \in SubmitRecordStates /\ job \notin recorded
    /\ recorded' = recorded \cup {job}
    /\ Goto("click")
    /\ UNCHANGED <<state, row, ordered, answer, testMode, amazon, total, queue,
                   review, reported, signals, gui>>

(* The click reaches Amazon, which takes the order or does not. *)
Click ==
    /\ step = "click"
    /\ \E taken \in {0, 1} : placed' = [placed EXCEPT ![job] = @ + taken]
    /\ page' = NoCheckout
    /\ Goto("respond")
    /\ UNCHANGED <<database, total, queue, review, reported, signals, gui>>

(* read_confirmation and the order history say the order is there, or cannot *)
(* say.  Either may happen whatever Amazon did: pages fail to load, and the  *)
(* history may show an older order with the same total.                      *)
ReadResponse ==
    /\ step = "respond" /\ NotCancelled
    /\ Move(job, "confirming")
    /\ \E verified \in BOOLEAN : Goto(IF verified THEN "order" ELSE "unverified")
    /\ UNCHANGED <<row, recorded, ordered, answer, testMode, amazon, total, queue,
                   review, reported, signals, gui>>

MarkUncertain ==
    /\ step = "unverified"
    /\ Emit(Uncertain(job)) /\ Move(job, "unknown") /\ EndTask
    /\ UNCHANGED <<row, recorded, ordered, answer, testMode, amazon, queue, review,
                   reported, gui>>

(* Mutant: the job is confirmed first and its order written down after. *)
RecordOrder_ConfirmedFirst ==
    /\ step = "order"
    /\ Move(job, "confirmed")
    /\ Goto("settle")
    /\ UNCHANGED <<row, recorded, ordered, answer, testMode, amazon, total, queue,
                   review, reported, signals, gui>>

(* OrderRepository.record *)
RecordOrder ==
    /\ step = "order"
    /\ ordered' = ordered \cup {job}
    /\ Goto("settle")
    /\ UNCHANGED <<state, row, recorded, answer, testMode, amazon, total, queue,
                   review, reported, signals, gui>>

Confirm ==
    /\ step = "settle"
    /\ Move(job, "confirmed") /\ EndTask
    /\ UNCHANGED <<row, recorded, ordered, answer, testMode, amazon, queue, review,
                   reported, signals, gui>>

-----------------------------------------------------------------------------
(* Exceptions on the worker thread, by what is raised and who catches it. *)

NavigatingSteps == {"inspect", "cart", "checkout", "decide", "recheck", "live"}
CancelPoints ==
    {"inspect", "rules", "cart", "checkout", "decide", "recheck", "press", "respond"}

(* AppErrors, some of which ask for the user; OperationCancelled at the      *)
(* named steps of a task whose flag is set; anything else anywhere.          *)
Raised(e) ==
    \/ e \in {"app", "unexpected"} /\ step # "idle"
    \/ e = "needs_user" /\ step \in NavigatingSteps
    \/ e = "cancelled" /\ step \in CancelPoints /\ ~NotCancelled

(* The frames below: an automatic submission runs inside _run_preparation. *)
InPreparation == step \in PrepareSteps \/ row[job].automatic

(* What _execute reports when an exception leaves the task. *)
Report(e) == <<Signal(IF e = "cancelled" THEN "cancelled" ELSE "failed", job)>>

(* _submit catches an AppError of submit_order and decides by the record. *)
CatchSubmitError ==
    /\ step \in SubmitSteps /\ Raised("app")
    /\ IF job \in recorded
       THEN Emit(Uncertain(job)) /\ Move(job, "unknown")
       ELSE Move(job, "failed") /\ UNCHANGED signals
    /\ EndTask
    /\ UNCHANGED <<row, recorded, ordered, answer, testMode, amazon, queue, review,
                   reported, gui>>

(* Mutant: the job is not marked as reported. *)
CatchPreparationError_NotMarked(e) ==
    /\ e \in {"app", "needs_user"} /\ Raised(e)
    /\ step \notin SubmitSteps /\ InPreparation
    /\ IF state[job] \in OrderMayExist
       THEN Emit(Uncertain(job) \o Report(e)) /\ Move(job, "unknown")
       ELSE /\ Emit(Report(e))
            /\ Move(job, IF e = "needs_user" THEN "needs_user" ELSE "failed")
    /\ EndTask
    /\ UNCHANGED <<row, recorded, ordered, answer, testMode, amazon, queue, review,
                   reported, gui>>

(* _handle_preparation_error; the error is raised on and reported too. *)
CatchPreparationError(e) ==
    /\ e \in {"app", "needs_user"} /\ Raised(e)
    /\ step \notin SubmitSteps /\ InPreparation
    /\ reported' = reported \cup {job}
    /\ IF state[job] \in OrderMayExist
       THEN Emit(Uncertain(job) \o Report(e)) /\ Move(job, "unknown")
       ELSE /\ Emit(Report(e))
            /\ Move(job, IF e = "needs_user" THEN "needs_user" ELSE "failed")
    /\ EndTask
    /\ UNCHANGED <<row, recorded, ordered, answer, testMode, amazon, queue, review,
                   gui>>

(* PurchaseService._fail, by the thread that shows or queues the question. *)
FailTo(j) ==
    IF state[j] \in TerminalStates THEN state[j]
    ELSE IF state[j] \in OrderMayExist THEN "unknown" ELSE "failed"

(* "except BaseException" of _run_preparation: the job fails, and the        *)
(* exception goes on to the worker, which wraps or reports it.               *)
CatchUnexpected(e) ==
    /\ e \in {"unexpected", "cancelled"} /\ Raised(e)
    /\ InPreparation
    /\ reported' = reported \cup {job}
    /\ Emit((IF FailTo(job) = "unknown" THEN Uncertain(job) ELSE <<>>) \o Report(e))
    /\ Move(job, FailTo(job)) /\ EndTask
    /\ UNCHANGED <<row, recorded, ordered, answer, testMode, amazon, queue, review,
                   gui>>

(* Mutant: the worker thread swallows the exception without reporting it. *)
LeaveTask_Unreported(e) ==
    /\ Raised(e) /\ ~InPreparation
    /\ step \in SubmitSteps => e # "app"
    /\ EndTask
    /\ UNCHANGED <<database, amazon, queue, review, reported, signals, gui>>

(* Nothing in a confirmed job's _submit catches it: only the worker reports. *)
LeaveTask(e) ==
    /\ Raised(e) /\ ~InPreparation
    /\ step \in SubmitSteps => e # "app"
    /\ Emit(Report(e)) /\ EndTask
    /\ UNCHANGED <<database, amazon, queue, review, reported, gui>>

WorkerStep ==
    \/ SkipTask \/ TakeTask
    \/ Inspect \/ CheckRules \/ PlanCart \/ PrepareCheckout \/ EnterFinalValidation
    \/ AwaitConfirmation \/ SubmitAutomatically \/ FinishTestRun \/ Block
    \/ Recheck \/ StopForTestMode \/ PassTestMode \/ BeginAttempt
    \/ FindButton \/ RecordSubmission \/ Click \/ ReadResponse
    \/ MarkUncertain \/ RecordOrder \/ Confirm
    \/ CatchSubmitError
    \/ \E e \in {"app", "needs_user"} : CatchPreparationError(e)
    \/ \E e \in {"unexpected", "cancelled"} : CatchUnexpected(e)
    \/ \E e \in {"app", "needs_user", "unexpected", "cancelled"} : LeaveTask(e)

-----------------------------------------------------------------------------
(* The GUI thread handles the worker's signals, in order. *)

GuiRuns == alive \in {"up", "recovering"} /\ act = NoAct

Receives(k) == GuiRuns /\ signals # <<>> /\ Head(signals).kind = k
Received == Head(signals).job
Open(k, j) == Append(dialogs, [kind |-> k, job |-> j])

(* MainWindow._on_ready_for_confirmation opens the confirmation dialog. *)
OnReady ==
    /\ Receives("ready")
    /\ dialogs' = Open("confirm", Received)
    /\ signals' = Tail(signals)
    /\ UNCHANGED <<database, amazon, worker, queue, cancelling, review, pending,
                   reported, act, startup>>

(* MainWindow._on_purchase_uncertain asks what happened. *)
OnUncertain ==
    /\ Receives("uncertain")
    /\ dialogs' = Open("uncertain", Received)
    /\ signals' = Tail(signals)
    /\ UNCHANGED <<database, amazon, worker, queue, cancelling, review, pending,
                   reported, act, startup>>

(* Mutant: the question is raised again for a job already uncertain. *)
SettleAs_AsksAgain(j, s) ==
    /\ Move(j, s)
    /\ dialogs' = IF s = "unknown" THEN Open("uncertain", j) ELSE dialogs

(* The service's own signal on its own thread: the slot runs at once. *)
SettleAs(j, s) ==
    /\ Move(j, s)
    /\ dialogs' = IF s = "unknown" /\ state[j] # "unknown"
                  THEN Open("uncertain", j) ELSE dialogs

(* _on_failed: what the task has already decided is not decided again. *)
OnFailed ==
    /\ Receives("failed")
    /\ signals' = Tail(signals)
    /\ pending' = pending \ {Received}
    /\ reported' = reported \ {Received}
    /\ IF Received \in reported
       THEN UNCHANGED <<state, dialogs>>
       ELSE SettleAs(Received, FailTo(Received))
    /\ UNCHANGED <<row, recorded, ordered, answer, testMode, amazon, worker, queue,
                   cancelling, review, act, startup>>

(* Mutants: a finished job is cancelled; a possible order is. *)
CancelTo_EvenIfFinished(j) == IF state[j] \in OrderMayExist THEN "unknown" ELSE "cancelled"
CancelTo_EvenIfOrdered(j) == IF state[j] \in TerminalStates THEN state[j] ELSE "cancelled"

CancelTo(j) ==
    IF state[j] \in TerminalStates THEN state[j]
    ELSE IF state[j] \in OrderMayExist THEN "unknown" ELSE "cancelled"

(* _on_cancelled *)
OnCancelled ==
    /\ Receives("cancelled")
    /\ signals' = Tail(signals)
    /\ pending' = pending \ {Received}
    /\ SettleAs(Received, CancelTo(Received))
    /\ UNCHANGED <<row, recorded, ordered, answer, testMode, amazon, worker, queue,
                   cancelling, review, reported, act, startup>>

-----------------------------------------------------------------------------
(* The user, through the GUI thread. *)

Top == dialogs[Len(dialogs)]
Close == SubSeq(dialogs, 1, Len(dialogs) - 1)
Answering(k) == GuiRuns /\ dialogs # <<>> /\ Top.kind = k

(* Mutant: the review is looked up and stays pending. *)
Accept_ReviewKept ==
    /\ Answering("confirm")
    /\ dialogs' = Close
    /\ queue' = IF Top.job \in pending
                THEN Append(queue, [job |-> Top.job, submit |-> TRUE])
                ELSE queue
    /\ UNCHANGED <<database, amazon, worker, cancelling, review, pending, reported,
                   signals, act, startup>>

(* PurchaseService.confirm: a review that is still pending is queued for     *)
(* submission, anything else is refused.                                     *)
Accept ==
    /\ Answering("confirm")
    /\ dialogs' = Close
    /\ pending' = pending \ {Top.job}
    /\ queue' = IF /\ Top.job \in pending
                   /\ state[Top.job] = "awaiting_confirmation"
                   /\ Top.job \notin recorded
                THEN Append(queue, [job |-> Top.job, submit |-> TRUE])
                ELSE queue
    /\ UNCHANGED <<database, amazon, worker, cancelling, review, reported, signals,
                   act, startup>>

(* PurchaseService.cancel reads the state of the job ... *)
Stoppable(j) == state[j] \in LiveStates \ OrderMayExist

Decline ==
    /\ Answering("confirm")
    /\ dialogs' = Close
    /\ act' = IF Stoppable(Top.job) THEN [op |-> "stop", job |-> Top.job] ELSE NoAct
    /\ UNCHANGED <<database, amazon, worker, queue, cancelling, review, pending,
                   reported, signals, startup>>

(* ... the same as a call of its own ...                                     *)
RequestCancel(j) ==
    /\ GuiRuns /\ alive = "up"
    /\ Stoppable(j)
    /\ act' = [op |-> "stop", job |-> j]
    /\ UNCHANGED <<database, amazon, worker, queue, cancelling, review, pending,
                   reported, signals, dialogs, startup>>

(* ... and then flags its task, if there is one, and forgets the review.     *)
HasTask(j) == job = j \/ \E i \in 1 .. Len(queue) : queue[i].job = j

FinishCancel ==
    /\ alive \in {"up", "recovering"} /\ act.op = "stop"
    /\ cancelling' = IF HasTask(act.job) THEN cancelling \cup {act.job} ELSE cancelling
    /\ pending' = pending \ {act.job}
    /\ act' = NoAct
    /\ UNCHANGED <<database, amazon, worker, queue, review, reported, signals,
                   dialogs, startup>>

(* The uncertain-order dialog: resolve_uncertain with the user's answer.  An *)
(* answer for a job that is no longer uncertain is refused.                  *)
Resolve(verdict) ==
    /\ Answering("uncertain")
    /\ dialogs' = Close
    /\ IF state[Top.job] = "unknown"
       THEN /\ Move(Top.job, IF verdict = "placed" THEN "confirmed" ELSE "failed")
            /\ answer' = [answer EXCEPT ![Top.job] = verdict]
            /\ act' = IF verdict = "placed"
                      THEN [op |-> "history", job |-> Top.job] ELSE NoAct
       ELSE UNCHANGED <<state, answer, act>>
    /\ UNCHANGED <<row, recorded, ordered, testMode, amazon, worker, queue,
                   cancelling, review, pending, reported, signals, startup>>

(* record_user_confirmed, a second transaction. *)
RecordUserConfirmed ==
    /\ alive \in {"up", "recovering"} /\ act.op = "history"
    /\ ordered' = ordered \cup {act.job}
    /\ act' = NoAct
    /\ UNCHANGED <<state, row, recorded, answer, testMode, amazon, worker, queue,
                   cancelling, review, pending, reported, signals, dialogs, startup>>

(* "Decide later" *)
DecideLater ==
    /\ Answering("uncertain")
    /\ dialogs' = Close
    /\ UNCHANGED <<database, amazon, worker, queue, cancelling, review, pending,
                   reported, signals, act, startup>>

SwitchTestMode ==
    /\ GuiRuns /\ alive = "up"
    /\ testMode' = ~testMode
    /\ UNCHANGED <<state, row, recorded, ordered, answer, amazon, worker, queue,
                   cancelling, review, pending, reported, signals, dialogs, act,
                   startup>>

-----------------------------------------------------------------------------
(* The process stops and starts. *)

(* AppContext.shutdown: the event loop is over and every task is flagged. *)
Shutdown ==
    /\ GuiRuns
    /\ alive' = "stopping"
    /\ cancelling' = {j \in Jobs : HasTask(j)}
    /\ signals' = <<>> /\ dialogs' = <<>> /\ asks' = <<>> /\ again' = <<>>
    /\ UNCHANGED <<database, amazon, worker, queue, review, pending, reported, act>>

(* The process exits, crashes or is killed: memory and the page are gone. *)
ProcessStops ==
    /\ alive # "down"
    /\ alive' = "down"
    /\ page' = NoCheckout
    /\ queue' = <<>>
    /\ job' = NoJob /\ step' = "idle" /\ total' = NoTotal
    /\ cancelling' = {}
    /\ review' = [j \in Jobs |-> NoTotal]
    /\ pending' = {} /\ reported' = {}
    /\ signals' = <<>> /\ dialogs' = <<>> /\ act' = NoAct
    /\ asks' = <<>> /\ again' = <<>>
    /\ UNCHANGED <<database, placed>>

Restart ==
    /\ alive = "down"
    /\ alive' = "recovering"
    /\ UNCHANGED <<database, amazon, worker, queue, cancelling, review, pending,
                   reported, signals, dialogs, act, asks, again>>

Interrupted == {j \in Jobs : state[j] \in PreparingStates \cup {"submitting", "confirming"}}

(* Mutant: every interrupted job is failed, as if nothing was ordered. *)
RecoverInterrupted_AllFailed(j) ==
    /\ alive = "recovering" /\ j \in Interrupted
    /\ Move(j, "failed")
    /\ UNCHANGED <<row, recorded, ordered, answer, testMode, amazon, worker, queue,
                   cancelling, review, pending, reported, signals, dialogs, act, asks,
                   again, alive>>

(* PurchaseRepository.recover_interrupted, one row and transaction at a time. *)
RecoverInterrupted(j) ==
    /\ alive = "recovering" /\ j \in Interrupted
    /\ IF state[j] \in {"submitting", "confirming"} \/ j \in recorded
       THEN /\ Move(j, "unknown")
            /\ asks' = Append(asks, j) /\ again' = Append(again, j)
       ELSE /\ Move(j, "failed")
            /\ UNCHANGED <<asks, again>>
    /\ UNCHANGED <<row, recorded, ordered, answer, testMode, amazon, worker, queue,
                   cancelling, review, pending, reported, signals, dialogs, act, alive>>

(* Each prompt is a modal call: the next one waits for its dialog to close. *)
PromptAtStartup ==
    /\ GuiRuns
    /\ alive = "recovering" => Interrupted = {}
    /\ asks # <<>> /\ dialogs = <<>>
    /\ dialogs' = Open("uncertain", Head(asks))
    /\ asks' = Tail(asks)
    /\ UNCHANGED <<database, amazon, worker, queue, cancelling, review, pending,
                   reported, signals, act, again, alive>>

(* recover_after_restart has made its prompts; the window makes them again. *)
StartupDone ==
    /\ alive = "recovering" /\ act = NoAct
    /\ Interrupted = {} /\ asks = <<>> /\ dialogs = <<>>
    /\ alive' = "up"
    /\ asks' = again /\ again' = <<>>
    /\ UNCHANGED <<database, amazon, worker, queue, cancelling, review, pending,
                   reported, signals, dialogs, act>>

-----------------------------------------------------------------------------
(* Amazon and the browser's other work. *)

Reprice ==
    /\ page # NoCheckout
    /\ \E t \in Totals : page' = [page EXCEPT !.total = t]
    /\ UNCHANGED <<database, placed, worker, queue, cancelling, review, pending,
                   reported, signals, dialogs, act, startup>>

(* An inspection or a watch's check takes the browser to another page. *)
OtherTask ==
    /\ job = NoJob /\ alive = "up"
    /\ page' = NoCheckout
    /\ UNCHANGED <<database, placed, worker, queue, cancelling, review, pending,
                   reported, signals, dialogs, act, startup>>

-----------------------------------------------------------------------------

HandleSignal == OnReady \/ OnUncertain \/ OnFailed \/ OnCancelled
FinishCall == FinishCancel \/ RecordUserConfirmed

UserStep ==
    \/ \E p \in Products, automatic \in BOOLEAN : Start(p, automatic)
    \/ \E j \in Jobs : RequestCancel(j)
    \/ Accept \/ Decline \/ DecideLater
    \/ \E verdict \in {"placed", "not_placed"} : Resolve(verdict)
    \/ SwitchTestMode

StartupStep ==
    \/ \E j \in Jobs : RecoverInterrupted(j)
    \/ PromptAtStartup \/ StartupDone

Next ==
    \/ WorkerStep \/ HandleSignal \/ FinishCall \/ UserStep
    \/ Shutdown \/ ProcessStops \/ Restart \/ StartupStep
    \/ Reprice \/ OtherTask

Spec == Init /\ [][Next]_vars

(* While the process runs its two threads do: a call once begun is finished, *)
(* and Qt's event queue, first in first out, serves a queued signal however  *)
(* often the user calls in between.  The user, Amazon and the machine owe    *)
(* nothing.                                                                  *)
Fairness ==
    /\ WF_vars(WorkerStep)
    /\ WF_vars(FinishCall) /\ SF_vars(HandleSignal)
    /\ WF_vars(StartupStep)

FairSpec == Spec /\ Fairness
=============================================================================
