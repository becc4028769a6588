--------------------------- MODULE CartIsolation ---------------------------
(***************************************************************************)
(* Cart isolation: how a purchase keeps the other lines of the user's      *)
(* Amazon cart out of the order, and how they come back                    *)
(* (app/automation/cart_manager.py, the callers in amazon_adapter.py and   *)
(* purchase_service.py, and AppContext._restore_pending_carts).            *)
(*                                                                         *)
(*  - The worker thread runs one task: a preparation, the submission of a  *)
(*    confirmed review, or a restore queued at startup.  It keeps the      *)
(*    isolation journal of its job in memory.                              *)
(*  - The database keeps a journal for every job.                          *)
(*  - The cart and "Saved for later" are Amazon's.  The user changes them  *)
(*    too, at any time, from any device.                                   *)
(*                                                                         *)
(* A line is known by its ASIN; quantities are left to the guard.  A       *)
(* reading of the cart page may miss the ASIN of a line: such a line is    *)
(* foreign, goes into the journal without a name, and the row clicked for  *)
(* it is the first one on the page.                                        *)
(***************************************************************************)
EXTENDS Naturals, FiniteSets

CONSTANTS Asins,     \* the lines a cart may hold, and what may be bought
          NoAsin,    \* a line, or a target, that has no readable name
          MaxJobs,   \* bound: purchase jobs
          MaxMoves   \* range(25) of set_aside_foreign_items, made small

ASSUME NoAsinAssumption == NoAsin \notin Asins
ASSUME JobsAssumption == MaxJobs \in Nat
ASSUME MovesAssumption == MaxMoves \in Nat

Jobs == 1 .. MaxJobs
NoJob == 0

VARIABLES
    (* Amazon. *)
    cart, saved,  \* the active cart and "Saved for later"
    checkout,     \* the lines of the order page on screen
    bought,       \* the lines ordered for each job
    (* The database. *)
    phase,        \* how far a job is
    target,       \* what it buys
    allowed,      \* may other lines be set aside for it
    stored,       \* isolation_journal_json
    (* The worker thread and its task. *)
    job, task,    \* whose task it is, and of which kind
    pc,           \* where it stands
    journal,      \* the IsolationJournal object
    pick, tries,  \* the line being moved, the moves made
    wanted,       \* what the restore still looks for
    cancelled,    \* the task's cancel flag
    (* The process. *)
    restores,     \* restores queued at startup
    alive,
    (* History: what was set aside for a job and not put back by anyone. *)
    away

amazon == <<cart, saved, checkout, bought>>
database == <<phase, target, allowed, stored>>
worker == <<job, task, pc, journal, pick, tries, wanted, cancelled>>
vars == <<amazon, database, worker, restores, alive, away>>

Journals == [aside : SUBSET (Asins \cup {NoAsin}), restored : BOOLEAN]
NoJournal == [aside |-> {}, restored |-> FALSE]

(* IsolationJournal.has_pending_restore *)
PendingRestore(j) == j.aside # {} /\ ~j.restored

(* "undo" is a call of restore_cart, "safe" one of _safe_restore. *)
Steps == {"plan", "buy", "aside", "click", "persist", "add", "verify", "proceed",
          "final", "recheck", "order", "confirming", "undo", "safe", "restoring"}

TypeOK ==
    /\ cart \subseteq Asins /\ saved \subseteq Asins /\ checkout \subseteq Asins
    /\ bought \in [Jobs -> SUBSET Asins]
    /\ phase \in [Jobs -> {"absent", "running", "awaiting", "confirmed", "over"}]
    /\ target \in [Jobs -> Asins \cup {NoAsin}]
    /\ allowed \in [Jobs -> BOOLEAN]
    /\ stored \in [Jobs -> Journals]
    /\ job \in Jobs \cup {NoJob}
    /\ task \in {"none", "prepare", "submit", "restore"}
    /\ pc \in Steps \cup {"idle"}
    /\ (job = NoJob) <=> (pc = "idle")
    /\ journal \in Journals
    /\ pick \in Asins \cup {NoAsin}
    /\ tries \in 0 .. MaxMoves
    /\ wanted \subseteq Asins
    /\ cancelled \in BOOLEAN
    /\ restores \subseteq Jobs
    /\ alive \in BOOLEAN
    /\ away \in [Jobs -> SUBSET Asins]

NoTask ==
    /\ job = NoJob /\ task = "none" /\ pc = "idle"
    /\ journal = NoJournal /\ pick = NoAsin /\ tries = 0
    /\ wanted = {} /\ cancelled = FALSE

Init ==
    /\ cart \in SUBSET Asins /\ saved = {} /\ checkout = {}
    /\ bought = [j \in Jobs |-> {}]
    /\ phase = [j \in Jobs |-> "absent"]
    /\ target = [j \in Jobs |-> NoAsin]
    /\ allowed = [j \in Jobs |-> FALSE]
    /\ stored = [j \in Jobs |-> NoJournal]
    /\ NoTask
    /\ restores = {}
    /\ alive = TRUE
    /\ away = [j \in Jobs |-> {}]

-----------------------------------------------------------------------------
(* Tasks. *)

(* The worker takes a task. *)
Begin(j, kind, first, record) ==
    /\ alive /\ job = NoJob
    /\ job' = j /\ task' = kind /\ pc' = first /\ journal' = record
    /\ UNCHANGED <<pick, tries, wanted, cancelled>>

(* The running task goes on. *)
Goto(s) == pc' = s /\ UNCHANGED <<job, task, cancelled>>

(* It returns, or raises out of its last handler. *)
EndTask ==
    /\ job' = NoJob /\ task' = "none" /\ pc' = "idle"
    /\ journal' = NoJournal /\ pick' = NoAsin /\ tries' = 0
    /\ wanted' = {} /\ cancelled' = FALSE

(* The purchase is decided: blocked, failed, cancelled, uncertain or done. *)
Over == phase' = [phase EXCEPT ![job] = IF task = "restore" THEN @ ELSE "over"]

Live(j) == phase[j] \in {"running", "awaiting", "confirmed"}

(* _run_preparation begins; one live purchase of a product at a time. *)
Prepare ==
    \E j \in Jobs, a \in Asins, allow \in BOOLEAN :
        /\ phase[j] = "absent"
        /\ \A i \in Jobs : target[i] = a => ~Live(i)
        /\ Begin(j, "prepare", "plan", NoJournal)
        /\ phase' = [phase EXCEPT ![j] = "running"]
        /\ target' = [target EXCEPT ![j] = a]
        /\ allowed' = [allowed EXCEPT ![j] = allow]
        /\ checkout' = {}
        /\ UNCHANGED <<cart, saved, bought, stored, restores, alive, away>>

(* The user confirms the review; a declined one is left as it is. *)
Confirm ==
    \E j \in Jobs :
        /\ alive /\ phase[j] = "awaiting"
        /\ phase' = [phase EXCEPT ![j] = "confirmed"]
        /\ UNCHANGED <<amazon, target, allowed, stored, worker, restores, alive, away>>

(* Its task is cancelled before it starts, or has no browser: nobody puts   *)
(* the cart back.                                                            *)
DropConfirmed ==
    \E j \in Jobs :
        /\ alive /\ phase[j] = "confirmed"
        /\ phase' = [phase EXCEPT ![j] = "over"]
        /\ UNCHANGED <<amazon, target, allowed, stored, worker, restores, alive, away>>

(* _submit begins, with the journal that confirm() read from the database. *)
Submit ==
    \E j \in Jobs :
        /\ phase[j] = "confirmed"
        /\ Begin(j, "submit", "recheck", stored[j])
        /\ UNCHANGED <<amazon, database, restores, alive, away>>

(* A restore that _restore_pending_carts queued. *)
RestoreAtStartup ==
    \E j \in restores :
        /\ Begin(j, "restore", "undo", stored[j])
        /\ restores' = restores \ {j}
        /\ UNCHANGED <<amazon, database, alive, away>>

(* The user stops the purchase that is running; not while it is submitted. *)
Cancel ==
    /\ job # NoJob /\ task # "restore" /\ pc # "confirming" /\ ~cancelled
    /\ cancelled' = TRUE
    /\ UNCHANGED <<amazon, database, job, task, pc, journal, pick, tries, wanted,
                   restores, alive, away>>

-----------------------------------------------------------------------------
(* Isolation. *)

(* CartState.foreign_lines: the other lines; the item as well when its ASIN  *)
(* is missed; none when the rows cannot be counted.                          *)
ForeignReadings == {cart \ {target[job]}, cart, {}}

(* session.step() lets the task go on. *)
NotCancelled == ~cancelled

(* plan_isolation *)
Plan ==
    /\ pc = "plan" /\ NotCancelled
    /\ \E foreign \in ForeignReadings, buyNow, addToCart \in BOOLEAN :
        \/ buyNow /\ Goto("buy")
        \/ ~buyNow /\ foreign = {} /\ Goto("add")
        \/ /\ ~buyNow /\ foreign # {}
           /\ addToCart /\ allowed[job] /\ Goto("aside")
    /\ UNCHANGED <<amazon, database, journal, pick, tries, wanted, restores, alive, away>>

(* It finds no safe way, or the rules do not hold: nothing has been touched. *)
PlanBlocks ==
    /\ pc = "plan" /\ NotCancelled
    /\ Over /\ EndTask
    /\ UNCHANGED <<amazon, target, allowed, stored, restores, alive, away>>

(* start_buy_now: a checkout of its own. *)
StartBuyNow ==
    /\ pc = "buy" /\ NotCancelled
    /\ checkout' = {target[job]}
    /\ Goto("final")
    /\ UNCHANGED <<cart, saved, bought, database, journal, pick, tries, wanted, restores,
                   alive, away>>

(* range(25) *)
RoomToMove == tries < MaxMoves

(* set_aside_foreign_items reads the cart and journals its first foreign     *)
(* line.  Only the way into the loop is a cancellation point.                *)
AsideRecord ==
    /\ pc = "aside" /\ RoomToMove
    /\ tries = 0 => NotCancelled
    /\ \E name \in (cart \ {target[job]}) \cup {NoAsin} :
        /\ cart # {}
        /\ pick' = name
        /\ journal' = [journal EXCEPT !.aside = @ \cup {name}]
    /\ Goto("click")
    /\ UNCHANGED <<amazon, database, tries, wanted, restores, alive, away>>

(* _click_row_action, on a row found by its ASIN, or on the first row.       *)
Row(line) == line \in cart /\ pick \in {line, NoAsin}

(* The line may have moved or not, whatever the click reports: an exception  *)
(* while the page loads again counts as a failure.  What was moved without a *)
(* name is no longer known to be away.                                       *)
AsideClick ==
    /\ pc = "click"
    /\ \/ UNCHANGED <<cart, saved, away>>
       \/ \E line \in Asins :
            /\ Row(line)
            /\ cart' = cart \ {line} /\ saved' = saved \cup {line}
            /\ away' = IF pick = NoAsin THEN away
                       ELSE [away EXCEPT ![job] = @ \cup {line}]
    /\ \/ (\E line \in Asins : Row(line)) /\ tries' = tries + 1 /\ Goto("aside")
       \/ UNCHANGED tries /\ Goto("safe")
    /\ pick' = NoAsin
    /\ UNCHANGED <<checkout, bought, database, journal, wanted, restores, alive>>

AsideTooMany ==
    /\ pc = "aside" /\ ~RoomToMove
    /\ Goto("safe")
    /\ UNCHANGED <<amazon, database, journal, pick, tries, wanted, restores, alive, away>>

AsideDone ==
    /\ pc = "aside" /\ RoomToMove
    /\ tries = 0 => NotCancelled
    /\ {} \in ForeignReadings
    /\ Goto("persist")
    /\ UNCHANGED <<amazon, database, journal, pick, tries, wanted, restores, alive, away>>

(* on_journal_change: once, after all the moves. *)
Persist ==
    /\ pc = "persist"
    /\ stored' = [stored EXCEPT ![job] = journal]
    /\ Goto("add")
    /\ UNCHANGED <<amazon, phase, target, allowed, journal, pick, tries, wanted, restores,
                   alive, away>>

AddToCart ==
    /\ pc = "add" /\ NotCancelled
    /\ cart' = cart \cup {target[job]}
    /\ Goto("verify")
    /\ UNCHANGED <<saved, checkout, bought, database, journal, pick, tries, wanted,
                   restores, alive, away>>

(* _guard_cart passes, and no line is foreign: a reading with the item in it *)
(* is a reading of the whole cart.                                           *)
VerifyCart ==
    /\ pc = "verify" /\ NotCancelled
    /\ cart = {target[job]}
    /\ Goto("proceed")
    /\ UNCHANGED <<amazon, database, journal, pick, tries, wanted, restores, alive, away>>

(* Mutant: a cart that is not the item alone blocks without putting back.    *)
BlockCart_Left ==
    /\ pc = "verify" /\ NotCancelled
    /\ Over /\ EndTask
    /\ UNCHANGED <<amazon, target, allowed, stored, restores, alive, away>>

(* It does not, or another check of the cart fails: _CartBlocked.            *)
BlockCart ==
    /\ pc = "verify" /\ NotCancelled
    /\ Goto("undo")
    /\ UNCHANGED <<amazon, database, journal, pick, tries, wanted, restores, alive, away>>

(* proceed_to_checkout takes the whole active cart, as it is by now.         *)
Proceed ==
    /\ pc = "proceed" /\ NotCancelled
    /\ checkout' = cart
    /\ Goto("final")
    /\ UNCHANGED <<cart, saved, bought, database, journal, pick, tries, wanted, restores,
                   alive, away>>

-----------------------------------------------------------------------------
(* The final checks and the order. *)

(* Mutant: the item is found, other lines are not looked for. *)
OnlyItem_ForeignIgnored == target[job] \in checkout

(* check_final: the item's line is there, and no other. *)
OnlyItem == checkout = {target[job]}

(* An assisted purchase waits for its confirmation; the task is over. *)
AwaitConfirmation ==
    /\ pc = "final" /\ OnlyItem
    /\ phase' = [phase EXCEPT ![job] = "awaiting"]
    /\ EndTask
    /\ UNCHANGED <<amazon, target, allowed, stored, restores, alive, away>>

(* An automatic one goes on. *)
SubmitAutomatically ==
    /\ pc = "final" /\ OnlyItem
    /\ Goto("recheck")
    /\ UNCHANGED <<amazon, database, journal, pick, tries, wanted, restores, alive, away>>

Recheck ==
    /\ pc = "recheck" /\ NotCancelled
    /\ OnlyItem
    /\ Goto("order")
    /\ UNCHANGED <<amazon, database, journal, pick, tries, wanted, restores, alive, away>>

(* A final check fails, or test mode is on. *)
Block ==
    /\ pc \in {"final", "recheck"}
    /\ pc = "recheck" => NotCancelled
    /\ Goto("undo")
    /\ UNCHANGED <<amazon, database, journal, pick, tries, wanted, restores, alive, away>>

(* submit_order: what is ordered is what the page shows.  An order through   *)
(* the cart takes its lines out of it.                                       *)
PlaceOrder ==
    /\ pc = "order" /\ NotCancelled
    /\ bought' = [bought EXCEPT ![job] = @ \cup checkout]
    /\ cart' \in {cart, cart \ checkout}
    /\ checkout' = {}
    /\ Goto("confirming")
    /\ UNCHANGED <<saved, database, journal, pick, tries, wanted, restores, alive, away>>

(* The outcome is recorded, whatever it is. *)
Confirming ==
    /\ pc = "confirming"
    /\ Goto("safe")
    /\ UNCHANGED <<amazon, database, journal, pick, tries, wanted, restores, alive, away>>

-----------------------------------------------------------------------------
(* Exceptions. *)

(* Anything raised in a preparation, and an AppError of submit_order, ends   *)
(* in _safe_restore.                                                         *)
Fail ==
    /\ pc \in Steps \ {"undo", "safe", "restoring"}
    /\ task = "prepare" \/ pc \in {"order", "confirming"}
    /\ pc' = "safe" /\ pick' = NoAsin
    /\ UNCHANGED <<amazon, database, job, task, journal, tries, wanted, cancelled,
                   restores, alive, away>>

(* Nothing in the _submit of a confirmed review catches the rest. *)
LeaveTask ==
    /\ task = "submit" /\ pc \in {"recheck", "order", "confirming"}
    /\ Over /\ EndTask
    /\ UNCHANGED <<amazon, target, allowed, stored, restores, alive, away>>

-----------------------------------------------------------------------------
(* Putting the cart back. *)

RestoreCalled == pc \in {"undo", "safe"}

(* restore_cart has nothing to do. *)
NothingToRestore ==
    /\ RestoreCalled /\ ~PendingRestore(journal)
    /\ Over /\ EndTask
    /\ UNCHANGED <<amazon, target, allowed, stored, restores, alive, away>>

(* The cart page cannot be opened; or the cancel flag is set, and the first  *)
(* thing restore_cart does, session.step(), raises.  _safe_restore swallows  *)
(* it; the handlers of a preparation call _safe_restore.                     *)
RestoreRaises ==
    /\ RestoreCalled /\ PendingRestore(journal)
    /\ \/ /\ pc = "undo" /\ task = "prepare"
          /\ Goto("safe")
          /\ UNCHANGED <<phase, journal, pick, tries, wanted>>
       \/ /\ ~(pc = "undo" /\ task = "prepare")
          /\ Over /\ EndTask
    /\ UNCHANGED <<amazon, target, allowed, stored, restores, alive, away>>

RestoreBegins ==
    /\ RestoreCalled /\ PendingRestore(journal) /\ NotCancelled
    /\ wanted' = journal.aside \cap Asins
    /\ checkout' = {}
    /\ Goto("restoring")
    /\ UNCHANGED <<cart, saved, bought, database, journal, pick, tries, restores, alive,
                   away>>

(* restore_set_aside_items moves one line back.  An exception after the      *)
(* click leaves the line among the wanted.                                   *)
RestoreOne ==
    /\ pc = "restoring"
    /\ \E line \in wanted \cap saved :
        /\ cart' = cart \cup {line} /\ saved' = saved \ {line}
        /\ wanted' \in {wanted, wanted \ {line}}
        /\ away' = [j \in Jobs |-> away[j] \ {line}]
    /\ Goto("restoring")
    /\ UNCHANGED <<checkout, bought, database, journal, pick, tries, restores, alive>>

(* Mutant: whatever could not be moved is forgotten. *)
RestoreResult_Always == [journal EXCEPT !.restored = TRUE]

RestoreResult == [journal EXCEPT !.restored = (wanted = {})]

(* It stops, having moved all it could.  Only the startup task writes the    *)
(* journal back.                                                             *)
RestoreEnds ==
    /\ pc = "restoring"
    /\ stored' = IF task = "restore" THEN [stored EXCEPT ![job] = RestoreResult] ELSE stored
    /\ Over /\ EndTask
    /\ UNCHANGED <<amazon, target, allowed, restores, alive, away>>

WorkerStep ==
    \/ Plan \/ PlanBlocks \/ StartBuyNow
    \/ AsideRecord \/ AsideClick \/ AsideTooMany \/ AsideDone \/ Persist
    \/ AddToCart \/ VerifyCart \/ BlockCart \/ Proceed
    \/ AwaitConfirmation \/ SubmitAutomatically \/ Recheck \/ Block \/ PlaceOrder
    \/ Confirming \/ Fail \/ LeaveTask
    \/ NothingToRestore \/ RestoreRaises \/ RestoreBegins
    \/ RestoreOne \/ RestoreEnds

-----------------------------------------------------------------------------
(* The process, the browser's other tasks, and the user's own shopping.      *)

(* Recovery, at the next start, ends every job that was live.                *)
Stop ==
    /\ alive /\ alive' = FALSE
    /\ EndTask
    /\ checkout' = {} /\ restores' = {}
    /\ phase' = [j \in Jobs |-> IF Live(j) THEN "over" ELSE phase[j]]
    /\ UNCHANGED <<cart, saved, bought, target, allowed, stored, away>>

(* _restore_pending_carts: of list_recent(50), which holds every job here.   *)
Restart ==
    /\ ~alive /\ alive' = TRUE
    /\ restores' = {j \in Jobs : PendingRestore(stored[j])}
    /\ UNCHANGED <<amazon, database, worker, away>>

OtherTask ==
    /\ alive /\ job = NoJob
    /\ checkout' = {}
    /\ UNCHANGED <<cart, saved, bought, database, worker, restores, alive, away>>

(* The user puts a line into the cart, takes one out, saves one for later,   *)
(* or moves one back.                                                        *)
Shop ==
    /\ \E line \in Asins :
        \/ cart' = cart \cup {line} /\ UNCHANGED <<saved, away>>
        \/ cart' = cart \ {line} /\ UNCHANGED <<saved, away>>
        \/ /\ line \in cart
           /\ cart' = cart \ {line} /\ saved' = saved \cup {line}
           /\ UNCHANGED away
        \/ /\ line \in saved
           /\ cart' \in {cart, cart \cup {line}} /\ saved' = saved \ {line}
           /\ away' = [j \in Jobs |-> away[j] \ {line}]
    /\ UNCHANGED <<checkout, bought, database, worker, restores, alive>>

Next ==
    \/ Prepare \/ Confirm \/ DropConfirmed \/ Submit \/ RestoreAtStartup \/ Cancel
    \/ WorkerStep
    \/ Stop \/ Restart \/ OtherTask \/ Shop

Spec == Init /\ [][Next]_vars
-----------------------------------------------------------------------------
(* Properties. *)

(* Whatever the user puts into the cart while a purchase runs, and whatever  *)
(* page another purchase leaves in the browser, no order holds a line that   *)
(* its purchase was not for.                                                 *)
OnlyTheItemIsOrdered == \A j \in Jobs : bought[j] \subseteq {target[j]}

(* A line set aside for a purchase is in the journal of its running task;    *)
(* and once the database has a journal for it, that one names the line too,  *)
(* and is not marked restored before the line is back.                       *)
SetAsideIsOnRecord ==
    \A j \in Jobs :
        /\ job = j => away[j] \subseteq journal.aside
        /\ stored[j].aside # {} =>
              /\ away[j] \subseteq stored[j].aside
              /\ stored[j].restored => away[j] = {}

(* A preparation that leaves lines set aside is one whose review the user    *)
(* must answer, or it ends in an attempt to put them back.                   *)
PreparationPutsBack ==
    [][\A j \in Jobs :
         job = j /\ task = "prepare" /\ job' # j /\ alive' /\ away'[j] # {} =>
             phase'[j] = "awaiting" \/ RestoreCalled \/ pc = "restoring"]_vars

(* What docs/ARCHITECTURE.md says of the journal: it is written before each  *)
(* move, so that an interruption can be undone.  It is written once, after   *)
(* all the moves: lines moved before that are lost track of by a stop.       *)
InterruptionCanBeUndone ==
    ~alive => \A j \in Jobs : away[j] # {} => PendingRestore(stored[j])

(* What _handle_preparation_error and _safe_restore are for: a purchase that *)
(* the user stops undoes its changes to the cart, or tries to.  The restore  *)
(* is refused by the same cancel flag that stopped the purchase.             *)
StoppedIsPutBack ==
    [][\A j \in Jobs :
         job = j /\ job' # j /\ alive' /\ cancelled /\ away'[j] # {} =>
             pc = "restoring"]_vars
=============================================================================
