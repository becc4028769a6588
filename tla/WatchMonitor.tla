----------------------------- MODULE WatchMonitor -----------------------------
(***************************************************************************)
(* The watch list: its table, the scheduler, the checks and the automatic  *)
(* purchases they lead to (app/monitoring/, database/repositories/watch).  *)
(*                                                                         *)
(* Time is relative.  "wait" is what is left until a watch is due, "gap"   *)
(* what is left of the minimum gap between two requests; Elapse lets one   *)
(* unit pass.  The worker and its queue are those of BrowserWorker; a      *)
(* purchase is what a watch sees of it: the product is taken, the task is  *)
(* queued, and it ends confirmed, in doubt, without an order, or in need   *)
(* of the user (PurchaseService has the rest).                             *)
(***************************************************************************)
EXTENDS BrowserWorker, CheckDecision

CONSTANTS Watches,          \* the watch jobs
          Products,
          ProductOf,        \* the product of each watch
          Ending,           \* the watches created with a stop date
          Interval,         \* between two checks of a watch
          Delays,           \* the back-off after one or more failures in a row
          Throttle,         \* THROTTLE_BACKOFF_SECONDS
          Gap,              \* GLOBAL_MIN_REQUEST_GAP_SECONDS
          MaxJobsPerTick,
          Actions,          \* what a watch may be set to do: notify, buy
          Pages,            \* what a check may read: stock, price, the guard's word
          Errors,           \* and how it may fail
          MaxOrders         \* bounds the count of orders of one watch

ASSUME WatchesAssumption == IsFiniteSet(Watches) /\ {"nobody", "user"} \cap Watches = {}
ASSUME ProductsAssumption == ProductOf \in [Watches -> Products]
ASSUME TimesAssumption == {Interval, Throttle, Gap} \union Delays \subseteq Nat
ASSUME ActionsAssumption == Actions \subseteq {"notify", "buy"}
ASSUME OrdersAssumption == MaxOrders \in Nat

VARIABLES watches,          \* the rows of watch_jobs
          inFlight,         \* MonitorService._in_flight; 0 when absent
          scheduling,       \* Scheduler._running
          enabled,          \* the setting monitoring_enabled
          gap,              \* RequestPacer, as what is left of the gap
          found,            \* what the running task has found out so far
          taken,            \* the live purchase of each product, if any
          bought            \* confirmed purchases of each watch

watchVars == <<watches, inFlight, scheduling, enabled, gap, found, taken, bought>>
vars == <<workerVars, watchVars>>

Active == {"watching", "waiting_for_price", "target_reached", "out_of_stock", "error"}
Finished == {"purchase_completed", "expired"}
Statuses == Active \union Finished \union {"none", "paused", "needs_login", "needs_verification"}

\* A row that is not in the table.
NoWatch == [status |-> "none", action |-> "notify", wait |-> 0]
NothingFound == [status |-> "none", buy |-> FALSE]
Free == [by |-> "nobody", doubt |-> FALSE]

TypeOK ==
    /\ WorkerTypeOK
    /\ watches \in [Watches -> [status : Statuses, action : {"notify", "buy"},
                                wait : Nat]]
    /\ inFlight \in [Watches -> 0 .. MaxTasks]
    /\ scheduling \in BOOLEAN /\ enabled \in BOOLEAN
    /\ gap \in 0 .. Gap
    /\ taken \in [Products -> [by : Watches \union {"nobody", "user"}, doubt : BOOLEAN]]
    /\ bought \in [Watches -> 0 .. MaxOrders]

IsListed(w) == watches[w].status # "none"
IsActive(w) == watches[w].status \in Active

Init ==
    /\ WorkerInit
    /\ watches = [w \in Watches |-> NoWatch]
    /\ inFlight = [w \in Watches |-> 0]
    /\ enabled \in BOOLEAN
    /\ scheduling = enabled
    /\ gap = 0
    /\ found = NothingFound
    /\ taken = [p \in Products |-> Free]
    /\ bought = [w \in Watches |-> 0]

-----------------------------------------------------------------------------
(* Helpers of the GUI thread.                                              *)

Contexts == {t.context : t \in Outstanding} \union {s.context : s \in Range(signals)}
InFlightIds == {inFlight[w] : w \in Watches} \ {0}
Check(w) == [kind |-> "check", watch |-> w, action |-> watches[w].action]
Purchase(w) == [kind |-> "purchase", watch |-> w]

\* _dispatch, for watches that have no task in flight, one after the other.
DispatchAll(order, priority) ==
    LET ids == NewIds(Len(order), InFlightIds)
        place(w) == CHOOSE i \in DOMAIN order : order[i] = w
    IN  /\ queue' = queue \o [i \in DOMAIN order |-> Task(ids[i], priority, Check(order[i]))]
        /\ inFlight' = [w \in Watches |-> IF w \in Range(order) THEN ids[place(w)] ELSE inFlight[w]]
        /\ gap' = Gap

RoomFor(n) == Cardinality(FreeIds(InFlightIds)) >= n

StartMonitoring == scheduling' = (scheduling \/ enabled)
StopMonitoring_QueueKept == scheduling' = FALSE /\ UNCHANGED <<queue, running>>
StopMonitoring ==
    /\ scheduling' = FALSE
    /\ FlagTasks({t \in Outstanding : t.priority = Monitoring})

-----------------------------------------------------------------------------
(* Time.                                                                   *)

Elapse ==
    /\ watches' = [w \in Watches |-> [watches[w] EXCEPT !.wait = IF @ = 0 THEN 0 ELSE @ - 1]]
    /\ gap' = IF gap = 0 THEN 0 ELSE gap - 1
    /\ UNCHANGED <<workerVars, inFlight, scheduling, enabled, found, taken, bought>>

\* expire_due, in the rows of a table t, when the stop dates of some watches
\* have passed.
MayEnd(t) == {w \in Ending : t[w].status \notin Finished \union {"none"}}
Expired(t, ended) ==
    [w \in Watches |-> IF w \in ended THEN [t[w] EXCEPT !.status = "expired"] ELSE t[w]]

\* After a jump of the clock the active watches are due one after the other,
\* and each a little later than now.
Staggered(order) ==
    [w \in Watches |-> IF w \in Range(order)
                       THEN [watches[w] EXCEPT !.wait = CHOOSE i \in DOMAIN order : order[i] = w]
                       ELSE watches[w]]

\* One tick of the scheduler.  The pacer is asked again before each dispatch,
\* and a dispatch counts as a request, so one tick sends out one check.
Tick(t, pacing) == \E ended \in SUBSET MayEnd(t) :
    LET rows == Expired(t, ended)
        due == {w \in Watches : rows[w].status \in Active /\ rows[w].wait = 0}
    IN  /\ watches' = rows
        /\ IF pacing > 0 \/ \A w \in due : inFlight[w] # 0
           THEN gap' = pacing /\ UNCHANGED <<queue, inFlight>>
           ELSE \E claimed \in SUBSET due :
                   /\ Cardinality(claimed) = Min({MaxJobsPerTick, Cardinality(due)})
                   /\ IF \A w \in claimed : inFlight[w] # 0
                      THEN gap' = pacing /\ UNCHANGED <<queue, inFlight>>
                      ELSE \E w \in claimed :
                              /\ inFlight[w] = 0
                              /\ DispatchAll(<<w>>, Monitoring)

OnTick ==
    /\ scheduling
    /\ RoomFor(1)
    /\ Tick(watches, gap)
    /\ UNCHANGED <<running, signals, stopping, workerState, scheduling, enabled, found, taken, bought>>

OnTickAfterSleep ==
    /\ scheduling
    /\ RoomFor(1)
    /\ \E order \in SetToSeqs({w \in Watches : IsActive(w)}) : Tick(Staggered(order), 0)
    /\ UNCHANGED <<running, signals, stopping, workerState, scheduling, enabled, found, taken, bought>>

-----------------------------------------------------------------------------
(* What the user does to the watch list.                                   *)

\* A new watch may take the name of a removed one that nothing refers to.
Create(w, action) ==
    /\ ~IsListed(w)
    /\ inFlight[w] = 0 /\ taken[ProductOf[w]].by # w
    /\ \A c \in Contexts : c.kind # "none" => c.watch # w
    /\ watches' = [watches EXCEPT ![w] = [NoWatch EXCEPT !.status = "watching", !.action = action]]
    /\ bought' = [bought EXCEPT ![w] = 0]
    /\ StartMonitoring
    /\ UNCHANGED <<workerVars, inFlight, enabled, gap, found, taken>>

\* The editor writes the action, the rules and the stop date.
Edit(w, action) ==
    /\ IsListed(w)
    /\ watches' = [watches EXCEPT ![w].action = action]
    /\ UNCHANGED <<workerVars, inFlight, scheduling, enabled, gap, found, taken, bought>>

ForgetInFlight(w) ==
    /\ inFlight' = [inFlight EXCEPT ![w] = 0]
    /\ FlagTasks({t \in Outstanding : t.id = inFlight[w]})

\* The button says Resume on a paused watch, and Pause on any other.
PauseWatch(w) ==
    /\ IsListed(w) /\ watches[w].status # "paused"
    /\ watches' = [watches EXCEPT ![w].status = "paused"]
    /\ ForgetInFlight(w)
    /\ UNCHANGED <<signals, stopping, workerState, scheduling, enabled, gap, found, taken, bought>>

\* A tenth of the interval is less than one unit of time.
ResumeWatch(w) ==
    /\ watches[w].status = "paused"
    /\ watches' = [watches EXCEPT ![w].status = "watching", ![w].wait = 0]
    /\ StartMonitoring
    /\ UNCHANGED <<workerVars, inFlight, enabled, gap, found, taken, bought>>

\* Its purchases stay, and no longer belong to a watch.
RemoveWatch(w) ==
    /\ IsListed(w)
    /\ watches' = [watches EXCEPT ![w] = NoWatch]
    /\ bought' = [bought EXCEPT ![w] = 0]
    /\ ForgetInFlight(w)
    /\ UNCHANGED <<signals, stopping, workerState, scheduling, enabled, gap, found, taken>>

\* A request of the user does not ask the pacer, nor for the status.
CheckNow(w) ==
    /\ IsListed(w) /\ inFlight[w] = 0
    /\ RoomFor(1)
    /\ DispatchAll(<<w>>, Interactive)
    /\ UNCHANGED <<running, signals, stopping, workerState, watches, scheduling, enabled, found, taken, bought>>

CheckAllNow ==
    LET idle == {w \in Watches : IsActive(w) /\ inFlight[w] = 0}
    IN  /\ idle # {}
        /\ RoomFor(Cardinality(idle))
        /\ \E order \in SetToSeqs(idle) : DispatchAll(order, Interactive)
        /\ UNCHANGED <<running, signals, stopping, workerState, watches, scheduling, enabled, found, taken, bought>>

SetEnabled(on) ==
    /\ enabled # on
    /\ enabled' = on
    /\ IF on THEN scheduling' = TRUE /\ UNCHANGED <<queue, running>> ELSE StopMonitoring
    /\ UNCHANGED <<signals, stopping, workerState, watches, inFlight, gap, found, taken, bought>>

\* The same setting on the Settings page, which nothing else listens to.
SetKeepWatching(on) ==
    /\ enabled # on
    /\ enabled' = on
    /\ UNCHANGED <<workerVars, watches, inFlight, scheduling, gap, found, taken, bought>>

-----------------------------------------------------------------------------
(* A check on the worker thread: the page, then the rows.                  *)

Checking == running.id # 0 /\ running.context.kind = "check"
Buying == running.id # 0 /\ running.context.kind = "purchase"

Target == [cents |-> 10, currency |-> "USD"]
Decision(action, page) ==
    LET terms == [action |-> action, triggerInStock |-> TRUE, triggerTargetPrice |-> TRUE, target |-> Target]
    IN  [status |-> StatusAfter(page.inStock, page.price, Target),
         buy |-> ShouldBuy(terms, page.inStock, page.price, page.passed)]

\* The rules and the action are those of the moment of the dispatch.
ReadPage ==
    /\ Checking /\ found = NothingFound /\ ~running.cancel
    /\ \E page \in Pages : found' = Decision(running.context.action, page)
    /\ UNCHANGED <<workerVars, watches, inFlight, scheduling, enabled, gap, taken, bought>>

FailCheck ==
    /\ Checking /\ found = NothingFound /\ ~running.cancel
    /\ \E e \in Errors : FinishTask("failed", e)
    /\ UNCHANGED watchVars

CancelCheck ==
    /\ Checking /\ found = NothingFound
    /\ ObserveCancel
    /\ UNCHANGED watchVars

\* record_check_success writes the status whatever it was.  The observation
\* of a removed watch violates a foreign key: the check fails instead.
RecordCheck ==
    LET w == running.context.watch
    IN  /\ Checking /\ found # NothingFound
        /\ IF IsListed(w)
           THEN /\ watches' = [watches EXCEPT ![w].status = found.status, ![w].wait = Interval]
                /\ FinishTask("finished", IF found.buy THEN "buy" ELSE "none")
           ELSE /\ FinishTask("failed", "other")
                /\ UNCHANGED watches
        /\ found' = NothingFound
        /\ UNCHANGED <<inFlight, scheduling, enabled, gap, taken, bought>>

-----------------------------------------------------------------------------
(* The reports of checks, on the GUI thread.                               *)

Handling(kind, of) ==
    /\ ~stopping /\ signals # <<>>
    /\ Head(signals).kind = kind
    /\ Head(signals).context.kind = of
    /\ signals' = Tail(signals)

Reported == Head(signals).context.watch

\* Whatever task the report is of: the entry is found by the watch.
Landed(w) == inFlight' = [inFlight EXCEPT ![w] = 0]

NoOrderYet_ByStatus(w) == watches[w].status # "purchase_completed"
NoOrderYet(w) == bought[w] = 0

NoLivePurchase_OfTheWatch(w) == taken[ProductOf[w]].by # w
NoLivePurchase(w) == taken[ProductOf[w]] = Free

\* _start_automatic_purchase: not twice for the watch, and not while the
\* product is taken; the service may still refuse.
AskForPurchase(w) ==
    IF ~NoOrderYet(w)
    THEN /\ watches' = [watches EXCEPT ![w].status = "purchase_completed"]
         /\ UNCHANGED <<queue, taken>>
    ELSE /\ UNCHANGED watches
         /\ \/ UNCHANGED <<queue, taken>>
            \/ /\ NoLivePurchase(w)
               /\ RoomFor(1)
               /\ taken' = [taken EXCEPT ![ProductOf[w]].by = w]
               /\ queue' = Append(queue, Task(NewIds(1, InFlightIds)[1], Purchasing, Purchase(w)))

OnFinished ==
    /\ Handling("finished", "check")
    /\ Landed(Reported)
    /\ IF IsListed(Reported) /\ Head(signals).result = "buy"
       THEN AskForPurchase(Reported)
       ELSE UNCHANGED <<watches, queue, taken>>
    /\ UNCHANGED <<running, stopping, workerState, scheduling, enabled, gap, found, bought>>

StatusForError(e) ==
    CASE e = "login_expired" -> "needs_login"
      [] e = "verification_required" -> "needs_verification"
      [] e = "product_unavailable" -> "out_of_stock"
      [] OTHER -> "error"

\* record_check_failure, in the rows of a table t.
Failed(t, w, e, delay) ==
    IF t[w].status = "none" THEN t
    ELSE [t EXCEPT ![w].status = StatusForError(e), ![w].wait = Max({delay, Interval})]

\* defer_all_active: later than now, and never earlier than before.
Deferred(t) ==
    [w \in Watches |-> IF t[w].status \in Active
                       THEN [t[w] EXCEPT !.wait = Max({@, Throttle})] ELSE t[w]]

OnFailed ==
    /\ Handling("failed", "check")
    /\ Landed(Reported)
    /\ \E delay \in Delays :
       LET e == Head(signals).result
           rows == Failed(watches, Reported, e, delay)
       IN  /\ watches' = IF e = "rate_limited" THEN Deferred(rows) ELSE rows
           /\ IF e = "verification_required" THEN StopMonitoring
              ELSE UNCHANGED <<queue, running, scheduling>>
    /\ UNCHANGED <<stopping, workerState, enabled, gap, found, taken, bought>>

OnCancelled_EntryKept ==
    /\ Handling("cancelled", "check")
    /\ UNCHANGED <<inFlight, queue, running, stopping, workerState, watches, scheduling, enabled, gap, found, taken, bought>>

OnCancelled ==
    /\ Handling("cancelled", "check")
    /\ Landed(Reported)
    /\ UNCHANGED <<queue, running, stopping, workerState, watches, scheduling, enabled, gap, found, taken, bought>>

-----------------------------------------------------------------------------
(* The purchases, as the watch list sees them.                             *)

\* The end of a purchase that the task's watch asked for.
Release(w) == taken' = [taken EXCEPT ![ProductOf[w]] = Free]
CountOrder(w) == bought' = IF IsListed(w) THEN [bought EXCEPT ![w] = @ + 1] ELSE bought

MarkPurchased(t, w) ==
    IF t[w].status = "none" THEN t ELSE [t EXCEPT ![w].status = "purchase_completed"]

ConfirmOrder ==
    LET w == running.context.watch
    IN  /\ Buying /\ found = NothingFound /\ bought[w] < MaxOrders
        /\ found' = [NothingFound EXCEPT !.status = "purchase_completed"]
        /\ Release(w) /\ CountOrder(w)
        /\ UNCHANGED <<workerVars, watches, inFlight, scheduling, enabled, gap>>

\* A write of its own, after the one that confirms the purchase.
CompleteWatch ==
    /\ Buying /\ found # NothingFound
    /\ watches' = MarkPurchased(watches, running.context.watch)
    /\ found' = NothingFound
    /\ FinishTask("finished", "none")
    /\ UNCHANGED <<inFlight, scheduling, enabled, gap, taken, bought>>

\* Blocked, failed or cancelled; or the answer to the order was not read.
EndWithoutOrder ==
    /\ Buying /\ found = NothingFound
    /\ Release(running.context.watch)
    /\ FinishTask("finished", "none")
    /\ UNCHANGED <<watches, inFlight, scheduling, enabled, gap, found, bought>>

\* The error needs the user: the job stays live, and keeps the product.
EndNeedingUser ==
    /\ Buying /\ found = NothingFound
    /\ FinishTask("finished", "none")
    /\ UNCHANGED watchVars

EndInDoubt ==
    /\ Buying /\ found = NothingFound
    /\ taken' = [taken EXCEPT ![ProductOf[running.context.watch]].doubt = TRUE]
    /\ FinishTask("finished", "none")
    /\ UNCHANGED <<watches, inFlight, scheduling, enabled, gap, found, bought>>

\* The purchase service moves the job of an abandoned task to cancelled.
OnPurchaseReport ==
    /\ \E kind \in {"finished", "cancelled"} : Handling(kind, "purchase")
    /\ taken' = IF Head(signals).kind = "cancelled" /\ taken[ProductOf[Reported]] = [by |-> Reported, doubt |-> FALSE]
                THEN [taken EXCEPT ![ProductOf[Reported]] = Free] ELSE taken
    /\ UNCHANGED <<queue, running, stopping, workerState, watches, inFlight, scheduling, enabled, gap, found, bought>>

\* The user says whether the order in doubt was placed.
SettleDoubt(p, placed) ==
    LET w == taken[p].by
    IN  /\ taken[p].doubt /\ bought[w] < MaxOrders
        /\ taken' = [taken EXCEPT ![p] = Free]
        /\ IF placed THEN CountOrder(w) /\ watches' = MarkPurchased(watches, w)
                     ELSE UNCHANGED <<bought, watches>>
        /\ UNCHANGED <<workerVars, inFlight, scheduling, enabled, gap, found>>

\* A purchase that the user started for the product, without the watch.
UserBuys(p) ==
    /\ taken[p] = Free
    /\ taken' = [taken EXCEPT ![p].by = "user"]
    /\ UNCHANGED <<workerVars, watches, inFlight, scheduling, enabled, gap, found, bought>>

UserIsDone(p) ==
    /\ taken[p].by = "user"
    /\ taken' = [taken EXCEPT ![p] = Free]
    /\ UNCHANGED <<workerVars, watches, inFlight, scheduling, enabled, gap, found, bought>>

-----------------------------------------------------------------------------
(* Stops and starts of the program.                                        *)

Exit ==
    /\ Shutdown
    /\ scheduling' = FALSE
    /\ UNCHANGED <<watches, inFlight, enabled, gap, found, taken, bought>>

\* A purchase under way has a task, or one that was dropped from the queue.
BuysFor(t, w) == t.context.kind = "purchase" /\ t.context.watch = w
UnderWay(w) ==
    \E t \in Outstanding \union {s \in Range(signals) : s.kind = "cancelled"} : BuysFor(t, w)

\* recover_interrupted, for the purchase that holds a slot.  One that waits for
\* the user stays; of those under way an order is assumed where one may have
\* been submitted, and the others are ended.
Recovered(slot, submitted) ==
    IF slot.by \notin Watches THEN Free
    ELSE IF slot.doubt \/ ~UnderWay(slot.by) THEN slot
    ELSE IF submitted /\ BuysFor(running, slot.by) THEN [slot EXCEPT !.doubt = TRUE]
    ELSE Free

\* What is in memory is lost, at any point.
Restart ==
    /\ queue' = <<>> /\ running' = NoTask /\ signals' = <<>>
    /\ stopping' = FALSE /\ workerState' = "stopped"
    /\ inFlight' = [w \in Watches |-> 0]
    /\ scheduling' = enabled
    /\ gap' = 0 /\ found' = NothingFound
    /\ \E submitted \in BOOLEAN, kept \in SUBSET {p \in Products : taken[p].by = "user"} :
          taken' = [p \in Products |->
                      IF p \in kept THEN taken[p] ELSE Recovered(taken[p], submitted)]
    /\ UNCHANGED <<watches, enabled, bought>>

-----------------------------------------------------------------------------
WorkerSteps ==
    \/ (StartThread \/ PrepareBrowser \/ TakeTask \/ StopThread) /\ UNCHANGED watchVars
    \/ ReadPage \/ FailCheck \/ CancelCheck \/ RecordCheck
    \/ ConfirmOrder \/ CompleteWatch \/ EndWithoutOrder \/ EndInDoubt \/ EndNeedingUser

Reports == OnFinished \/ OnFailed \/ OnCancelled \/ OnPurchaseReport

WatchListSteps ==
    \/ CheckAllNow
    \/ \E on \in BOOLEAN : SetEnabled(on) \/ SetKeepWatching(on)
    \/ \E w \in Watches :
          \/ \E action \in Actions : Create(w, action) \/ Edit(w, action)
          \/ PauseWatch(w) \/ ResumeWatch(w) \/ RemoveWatch(w) \/ CheckNow(w)

OtherSteps ==
    \E p \in Products : UserBuys(p) \/ UserIsDone(p) \/ \E placed \in BOOLEAN : SettleDoubt(p, placed)

Clock == Elapse \/ OnTick \/ OnTickAfterSleep

\* The event loop has ended when the worker is shut down.
Next ==
    \/ ~stopping /\ (WatchListSteps \/ OtherSteps \/ Reports \/ Clock \/ Exit)
    \/ WorkerSteps \/ Restart

Spec == Init /\ [][Next]_vars

-----------------------------------------------------------------------------
(* What the watch list guarantees.                                         *)

\* No watch leads to two confirmed orders, although a check that was on its
\* way when the first was confirmed puts the watch back among the active ones,
\* the user may pause and resume it, and the program may stop between the
\* confirmation and the mark on the watch (has_completed_purchase).
OneOrderPerWatch == \A w \in Watches : bought[w] <= 1

\* A watch that counts as in flight has a task that will still be reported:
\* otherwise the scheduler would pass it over for ever (_in_flight).
InFlightIsOutstanding ==
    \A w \in Watches : inFlight[w] # 0 =>
        \E t \in Outstanding \union Range(signals) :
            t.id = inFlight[w] /\ t.context.kind = "check" /\ t.context.watch = w

\* Once monitoring has stopped - by the user, or because Amazon asks for a
\* human - every background check that was queued will end before it loads a
\* page, however the queue and the flags came about (stop, cancel_all).
StoppedIsQuiet ==
    ~scheduling => \A t \in Outstanding : t.priority = Monitoring => t.cancel

=============================================================================
