--------------------------- MODULE WatchInvariant ---------------------------
(***************************************************************************)
(* The inductive invariant of the watch list: what its tasks and reports   *)
(* look like, and how a purchase on its way, the product it holds and the  *)
(* orders of its watch go together.                                        *)
(***************************************************************************)
EXTENDS WatchMonitor

(* The tasks and the reports that the watch list makes.                      *)
Submissions ==
    [kind : {"check"}, watch : Watches, action : {"notify", "buy"}]
        \union [kind : {"purchase"}, watch : Watches]
Tasks == [id : 1 .. MaxTasks, priority : Priorities, context : Submissions, cancel : BOOLEAN]
Results == Errors \union {"other", "none", "buy"}
TaskReports ==
    [kind : {"finished", "failed", "cancelled"}, id : 1 .. MaxTasks, context : Submissions,
     result : Results]

(* A task that is found out about is running; a check that has not read its  *)
(* page, and no task at all, have found nothing.                             *)
WorkerInv ==
    /\ queue \in Seq(Tasks)
    /\ running \in Tasks \union {NoTask}
    /\ signals \in Seq(TaskReports)
    /\ found \in [status : Statuses, buy : BOOLEAN]
    /\ running = NoTask => found = NothingFound

Holds(w) == taken[ProductOf[w]] = [by |-> w, doubt |-> FALSE]

(* A purchase that is queued, or that runs and has no order yet, is the only *)
(* one of its watch, and holds the product.                                  *)
PurchasesHold ==
    /\ \A w \in Watches : \A i \in DOMAIN queue : BuysFor(queue[i], w) =>
           /\ Holds(w)
           /\ \A j \in DOMAIN queue : BuysFor(queue[j], w) => j = i
           /\ ~(BuysFor(running, w) /\ found = NothingFound)
    /\ \A w \in Watches : BuysFor(running, w) /\ found = NothingFound => Holds(w)

(* A watch that holds a product has no order; and only its own product is    *)
(* held by a watch.                                                          *)
HoldersHaveNoOrder ==
    \A p \in Products :
        /\ taken[p].by \in Watches => ProductOf[taken[p].by] = p /\ bought[taken[p].by] = 0
        /\ taken[p].doubt => taken[p].by \in Watches

(* A purchase is reported as cancelled by the end of the thread only.        *)
NoneAbandoned ==
    ~stopping => \A s \in Range(signals) : s.context.kind = "purchase" => s.kind = "finished"

WatchInv ==
    /\ TypeOK /\ WorkerInv
    /\ PurchasesHold /\ HoldersHaveNoOrder /\ NoneAbandoned
    /\ OneOrderPerWatch /\ InFlightIsOutstanding /\ StoppedIsQuiet
=============================================================================
