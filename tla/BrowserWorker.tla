---------------------------- MODULE BrowserWorker ----------------------------
(***************************************************************************)
(* The one thread that touches the browser, and its priority queue         *)
(* (app/automation/browser_worker.py).  The GUI thread submits tasks and   *)
(* sets cancel flags; the thread takes the most urgent task, runs it, and  *)
(* posts one report of it, which the GUI thread handles later.             *)
(*                                                                         *)
(* What a task does between its start and its report is its submitter's    *)
(* business: a module that EXTENDS this one says so.  A task's context is  *)
(* a record whose field kind names the submitter.                          *)
(***************************************************************************)
EXTENDS Integers, Sequences, FiniteSets, SequencesExt

CONSTANT MaxTasks           \* tasks that may be outstanding at one time

ASSUME MaxTasksAssumption == MaxTasks \in Nat

VARIABLES queue,            \* tasks submitted and not yet taken, oldest first
          running,          \* the task the thread is executing, or NoTask
          signals,          \* reports posted to the GUI thread, oldest first
          stopping,         \* shutdown() was called: the sentinel is queued
          workerState       \* what the status bar shows

workerVars == <<queue, running, signals, stopping, workerState>>

Interactive == 0
Purchasing == 1
Monitoring == 5
Priorities == {Interactive, Purchasing, Monitoring}

WorkerStates == {"stopped", "starting", "idle", "busy", "needs_browser", "failed"}

NoTask == [id |-> 0, priority |-> Interactive, context |-> [kind |-> "none"],
           cancel |-> FALSE]

WorkerInit ==
    /\ queue = <<>>
    /\ running = NoTask
    /\ signals = <<>>
    /\ stopping = FALSE
    /\ workerState = "stopped"

-----------------------------------------------------------------------------
(* The GUI thread's side.                                                  *)

Outstanding == Range(queue) \union {running}

\* Task ids count up for ever; one that nothing refers to any more is as good
\* as a new one.  "held" are the ids the submitters still remember.
FreeIds(held) == (1 .. MaxTasks) \ (held \union {t.id : t \in Outstanding} \union {s.id : s \in Range(signals)})

\* The ids of n tasks submitted one after the other.
NewIds(n, held) == CHOOSE ids \in Injection(1 .. n, FreeIds(held)) : TRUE

Task(id, priority, context) ==
    [id |-> id, priority |-> priority, context |-> context, cancel |-> FALSE]

Flag(t, tasks) == IF t.id # 0 /\ t \in tasks THEN [t EXCEPT !.cancel = TRUE] ELSE t

\* cancel and cancel_all only set flags: the tasks stay where they are.
FlagTasks(tasks) ==
    /\ queue' = [i \in DOMAIN queue |-> Flag(queue[i], tasks)]
    /\ running' = Flag(running, tasks)

Shutdown ==
    /\ ~stopping
    /\ stopping' = TRUE
    /\ FlagTasks(Outstanding)
    /\ UNCHANGED <<signals, workerState>>

-----------------------------------------------------------------------------
(* The worker thread.                                                      *)

Report(kind, t, result) ==
    [kind |-> kind, id |-> t.id, context |-> t.context, result |-> result]

StartThread ==
    /\ workerState = "stopped" /\ ~stopping
    /\ workerState' = "starting"
    /\ UNCHANGED <<queue, running, signals, stopping>>

\* _ensure_browser: ready, not installed, or broken in another way.
PrepareBrowser ==
    /\ workerState = "starting"
    /\ workerState' \in {"idle", "needs_browser", "failed"}
    /\ UNCHANGED <<queue, running, signals, stopping>>

Serving == workerState \in {"idle", "busy", "needs_browser", "failed"}

\* The head of a queue ordered by priority, then by order of submission.
NextUp ==
    CHOOSE i \in DOMAIN queue :
        \A j \in DOMAIN queue :
            \/ queue[i].priority < queue[j].priority
            \/ queue[i].priority = queue[j].priority /\ i <= j

\* The sentinel has priority -1, ahead of every task.
TakeTask ==
    /\ Serving /\ running = NoTask /\ ~stopping
    /\ queue # <<>>
    /\ running' = queue[NextUp]
    /\ queue' = RemoveAt(queue, NextUp)
    /\ workerState' = "busy"
    /\ UNCHANGED <<signals, stopping>>

\* The end of _execute: one report, whatever happened.
FinishTask(kind, result) ==
    /\ signals' = Append(signals, Report(kind, running, result))
    /\ running' = NoTask
    /\ workerState' = IF stopping THEN workerState ELSE "idle"
    /\ UNCHANGED <<queue, stopping>>

\* The flag is looked at when a task starts, and at each of its steps.
ObserveCancel ==
    /\ running.cancel
    /\ FinishTask("cancelled", "none")

\* The sentinel is taken: the queue is drained, and what is still in it is
\* reported as cancelled, once from the queue and once from _pending.
StopThread ==
    /\ Serving /\ running = NoTask /\ stopping
    /\ signals' = LET abandoned == [i \in DOMAIN queue |->
                                        Report("cancelled", queue[i], "none")]
                  IN  signals \o abandoned \o abandoned
    /\ queue' = <<>>
    /\ workerState' = "stopped"
    /\ UNCHANGED <<running, stopping>>

WorkerTypeOK ==
    /\ \A t \in Outstanding : t.id \in 0 .. MaxTasks /\ t.priority \in Priorities
    /\ stopping \in BOOLEAN
    /\ workerState \in WorkerStates

=============================================================================
