--------------------------- MODULE PurchaseSafety ---------------------------
(***************************************************************************)
(* The purchase workflow is type correct and safe, for any products,       *)
(* totals and number of jobs: no job is ordered twice, and a recorded      *)
(* submission is never forgotten, whoever moves next and wherever the      *)
(* process stops.                                                          *)
(*                                                                         *)
(* The inductive invariant is Inv of PurchaseInvariant.  Its heart is      *)
(* OneHolder: because a job has one task at most, and no report of an      *)
(* earlier one, a handler that moves a job never meets its task, so each   *)
(* task may rely on TaskIsCurrent.                                         *)
(***************************************************************************)
EXTENDS PurchaseInvariant, SequenceTheorems, TLAPS

-----------------------------------------------------------------------------
(* Types. *)

(* A signal the service queues is a signal, and so is the sequence it joins. *)
LEMMA EmptySequence == ASSUME NEW S PROVE <<>> \in Seq(S)
  OBVIOUS

LEMMA AppendTypes ==
  ASSUME NEW S, NEW s \in Seq(S), NEW x \in S, NEW t, t = s \/ t = Append(s, x)
  PROVE  t \in Seq(S)
  OBVIOUS

LEMMA EmitTypes ==
  ASSUME signals \in Seq(Signals), NEW e \in Seq(Signals), Emit(e)
  PROVE  signals' \in Seq(Signals)
  BY ConcatProperties DEF Emit

LEMMA ReportTypes ==
  ASSUME NEW e, job \in Jobs
  PROVE  Report(e) \in Seq(Signals)
  BY DEF Report, Signal, Signals

LEMMA UncertainTypes ==
  ASSUME NEW j \in Jobs
  PROVE  Uncertain(j) \in Seq(Signals)
<1>1. <<Signal("uncertain", j)>> \in Seq(Signals)
  BY DEF Signal, Signals
<1> QED
  BY <1>1, EmptySequence DEF Uncertain

LEMMA OpenTypes ==
  ASSUME TypeOK, NEW k \in {"confirm", "uncertain"}, NEW j \in Jobs
  PROVE  Open(k, j) \in Seq(Dialogs)
  BY DEF Open, Dialogs, TypeOK, WindowTypes

LEMMA CloseTypes ==
  ASSUME TypeOK, dialogs # <<>>
  PROVE  Close \in Seq(Dialogs) /\ Top \in Dialogs
  BY SubSeqProperties DEF Close, Top, TypeOK, WindowTypes

(* A step other than "idle" is the step of a job. *)
LEMMA RunningJob == ASSUME TypeOK, step # "idle" PROVE job \in Jobs
  BY DEF TypeOK, WorkerTypes

LEMMA FailToTypes ==
  ASSUME TypeOK, NEW j \in Jobs
  PROVE  FailTo(j) \in States /\ CancelTo(j) \in States
  BY DEF FailTo, CancelTo, TypeOK, DatabaseTypes, States, LiveStates, TerminalStates

(* A move of one job keeps the type of the states. *)
LEMMA MoveTypes ==
  ASSUME TypeOK, NEW j \in Jobs, NEW s \in States, Move(j, s)
  PROVE  state' \in [Jobs -> States \cup {"absent"}]
  BY DEF Move, TypeOK, DatabaseTypes

-----------------------------------------------------------------------------

LEMMA InitTypes == Init => TypeOK
<1> SUFFICES ASSUME Init PROVE TypeOK
  OBVIOUS
<1> USE DEF Init
<1>1. DatabaseTypes
  BY DEF DatabaseTypes, NoRow, Rows
<1>2. AmazonTypes
  BY DEF AmazonTypes, NoCheckout, Checkouts
<1>3. WorkerTypes
  BY EmptySequence DEF WorkerTypes
<1>4. ServiceTypes
  BY EmptySequence DEF ServiceTypes
<1>5. WindowTypes
  BY EmptySequence DEF WindowTypes, NoAct
<1> QED
  BY <1>1, <1>2, <1>3, <1>4, <1>5 DEF TypeOK

LEMMA StutterTypes == TypeOK /\ UNCHANGED vars => TypeOK'
  BY DEF TypeOK, DatabaseTypes, AmazonTypes, WorkerTypes, ServiceTypes, WindowTypes,
         vars, database, amazon, worker, startup

(* The steps of a running task that end in its next step. *)
LEMMA AdvanceTypes ==
  ASSUME TypeOK, step # "idle",
         \/ Inspect \/ CheckRules \/ PlanCart \/ PrepareCheckout \/ EnterFinalValidation
         \/ SubmitAutomatically \/ Recheck \/ PassTestMode \/ BeginAttempt \/ FindButton
         \/ RecordSubmission \/ Click \/ ReadResponse \/ RecordOrder
  PROVE  TypeOK'
<1> job \in Jobs
  BY RunningJob
<1> USE DEF TypeOK, DatabaseTypes, AmazonTypes, WorkerTypes, ServiceTypes, WindowTypes,
        database, amazon, gui, startup, Move, Goto,
        States, LiveStates, PreparingStates, Steps, PrepareSteps, RecheckSteps,
        SubmitSteps, OutcomeSteps
<1>1. CASE Inspect
  BY <1>1 DEF Inspect, NoCheckout, Checkouts
<1>2. CASE CheckRules
  BY <1>2 DEF CheckRules
<1>3. CASE PlanCart
  BY <1>3 DEF PlanCart
<1>4. CASE PrepareCheckout
  <2>1. PICK t \in Totals :
          /\ page' = [product |-> row[job].product, total |-> t]
          /\ review' = [review EXCEPT ![job] = t]
    BY <1>4 DEF PrepareCheckout
  <2>2. row[job].product \in Products \cup {NoProduct}
    BY DEF Rows
  <2>3. page' \in Checkouts
    BY <2>1, <2>2 DEF Checkouts
  <2> QED
    BY <1>4, <2>1, <2>3 DEF PrepareCheckout
<1>5. CASE EnterFinalValidation
  BY <1>5 DEF EnterFinalValidation
<1>6. CASE SubmitAutomatically
  BY <1>6 DEF SubmitAutomatically
<1>7. CASE Recheck
  BY <1>7 DEF Recheck, Checkouts
<1>8. CASE PassTestMode
  BY <1>8 DEF PassTestMode
<1>9. CASE BeginAttempt
  BY <1>9 DEF BeginAttempt
<1>10. CASE FindButton
  BY <1>10 DEF FindButton
<1>11. CASE RecordSubmission
  BY <1>11 DEF RecordSubmission
<1>12. CASE Click
  BY <1>12 DEF Click, NoCheckout, Checkouts
<1>13. CASE ReadResponse
  BY <1>13 DEF ReadResponse
<1>14. CASE RecordOrder
  BY <1>14 DEF RecordOrder
<1> QED
  BY <1>1, <1>2, <1>3, <1>4, <1>5, <1>6, <1>7, <1>8, <1>9, <1>10, <1>11, <1>12,
     <1>13, <1>14

(* The ends of a task. *)
LEMMA EndTypes ==
  ASSUME TypeOK, step # "idle",
         \/ AwaitConfirmation \/ FinishTestRun \/ Block \/ StopForTestMode
         \/ MarkUncertain \/ Confirm \/ CatchSubmitError
         \/ \E e \in {"app", "needs_user"} : CatchPreparationError(e)
         \/ \E e \in {"unexpected", "cancelled"} : CatchUnexpected(e)
         \/ \E e \in {"app", "needs_user", "unexpected", "cancelled"} : LeaveTask(e)
  PROVE  TypeOK'
<1> job \in Jobs
  BY RunningJob
<1>0. ASSUME NEW s \in States, Move(job, s) \/ UNCHANGED state,
             NEW e \in Seq(Signals), Emit(e) \/ UNCHANGED signals,
             pending' = pending \cup {job} \/ UNCHANGED pending,
             reported' = reported \cup {job} \/ UNCHANGED reported,
             EndTask,
             UNCHANGED <<row, recorded, ordered, answer, testMode, amazon, queue,
                         review, dialogs, act, startup>>
      PROVE TypeOK'
  <2>1. DatabaseTypes'
    BY <1>0, MoveTypes DEF TypeOK, DatabaseTypes
  <2>2. WorkerTypes'
    BY <1>0 DEF TypeOK, WorkerTypes, EndTask, NoJob, NoTotal
  <2>3. ServiceTypes'
    BY <1>0, EmitTypes DEF TypeOK, ServiceTypes
  <2> QED
    BY <1>0, <2>1, <2>2, <2>3 DEF TypeOK, AmazonTypes, WindowTypes, amazon, startup
<1>a. {"awaiting_confirmation", "cancelled", "blocked", "unknown", "confirmed",
       "failed", "needs_user"} \subseteq States
  BY DEF States, LiveStates, PreparingStates, TerminalStates
<1>b. /\ <<>> \in Seq(Signals) /\ <<Signal("ready", job)>> \in Seq(Signals)
      /\ Uncertain(job) \in Seq(Signals)
  <2>1. <<Signal("ready", job)>> \in Seq(Signals)
    BY DEF Signal, Signals
  <2> QED
    BY <2>1, EmptySequence, UncertainTypes
<1>1. CASE AwaitConfirmation
  BY <1>0, <1>1, <1>a, <1>b DEF AwaitConfirmation
<1>2. CASE FinishTestRun
  BY <1>0, <1>2, <1>a, <1>b DEF FinishTestRun, gui
<1>3. CASE Block
  BY <1>0, <1>3, <1>a, <1>b DEF Block, gui
<1>4. CASE StopForTestMode
  BY <1>0, <1>4, <1>a, <1>b DEF StopForTestMode, gui
<1>5. CASE MarkUncertain
  BY <1>0, <1>5, <1>a, <1>b DEF MarkUncertain, gui
<1>6. CASE Confirm
  BY <1>0, <1>6, <1>a, <1>b DEF Confirm, gui
<1>7. CASE CatchSubmitError
  BY <1>0, <1>7, <1>a, <1>b DEF CatchSubmitError, gui
<1>8. ASSUME NEW e \in {"app", "needs_user"}, CatchPreparationError(e) PROVE TypeOK'
  <2>1. Report(e) \in Seq(Signals) /\ Uncertain(job) \o Report(e) \in Seq(Signals)
    BY <1>b, ReportTypes, ConcatProperties
  <2> QED
    BY <1>0, <1>8, <1>a, <2>1 DEF CatchPreparationError, gui
<1>9. ASSUME NEW e \in {"unexpected", "cancelled"}, CatchUnexpected(e) PROVE TypeOK'
  <2>1. (IF FailTo(job) = "unknown" THEN Uncertain(job) ELSE <<>>) \o Report(e)
          \in Seq(Signals)
    BY <1>b, ReportTypes, ConcatProperties
  <2> QED
    BY <1>0, <1>9, <2>1, FailToTypes DEF CatchUnexpected, gui
<1>10. ASSUME NEW e, LeaveTask(e) PROVE TypeOK'
  BY <1>0, <1>10, <1>a, ReportTypes DEF LeaveTask, database, gui
<1> QED
  BY <1>1, <1>2, <1>3, <1>4, <1>5, <1>6, <1>7, <1>8, <1>9, <1>10

(* The worker between two tasks. *)
LEMMA DequeueTypes ==
  ASSUME TypeOK, SkipTask \/ TakeTask
  PROVE  TypeOK'
<1>0. Head(queue) \in Tasks /\ Tail(queue) \in Seq(Tasks) /\ Head(queue).job \in Jobs
  <2>1. queue # <<>> /\ queue \in Seq(Tasks)
    BY DEF SkipTask, TakeTask, TypeOK, WorkerTypes
  <2>2. Head(queue) \in Tasks /\ Tail(queue) \in Seq(Tasks)
    BY <2>1, HeadTailProperties
  <2> QED
    BY <2>2 DEF Tasks
<1>1. CASE SkipTask
  <2>1. \A kind \in {"cancelled", "failed"} : <<Signal(kind, Head(queue).job)>> \in Seq(Signals)
    BY <1>0 DEF Signal, Signals
  <2>2. ServiceTypes'
    BY <1>1, <2>1, EmitTypes DEF SkipTask, gui, TypeOK, ServiceTypes
  <2> QED
    BY <1>0, <1>1, <2>2 DEF SkipTask, gui, database, amazon, worker, startup,
       TypeOK, DatabaseTypes, AmazonTypes, WorkerTypes, WindowTypes
<1>2. CASE TakeTask
  <2>1. job' \in Jobs /\ step' \in {"recheck", "inspect"}
    BY <1>0, <1>2 DEF TakeTask
  <2>2. state' \in [Jobs -> States \cup {"absent"}]
    BY <1>2, <2>1 DEF TakeTask, TypeOK, DatabaseTypes, Move, States, LiveStates,
                      PreparingStates
  <2>3. DatabaseTypes'
    BY <1>2, <2>2 DEF TakeTask, TypeOK, DatabaseTypes
  <2>4. WorkerTypes'
    BY <1>0, <1>2, <2>1 DEF TakeTask, TypeOK, WorkerTypes, Steps, PrepareSteps,
                            RecheckSteps, Jobs, NoJob
  <2> QED
    BY <1>2, <2>3, <2>4 DEF TakeTask, gui, amazon, startup, TypeOK, AmazonTypes,
                            ServiceTypes, WindowTypes
<1> QED
  BY <1>1, <1>2

(* The GUI thread handles a signal. *)
LEMMA HandleSignalTypes ==
  ASSUME TypeOK, HandleSignal
  PROVE  TypeOK'
<1>0. Received \in Jobs /\ Tail(signals) \in Seq(Signals)
  <2>1. signals # <<>> /\ signals \in Seq(Signals)
    BY DEF HandleSignal, OnReady, OnUncertain, OnFailed, OnCancelled, Receives,
           TypeOK, ServiceTypes
  <2>2. Head(signals) \in Signals /\ Tail(signals) \in Seq(Signals)
    BY <2>1, HeadTailProperties
  <2> QED
    BY <2>2 DEF Received, Signals
<1>1. CASE OnReady \/ OnUncertain
  <2>1. dialogs' \in Seq(Dialogs) /\ signals' \in Seq(Signals)
    BY <1>0, <1>1, OpenTypes DEF OnReady, OnUncertain
  <2> QED
    BY <1>1, <2>1 DEF OnReady, OnUncertain, database, amazon, worker, startup,
       TypeOK, DatabaseTypes, AmazonTypes, WorkerTypes, ServiceTypes, WindowTypes
<1>2. CASE OnFailed \/ OnCancelled
  <2>1. \/ UNCHANGED <<state, dialogs>>
        \/ SettleAs(Received, FailTo(Received))
        \/ SettleAs(Received, CancelTo(Received))
    BY <1>2 DEF OnFailed, OnCancelled
  <2>2. dialogs' \in Seq(Dialogs)
    BY <1>0, <2>1, OpenTypes DEF SettleAs, TypeOK, WindowTypes
  <2>3. state' \in [Jobs -> States \cup {"absent"}]
    BY <1>0, <2>1, FailToTypes, MoveTypes DEF SettleAs, TypeOK, DatabaseTypes
  <2> QED
    BY <1>0, <1>2, <2>2, <2>3 DEF OnFailed, OnCancelled, amazon, worker, startup,
       TypeOK, DatabaseTypes, AmazonTypes, WorkerTypes, ServiceTypes, WindowTypes
<1> QED
  BY <1>1, <1>2 DEF HandleSignal

(* The user acts, and the calls the user began go on. *)
LEMMA UserTypes ==
  ASSUME TypeOK, UserStep \/ FinishCall
  PROVE  TypeOK'
<1> USE DEF database, amazon, worker, startup,
        TypeOK, DatabaseTypes, AmazonTypes, WorkerTypes, ServiceTypes, WindowTypes
<1>1. ASSUME NEW p \in Products, NEW automatic \in BOOLEAN, Start(p, automatic)
      PROVE  TypeOK'
  <2>1. PICK j \in Jobs :
          /\ Move(j, "created")
          /\ row' = [row EXCEPT ![j] = [product |-> p, automatic |-> automatic,
                                        test |-> testMode]]
          /\ queue' = Append(queue, [job |-> j, submit |-> FALSE])
    BY <1>1 DEF Start
  <2>2. state' \in [Jobs -> States \cup {"absent"}] /\ row' \in [Jobs -> Rows]
    BY <2>1 DEF Move, Rows, States, LiveStates, PreparingStates
  <2>3. queue' \in Seq(Tasks)
    BY <2>1 DEF Tasks
  <2> QED
    BY <1>1, <2>2, <2>3 DEF Start
<1>2. ASSUME NEW j \in Jobs, RequestCancel(j) PROVE TypeOK'
  BY <1>2 DEF RequestCancel, Jobs, NoJob
<1>3. CASE Accept \/ Decline \/ DecideLater \/ \E v \in {"placed", "not_placed"} : Resolve(v)
  <2>1. Top \in Dialogs /\ Top.job \in Jobs /\ Top.job # NoJob
    <3>1. dialogs # <<>>
      BY <1>3 DEF Accept, Decline, DecideLater, Resolve, Answering
    <3>2. Top \in Dialogs
      BY <3>1, CloseTypes
    <3>3. Top.job \in Jobs
      BY <3>2 DEF Dialogs
    <3> QED
      BY <3>2, <3>3, MaxJobsAssumption DEF Jobs, NoJob
  <2>2. dialogs' \in Seq(Dialogs)
    BY <1>3, CloseTypes DEF Accept, Decline, DecideLater, Resolve, Answering
  <2>3. CASE Accept
    <3>1. [job |-> Top.job, submit |-> TRUE] \in Tasks
      BY <2>1 DEF Tasks
    <3>2. queue' = queue \/ queue' = Append(queue, [job |-> Top.job, submit |-> TRUE])
      BY <2>3 DEF Accept
    <3>3. queue \in Seq(Tasks)
      OBVIOUS
    <3>4. queue' \in Seq(Tasks)
      BY <3>1, <3>2, <3>3, AppendTypes
    <3> QED
      BY <2>2, <2>3, <3>4 DEF Accept
  <2>4. CASE Decline
    BY <2>1, <2>2, <2>4 DEF Decline, NoAct
  <2>5. CASE DecideLater
    BY <2>2, <2>5 DEF DecideLater
  <2>6. ASSUME NEW v \in {"placed", "not_placed"}, Resolve(v) PROVE TypeOK'
    <3>1. state' \in [Jobs -> States \cup {"absent"}]
      BY <2>1, <2>6 DEF Resolve, Move, States, TerminalStates
    <3>2. answer' \in [Jobs -> {"none", "placed", "not_placed"}]
      BY <2>1, <2>6 DEF Resolve
    <3>3. act' = act \/ act' = NoAct \/ act' = [op |-> "history", job |-> Top.job]
      BY <2>6 DEF Resolve
    <3>4. /\ act' \in [op : {"idle", "stop", "history"}, job : Jobs \cup {NoJob}]
          /\ act'.job = NoJob <=> act'.op = "idle"
      BY <2>1, <3>3 DEF NoAct
    <3> QED
      BY <2>2, <2>6, <3>1, <3>2, <3>4 DEF Resolve
  <2> QED
    BY <1>3, <2>3, <2>4, <2>5, <2>6
<1>4. CASE SwitchTestMode
  BY <1>4 DEF SwitchTestMode
<1>5. CASE FinishCancel
  BY <1>5 DEF FinishCancel, NoAct, NoJob
<1>6. CASE RecordUserConfirmed
  BY <1>6 DEF RecordUserConfirmed, NoAct, NoJob
<1> QED
  BY <1>1, <1>2, <1>3, <1>4, <1>5, <1>6 DEF UserStep, FinishCall

(* The process stops, starts and recovers; Amazon and other tasks act. *)
LEMMA OutsideTypes ==
  ASSUME TypeOK, Shutdown \/ ProcessStops \/ Restart \/ StartupStep \/ Reprice \/ OtherTask
  PROVE  TypeOK'
<1> USE DEF database, amazon, worker, startup,
        TypeOK, DatabaseTypes, AmazonTypes, WorkerTypes, ServiceTypes, WindowTypes
<1>1. CASE Shutdown
  BY <1>1, EmptySequence DEF Shutdown
<1>2. CASE ProcessStops
  BY <1>2, EmptySequence DEF ProcessStops, NoAct, NoCheckout, Checkouts
<1>3. CASE Restart
  BY <1>3 DEF Restart
<1>4. ASSUME NEW j \in Jobs, RecoverInterrupted(j) PROVE TypeOK'
  <2>1. Move(j, "unknown") \/ Move(j, "failed")
    BY <1>4 DEF RecoverInterrupted
  <2>2. state' \in [Jobs -> States \cup {"absent"}]
    BY <2>1 DEF Move, States, LiveStates, TerminalStates
  <2>3. \/ UNCHANGED <<asks, again>>
        \/ asks' = Append(asks, j) /\ again' = Append(again, j)
    BY <1>4 DEF RecoverInterrupted
  <2>4. asks' \in Seq(Jobs) /\ again' \in Seq(Jobs)
    <3>1. asks' = asks \/ asks' = Append(asks, j)
      BY <2>3
    <3>2. again' = again \/ again' = Append(again, j)
      BY <2>3
    <3>3. asks \in Seq(Jobs) /\ again \in Seq(Jobs)
      OBVIOUS
    <3> HIDE DEF TypeOK
    <3> QED
      BY <3>1, <3>2, <3>3, AppendTypes
  <2> QED
    BY <1>4, <2>2, <2>4 DEF RecoverInterrupted
<1>5. CASE PromptAtStartup
  <2>1. Head(asks) \in Jobs /\ Tail(asks) \in Seq(Jobs)
    BY <1>5, HeadTailProperties DEF PromptAtStartup
  <2>2. dialogs' \in Seq(Dialogs)
    BY <1>5, <2>1, OpenTypes DEF PromptAtStartup
  <2> QED
    BY <1>5, <2>1, <2>2 DEF PromptAtStartup
<1>6. CASE StartupDone
  BY <1>6, EmptySequence DEF StartupDone
<1>7. CASE Reprice
  BY <1>7 DEF Reprice, Checkouts
<1>8. CASE OtherTask
  BY <1>8 DEF OtherTask, NoCheckout, Checkouts
<1> QED
  BY <1>1, <1>2, <1>3, <1>4, <1>5, <1>6, <1>7, <1>8 DEF StartupStep

-----------------------------------------------------------------------------

LEMMA NextTypes == TypeOK /\ [Next]_vars => TypeOK'
<1> SUFFICES ASSUME TypeOK, [Next]_vars PROVE TypeOK'
  OBVIOUS
<1>1. CASE WorkerStep
  <2>1. CASE SkipTask \/ TakeTask
    BY <2>1, DequeueTypes
  <2>2. CASE ~(SkipTask \/ TakeTask)
    <3>1. step # "idle"
      BY <1>1, <2>2 DEF WorkerStep, Inspect, CheckRules, PlanCart, PrepareCheckout,
         EnterFinalValidation, AwaitConfirmation, SubmitAutomatically, FinishTestRun,
         Block, Recheck, StopForTestMode, PassTestMode, BeginAttempt, FindButton,
         RecordSubmission, Click, ReadResponse, MarkUncertain, RecordOrder, Confirm,
         CatchSubmitError, CatchPreparationError, CatchUnexpected, LeaveTask, Raised,
         NavigatingSteps, CancelPoints
    <3> QED
      BY <1>1, <2>2, <3>1, AdvanceTypes, EndTypes DEF WorkerStep
  <2> QED
    BY <2>1, <2>2
<1>2. CASE HandleSignal
  BY <1>2, HandleSignalTypes
<1>3. CASE FinishCall \/ UserStep
  BY <1>3, UserTypes
<1>4. CASE Shutdown \/ ProcessStops \/ Restart \/ StartupStep \/ Reprice \/ OtherTask
  BY <1>4, OutsideTypes
<1>5. CASE UNCHANGED vars
  BY <1>5, StutterTypes
<1> QED
  BY <1>1, <1>2, <1>3, <1>4, <1>5 DEF Next

(* Type correctness of the purchase workflow. *)
THEOREM TypeCorrect == Spec => []TypeOK
  BY InitTypes, NextTypes, PTL DEF Spec

-----------------------------------------------------------------------------
(* The queue of tasks and the queue of signals. *)

(* The task that is taken leaves the queue, the others stay. *)
LEMMA QueueShrinks ==
  ASSUME TypeOK, queue # <<>>, queue' = Tail(queue)
  PROVE  /\ Queued(Head(queue).job)
         /\ \A j : Queued(j)' => Queued(j)
         /\ OneHolder => /\ \A j : j = Head(queue).job => ~Queued(j)'
                         /\ \A i, k \in 1 .. Len(queue') :
                               queue'[i].job = queue'[k].job => i = k
<1>1. /\ queue \in Seq(Tasks) /\ Len(queue) \in Nat \ {0} /\ Head(queue) = queue[1]
      /\ Len(queue') = Len(queue) - 1
      /\ \A i \in 1 .. Len(queue') : queue'[i] = queue[i + 1]
  BY HeadTailProperties DEF TypeOK, WorkerTypes
<1>2. Queued(Head(queue).job)
  BY <1>1 DEF Queued
<1>3. ASSUME NEW j, Queued(j)' PROVE Queued(j)
  <2>1. PICK i \in 1 .. Len(queue') : queue'[i].job = j
    BY <1>3 DEF Queued
  <2>2. i + 1 \in 1 .. Len(queue) /\ queue[i + 1].job = j
    BY <1>1, <2>1
  <2> QED
    BY <2>2 DEF Queued
<1>4. ASSUME OneHolder
      PROVE  /\ \A j : j = Head(queue).job => ~Queued(j)'
             /\ \A i, k \in 1 .. Len(queue') : queue'[i].job = queue'[k].job => i = k
  <2>1. \A i, k \in 1 .. Len(queue) : queue[i].job = queue[k].job => i = k
    BY <1>4 DEF OneHolder
  <2>2. ASSUME NEW i \in 1 .. Len(queue'), NEW k \in 1 .. Len(queue'),
               queue'[i].job = queue'[k].job
        PROVE  i = k
    BY <1>1, <2>1, <2>2
  <2>3. ASSUME NEW j, j = Head(queue).job, Queued(j)' PROVE FALSE
    <3>1. PICK i \in 1 .. Len(queue') : queue'[i].job = queue[1].job
      BY <1>1, <2>3 DEF Queued
    <3> QED
      BY <1>1, <2>1, <3>1
  <2> QED
    BY <2>2, <2>3
<1> QED
  BY <1>2, <1>3, <1>4

(* A task that joins the queue is there, and nothing else is new. *)
LEMMA QueueGrows ==
  ASSUME TypeOK, NEW t \in Tasks, queue' = Append(queue, t)
  PROVE  /\ \A j : Queued(j)' <=> Queued(j) \/ j = t.job
         /\ OneHolder /\ ~Queued(t.job) =>
               \A i, k \in 1 .. Len(queue') : queue'[i].job = queue'[k].job => i = k
<1>1. /\ queue \in Seq(Tasks) /\ Len(queue) \in Nat /\ Len(queue') = Len(queue) + 1
      /\ \A i \in 1 .. Len(queue) : queue'[i] = queue[i]
      /\ queue'[Len(queue) + 1] = t
  BY AppendProperties DEF TypeOK, WorkerTypes
<1>2. ASSUME NEW j, Queued(j)' PROVE Queued(j) \/ j = t.job
  BY <1>1, <1>2 DEF Queued
<1>3. ASSUME NEW j, Queued(j) \/ j = t.job PROVE Queued(j)'
  BY <1>1, <1>3 DEF Queued
<1>4. ASSUME OneHolder, ~Queued(t.job)
      PROVE  \A i, k \in 1 .. Len(queue') : queue'[i].job = queue'[k].job => i = k
  <2>1. \A i, k \in 1 .. Len(queue) : queue[i].job = queue[k].job => i = k
    BY <1>4 DEF OneHolder
  <2>2. \A i \in 1 .. Len(queue) : queue[i].job # t.job
    BY <1>4 DEF Queued
  <2> QED
    BY <1>1, <2>1, <2>2
<1> QED
  BY <1>2, <1>3, <1>4

(* What a task emits about its job concerns that job only. *)
LEMMA SignalsGrow ==
  ASSUME TypeOK, NEW e \in Seq(Signals), Emit(e), NEW j,
         \A i \in 1 .. Len(e) : e[i].job = j
  PROVE  /\ \A k : Signalled(k)' => Signalled(k) \/ k = j
         /\ \A k : GivenUp(k)' => GivenUp(k) \/ k = j
         /\ (\A i \in 1 .. Len(e) : e[i].kind \notin {"failed", "cancelled"})
               => \A k : GivenUp(k)' => GivenUp(k)
<1>1. CASE signals' = signals
  BY <1>1 DEF Signalled, GivenUp
<1>2. CASE signals' = signals \o e
  <2>1. /\ Len(signals) \in Nat /\ Len(e) \in Nat
        /\ Len(signals') = Len(signals) + Len(e)
        /\ \A i \in 1 .. Len(signals') :
              signals'[i] = IF i <= Len(signals) THEN signals[i] ELSE e[i - Len(signals)]
    BY <1>2, ConcatProperties DEF TypeOK, ServiceTypes
  <2>2. ASSUME NEW i \in 1 .. Len(signals')
        PROVE  \/ i \in 1 .. Len(signals) /\ signals'[i] = signals[i]
               \/ i - Len(signals) \in 1 .. Len(e) /\ signals'[i] = e[i - Len(signals)]
    BY <2>1
  <2>3. ASSUME NEW k, Signalled(k)' PROVE Signalled(k) \/ k = j
    BY <2>2, <2>3 DEF Signalled
  <2>4. ASSUME NEW k, GivenUp(k)' PROVE GivenUp(k) \/ k = j
    BY <2>2, <2>4 DEF GivenUp
  <2>5. ASSUME \A i \in 1 .. Len(e) : e[i].kind \notin {"failed", "cancelled"},
               NEW k, GivenUp(k)'
        PROVE  GivenUp(k)
    BY <2>2, <2>5 DEF GivenUp
  <2> QED
    BY <2>3, <2>4, <2>5
<1> QED
  BY <1>1, <1>2 DEF Emit

(* A signal that is handled was one about its job, the others stay. *)
LEMMA SignalsShrink ==
  ASSUME TypeOK, NEW k, Receives(k), signals' = Tail(signals)
  PROVE  /\ Received \in Jobs /\ Signalled(Received)
         /\ k \in {"failed", "cancelled"} => GivenUp(Received)
         /\ \A j : Signalled(j)' => Signalled(j)
         /\ \A j : GivenUp(j)' => GivenUp(j)
<1>1. /\ signals \in Seq(Signals) /\ Len(signals) \in Nat \ {0} /\ Head(signals) = signals[1]
      /\ Len(signals') = Len(signals) - 1
      /\ \A i \in 1 .. Len(signals') : signals'[i] = signals[i + 1]
  BY HeadTailProperties DEF Receives, TypeOK, ServiceTypes
<1>2. 1 \in 1 .. Len(signals) /\ signals[1] \in Signals /\ signals[1].kind = k
      /\ Received = signals[1].job
  BY <1>1 DEF Receives, Received
<1>3. Received \in Jobs
  BY <1>2 DEF Signals
<1>4. ASSUME NEW i \in 1 .. Len(signals')
      PROVE  i + 1 \in 1 .. Len(signals) /\ signals'[i] = signals[i + 1]
  BY <1>1
<1>5. ASSUME NEW j PROVE (Signalled(j)' => Signalled(j)) /\ (GivenUp(j)' => GivenUp(j))
  BY <1>4 DEF Signalled, GivenUp
<1> QED
  BY <1>2, <1>3, <1>5 DEF Signalled, GivenUp

-----------------------------------------------------------------------------
(* The invariant is established, and kept by every step. *)

LEMMA InitInv == Init => Inv
<1> SUFFICES ASSUME Init PROVE Inv
  OBVIOUS
<1>1. TypeOK
  BY InitTypes
<1>2. \A j \in Jobs : ~Queued(j) /\ ~HasTask(j) /\ ~Signalled(j) /\ ~GivenUp(j)
  BY DEF Init, Queued, HasTask, Signalled, GivenUp, Jobs, NoJob
<1> QED
  BY <1>1, <1>2 DEF Init, Inv, OneHolder, NoStrangers, TaskIsCurrent, FreshStart,
     OneOrderPerJob, SubmissionNeverForgotten, PrepareSteps, RecheckSteps, SubmitSteps,
     OutcomeSteps, Steps, BeforeRecord

(* Who holds a job and who knows of it depends on these variables only. *)
LEMMA HoldersKept ==
  ASSUME Inv, UNCHANGED <<queue, job, pending, signals, alive>>,
         \A j \in Jobs : state'[j] = "absent" => state[j] = "absent" /\ j \notin recorded'
  PROVE  OneHolder' /\ NoStrangers' /\ FreshStart'
<1>1. \A j : /\ Queued(j)' = Queued(j) /\ HasTask(j)' = HasTask(j)
             /\ Signalled(j)' = Signalled(j) /\ GivenUp(j)' = GivenUp(j)
  BY DEF Queued, HasTask, Signalled, GivenUp
<1>2. OneHolder'
  BY <1>1 DEF Inv, OneHolder
<1>3. NoStrangers'
  BY <1>1 DEF Inv, NoStrangers
<1> QED
  BY <1>2, <1>3 DEF Inv, FreshStart

(* The running job is not queued, not absent, and the program is running. *)
LEMMA Running ==
  ASSUME Inv, step # "idle"
  PROVE  /\ job \in Jobs /\ ~Queued(job) /\ job \notin pending /\ ~GivenUp(job)
         /\ state[job] # "absent" /\ alive \in {"up", "stopping"}
<1>1. job \in Jobs /\ HasTask(job) /\ job # NoJob
  BY RunningJob, MaxJobsAssumption DEF Inv, HasTask, Jobs, NoJob
<1> QED
  BY <1>1 DEF Inv, OneHolder, NoStrangers, FreshStart, TypeOK, WindowTypes

(* A running task goes on. *)
LEMMA AdvanceInv ==
  ASSUME Inv, step # "idle",
         \/ Inspect \/ CheckRules \/ PlanCart \/ PrepareCheckout \/ EnterFinalValidation
         \/ SubmitAutomatically \/ Recheck \/ PassTestMode \/ BeginAttempt \/ FindButton
         \/ RecordSubmission \/ Click \/ ReadResponse \/ RecordOrder
  PROVE  OneHolder' /\ NoStrangers' /\ TaskIsCurrent' /\ FreshStart' /\ OneOrderPerJob'
         /\ SubmissionNeverForgotten'
<1> USE DEF database, amazon, gui, startup, Goto
<1>1. job \in Jobs /\ ~Queued(job) /\ state[job] # "absent"
  BY Running
<1>2. UNCHANGED <<queue, job, pending, signals, alive, answer>>
  BY DEF Inspect, CheckRules, PlanCart, PrepareCheckout, EnterFinalValidation,
         SubmitAutomatically, Recheck, PassTestMode, BeginAttempt, FindButton,
         RecordSubmission, Click, ReadResponse, RecordOrder
<1>3. /\ \A j : Queued(j)' = Queued(j)
      /\ \A j \in Jobs \ {job} : state'[j] = state[j]
      /\ recorded' = recorded \/ (RecordSubmission /\ recorded' = recorded \cup {job})
      /\ placed' = placed \/ Click
  BY <1>1, <1>2 DEF Inspect, CheckRules, PlanCart, PrepareCheckout, EnterFinalValidation,
         SubmitAutomatically, Recheck, PassTestMode, BeginAttempt, FindButton,
         RecordSubmission, Click, ReadResponse, RecordOrder, Queued, Move, Inv, TypeOK,
         DatabaseTypes
<1>4. /\ step' \in PrepareSteps \cup RecheckSteps =>
            state'[job] \in PreparingStates /\ job \notin recorded'
      /\ step' \in SubmitSteps => state'[job] = "submitting"
      /\ step' \in OutcomeSteps => state'[job] = "confirming"
      /\ step' \in BeforeRecord => job \notin recorded'
      /\ step' \in Steps \ BeforeRecord => job \in recorded'
      /\ step' = "click" => RecordSubmission
  BY <1>1 DEF Inspect, CheckRules, PlanCart, PrepareCheckout, EnterFinalValidation,
         SubmitAutomatically, Recheck, PassTestMode, BeginAttempt, FindButton,
         RecordSubmission, Click, ReadResponse, RecordOrder, Move, Inv, TypeOK,
         DatabaseTypes, TaskIsCurrent, PreparingStates, Steps, PrepareSteps, RecheckSteps,
         SubmitSteps, OutcomeSteps, BeforeRecord
<1>5. state'[job] # "absent"
  BY <1>1 DEF Inspect, CheckRules, PlanCart, PrepareCheckout, EnterFinalValidation,
         SubmitAutomatically, Recheck, PassTestMode, BeginAttempt, FindButton,
         RecordSubmission, Click, ReadResponse, RecordOrder, Move, Inv, TypeOK,
         DatabaseTypes
<1>6. OneHolder' /\ NoStrangers' /\ FreshStart'
  <2>1. \A j \in Jobs : state'[j] = "absent" => state[j] = "absent" /\ j \notin recorded'
    BY <1>1, <1>3, <1>5 DEF Inv, NoStrangers
  <2> QED
    BY <1>2, <2>1, HoldersKept
<1>7. OneOrderPerJob'
  <2>1. CASE placed' = placed
    BY <1>3, <2>1 DEF Inv, OneOrderPerJob
  <2>2. CASE Click
    <3>1. PICK taken \in {0, 1} : placed' = [placed EXCEPT ![job] = @ + taken]
      BY <2>2 DEF Click
    <3>2. placed[job] = 0 /\ job \in recorded /\ recorded' = recorded
      BY <2>2 DEF Click, Inv, TaskIsCurrent, Steps, SubmitSteps, BeforeRecord, PrepareSteps,
                  RecheckSteps
    <3> QED
      BY <1>1, <3>1, <3>2 DEF Inv, OneOrderPerJob, TypeOK, AmazonTypes
  <2> QED
    BY <1>3, <2>1, <2>2
<1>8. TaskIsCurrent'
  <2>1. \A j \in Jobs : Queued(j)' => state'[j] \in PreparingStates /\ j \notin recorded'
    BY <1>1, <1>3 DEF Inv, TaskIsCurrent
  <2>2. step' = "click" => placed'[job] = 0
    <3> SUFFICES ASSUME RecordSubmission PROVE placed'[job] = 0
      BY <1>4
    <3>1. placed' = placed /\ job \notin recorded
      BY DEF RecordSubmission
    <3> QED
      BY <1>1, <3>1 DEF Inv, OneOrderPerJob, TypeOK, AmazonTypes
  <2> QED
    BY <1>2, <1>4, <2>1, <2>2 DEF TaskIsCurrent
<1>9. SubmissionNeverForgotten'
  <2>1. CASE UNCHANGED state
    <3>1. ASSUME RecordSubmission PROVE state[job] \in OrderMayExist
      BY <3>1 DEF RecordSubmission, Inv, TaskIsCurrent, SubmitSteps, OrderMayExist
    <3> QED
      BY <1>2, <1>3, <2>1, <3>1 DEF Inv, SubmissionNeverForgotten
  <2>2. CASE recorded' = recorded /\ (job \notin recorded \/ state'[job] \in OrderMayExist)
    BY <1>1, <1>2, <1>3, <2>2 DEF Inv, SubmissionNeverForgotten, TypeOK, DatabaseTypes
  <2>3. \/ UNCHANGED state
        \/ recorded' = recorded /\ (job \notin recorded \/ state'[job] \in OrderMayExist)
    <3>1. CASE Inspect \/ PlanCart \/ PrepareCheckout \/ EnterFinalValidation \/ BeginAttempt
      <4>1. step \in PrepareSteps \cup RecheckSteps /\ recorded' = recorded
        BY <3>1 DEF Inspect, PlanCart, PrepareCheckout, EnterFinalValidation, BeginAttempt,
                    PrepareSteps, RecheckSteps
      <4> QED
        BY <4>1 DEF Inv, TaskIsCurrent, BeforeRecord
    <3>2. CASE ReadResponse
      BY <1>1, <3>2 DEF ReadResponse, Move, Inv, TypeOK, DatabaseTypes, OrderMayExist
    <3>3. CASE CheckRules \/ SubmitAutomatically \/ Recheck \/ PassTestMode \/ FindButton
               \/ RecordSubmission \/ Click \/ RecordOrder
      BY <3>3 DEF CheckRules, SubmitAutomatically, Recheck, PassTestMode, FindButton,
                  RecordSubmission, Click, RecordOrder
    <3> QED
      BY <3>1, <3>2, <3>3
  <2> QED
    BY <2>1, <2>2, <2>3
<1> QED
  BY <1>6, <1>7, <1>8, <1>9

(* Where a task ends, its job is left to one of the others or to nobody. *)
LEMMA EndsInv ==
  ASSUME Inv, step # "idle", EndTask,
         UNCHANGED <<queue, recorded, answer, placed, alive>>,
         NEW s \in States, state' = [state EXCEPT ![job] = s],
         job \in recorded => s \in OrderMayExist \/ s = state[job],
         NEW e \in Seq(Signals), Emit(e), \A i \in 1 .. Len(e) : e[i].job = job,
         \/ UNCHANGED pending
         \/ /\ pending' = pending \cup {job}
            /\ \A i \in 1 .. Len(e) : e[i].kind \notin {"failed", "cancelled"}
  PROVE  OneHolder' /\ NoStrangers' /\ TaskIsCurrent' /\ FreshStart' /\ OneOrderPerJob'
         /\ SubmissionNeverForgotten'
<1>1. /\ job \in Jobs /\ ~Queued(job) /\ job \notin pending /\ ~GivenUp(job)
      /\ state[job] # "absent" /\ alive \in {"up", "stopping"}
  BY Running
<1>2. \A j \in Jobs : /\ Queued(j)' <=> Queued(j)
                      /\ HasTask(j)' <=> Queued(j)
                      /\ HasTask(j) <=> Queued(j) \/ j = job
  BY DEF Queued, HasTask, EndTask, NoJob, Jobs
<1>3. /\ \A k : Signalled(k)' => Signalled(k) \/ k = job
      /\ \A k : GivenUp(k)' => GivenUp(k) \/ k = job
      /\ (\A i \in 1 .. Len(e) : e[i].kind \notin {"failed", "cancelled"})
            => \A k : GivenUp(k)' => GivenUp(k)
  BY SignalsGrow DEF Inv
<1>4. /\ \A j \in Jobs \ {job} : state'[j] = state[j]
      /\ state'[job] = s /\ s # "absent"
  BY <1>1 DEF Inv, TypeOK, DatabaseTypes, States, LiveStates, PreparingStates, TerminalStates
<1>5. OneHolder'
  <2>1. \A i, k \in 1 .. Len(queue') : queue'[i].job = queue'[k].job => i = k
    BY DEF Inv, OneHolder
  <2>2. ASSUME NEW j \in Jobs
        PROVE  /\ Queued(j)' => job' # j
               /\ j \in pending' => ~HasTask(j)'
               /\ GivenUp(j)' => ~HasTask(j)' /\ j \notin pending'
    <3>1. Queued(j)' => job' # j
      BY DEF EndTask, NoJob, Jobs
    <3>2. j \in pending' => ~HasTask(j)'
      BY <1>1, <1>2 DEF Inv, OneHolder
    <3>3. GivenUp(j)' => ~HasTask(j)' /\ j \notin pending'
      BY <1>1, <1>2, <1>3 DEF Inv, OneHolder
    <3> QED
      BY <3>1, <3>2, <3>3
  <2> QED
    BY <2>1, <2>2 DEF OneHolder
<1>6. NoStrangers'
  BY <1>1, <1>2, <1>3, <1>4 DEF Inv, NoStrangers
<1>7. TaskIsCurrent'
  <2>1. \A j \in Jobs : Queued(j)' => state'[j] \in PreparingStates /\ j \notin recorded'
    BY <1>1, <1>2, <1>4 DEF Inv, TaskIsCurrent
  <2> QED
    BY <2>1 DEF TaskIsCurrent, EndTask, Steps, PrepareSteps, RecheckSteps, SubmitSteps,
       OutcomeSteps, BeforeRecord
<1>8. FreshStart'
  BY <1>1 DEF FreshStart
<1>9. OneOrderPerJob'
  BY DEF Inv, OneOrderPerJob
<1>10. SubmissionNeverForgotten'
  BY <1>1, <1>4 DEF Inv, SubmissionNeverForgotten
<1> QED
  BY <1>5, <1>6, <1>7, <1>8, <1>9, <1>10

LEMMA EndInv ==
  ASSUME Inv, step # "idle",
         \/ AwaitConfirmation \/ FinishTestRun \/ Block \/ StopForTestMode
         \/ MarkUncertain \/ Confirm \/ CatchSubmitError
         \/ \E e \in {"app", "needs_user"} : CatchPreparationError(e)
         \/ \E e \in {"unexpected", "cancelled"} : CatchUnexpected(e)
         \/ \E e \in {"app", "needs_user", "unexpected", "cancelled"} : LeaveTask(e)
  PROVE  OneHolder' /\ NoStrangers' /\ TaskIsCurrent' /\ FreshStart' /\ OneOrderPerJob'
         /\ SubmissionNeverForgotten'
<1> USE DEF Move
<1>0. TypeOK /\ job \in Jobs
  BY RunningJob DEF Inv
<1>a. {"awaiting_confirmation", "cancelled", "blocked", "unknown", "confirmed",
       "failed", "needs_user"} \subseteq States
  BY DEF States, LiveStates, PreparingStates, TerminalStates
<1>b. step \in PrepareSteps \cup RecheckSteps => job \notin recorded
  BY DEF Inv, TaskIsCurrent, BeforeRecord
<1>c. /\ <<>> \in Seq(Signals) /\ (UNCHANGED signals => Emit(<<>>))
      /\ \A i \in 1 .. Len(<<>>) : <<>>[i].job = job
  <2>1. <<>> \in Seq(Signals) /\ Len(<<>>) = 0
    BY EmptySequence
  <2>2. UNCHANGED signals => Emit(<<>>)
    BY <1>0, <2>1, EmptySequence, ConcatProperties DEF Emit, TypeOK, ServiceTypes
  <2>3. \A i \in 1 .. Len(<<>>) : <<>>[i].job = job
    BY <2>1
  <2> QED
    BY <2>1, <2>2, <2>3
<1>d. /\ Uncertain(job) \in Seq(Signals)
      /\ \A i \in 1 .. Len(Uncertain(job)) : Uncertain(job)[i].job = job
  BY <1>0, UncertainTypes DEF Uncertain, Signal
<1>e. ASSUME NEW e PROVE Report(e) \in Seq(Signals) /\ \A i \in 1 .. Len(Report(e)) : Report(e)[i].job = job
  BY <1>0, ReportTypes DEF Report, Signal
<1>f. ASSUME NEW e
      PROVE  /\ Uncertain(job) \o Report(e) \in Seq(Signals)
             /\ \A i \in 1 .. Len(Uncertain(job) \o Report(e)) :
                   (Uncertain(job) \o Report(e))[i].job = job
             /\ <<>> \o Report(e) = Report(e)
  BY <1>0, <1>d, <1>e, ConcatProperties, EmptySequence
<1>1. CASE AwaitConfirmation
  <2>1. <<Signal("ready", job)>> \in Seq(Signals)
    BY <1>0 DEF Signal, Signals
  <2>2. /\ \A i \in 1 .. Len(<<Signal("ready", job)>>) : <<Signal("ready", job)>>[i].job = job
        /\ \A i \in 1 .. Len(<<Signal("ready", job)>>) :
               <<Signal("ready", job)>>[i].kind \notin {"failed", "cancelled"}
    BY DEF Signal
  <2>3. job \notin recorded
    BY <1>1, <1>b DEF AwaitConfirmation, PrepareSteps
  <2> QED
    BY <1>1, <1>a, <2>1, <2>2, <2>3, EndsInv DEF AwaitConfirmation, amazon, startup
<1>2. CASE FinishTestRun
  <2>1. job \notin recorded
    BY <1>2, <1>b DEF FinishTestRun, PrepareSteps
  <2> QED
    BY <1>2, <1>a, <1>c, <2>1, EndsInv DEF FinishTestRun, amazon, gui, startup
<1>3. CASE Block
  <2>1. job \notin recorded
    BY <1>3, <1>b DEF Block, PrepareSteps, RecheckSteps
  <2> QED
    BY <1>3, <1>a, <1>c, <2>1, EndsInv DEF Block, amazon, gui, startup
<1>4. CASE StopForTestMode
  <2>1. job \notin recorded
    BY <1>4, <1>b DEF StopForTestMode, RecheckSteps
  <2> QED
    BY <1>4, <1>a, <1>c, <2>1, EndsInv DEF StopForTestMode, amazon, gui, startup
<1>5. CASE MarkUncertain
  BY <1>5, <1>a, <1>d, EndsInv DEF MarkUncertain, amazon, gui, startup, OrderMayExist
<1>6. CASE Confirm
  BY <1>6, <1>a, <1>c, EndsInv DEF Confirm, amazon, gui, startup, OrderMayExist
<1>7. CASE CatchSubmitError
  <2>1. CASE job \in recorded
    BY <1>7, <1>a, <1>d, <2>1, EndsInv DEF CatchSubmitError, amazon, gui, startup, OrderMayExist
  <2>2. CASE job \notin recorded
    BY <1>7, <1>a, <1>c, <2>2, EndsInv DEF CatchSubmitError, amazon, gui, startup
  <2> QED
    BY <2>1, <2>2
<1>8. ASSUME NEW e \in {"app", "needs_user"}, CatchPreparationError(e)
      PROVE  OneHolder' /\ NoStrangers' /\ TaskIsCurrent' /\ FreshStart' /\ OneOrderPerJob'
             /\ SubmissionNeverForgotten'
  <2>1. CASE state[job] \in OrderMayExist
    BY <1>8, <1>a, <1>f, <2>1, EndsInv DEF CatchPreparationError, amazon, gui, startup,
       OrderMayExist
  <2>2. CASE state[job] \notin OrderMayExist
    <3>1. step \in PrepareSteps \cup RecheckSteps
      BY <1>0, <1>8, <2>2 DEF CatchPreparationError, Inv, TaskIsCurrent, TypeOK, WorkerTypes,
         Steps, OrderMayExist
    <3>2. Emit(Report(e)) /\ job \notin recorded
      BY <1>8, <1>b, <2>2, <3>1 DEF CatchPreparationError
    <3>3. PICK s \in States : state' = [state EXCEPT ![job] = s]
      BY <1>8, <1>a, <2>2 DEF CatchPreparationError
    <3> QED
      BY <1>8, <1>e, <3>2, <3>3, EndsInv DEF CatchPreparationError, amazon, gui, startup
  <2> QED
    BY <2>1, <2>2
<1>9. ASSUME NEW e \in {"unexpected", "cancelled"}, CatchUnexpected(e)
      PROVE  OneHolder' /\ NoStrangers' /\ TaskIsCurrent' /\ FreshStart' /\ OneOrderPerJob'
             /\ SubmissionNeverForgotten'
  <2>1. FailTo(job) \in States /\ state' = [state EXCEPT ![job] = FailTo(job)]
    BY <1>0, <1>9, FailToTypes DEF CatchUnexpected
  <2>2. job \in recorded => FailTo(job) \in OrderMayExist \/ FailTo(job) = state[job]
    BY <1>0 DEF FailTo, Inv, SubmissionNeverForgotten, OrderMayExist, TerminalStates
  <2>3. PICK s \in Seq(Signals) : Emit(s) /\ \A i \in 1 .. Len(s) : s[i].job = job
    BY <1>9, <1>e, <1>f DEF CatchUnexpected
  <2> QED
    BY <1>9, <2>1, <2>2, <2>3, EndsInv DEF CatchUnexpected, amazon, gui, startup
<1>10. ASSUME NEW e, LeaveTask(e)
       PROVE  OneHolder' /\ NoStrangers' /\ TaskIsCurrent' /\ FreshStart' /\ OneOrderPerJob'
              /\ SubmissionNeverForgotten'
  <2>1. state' = [state EXCEPT ![job] = state[job]] /\ state[job] \in States
    BY <1>0, <1>10, Running DEF LeaveTask, database, TypeOK, DatabaseTypes
  <2> QED
    BY <1>10, <1>e, <2>1, EndsInv DEF LeaveTask, database, amazon, gui, startup
<1> QED
  BY <1>1, <1>2, <1>3, <1>4, <1>5, <1>6, <1>7, <1>8, <1>9, <1>10

(* The queue's first task starts, or is skipped.  *)
LEMMA DequeueInv ==
  ASSUME Inv, SkipTask \/ TakeTask
  PROVE  OneHolder' /\ NoStrangers' /\ TaskIsCurrent' /\ FreshStart' /\ OneOrderPerJob'
         /\ SubmissionNeverForgotten'
<1> USE DEF amazon, gui, startup, worker, database
<1> DEFINE first == Head(queue).job
<1>1. /\ TypeOK /\ queue # <<>> /\ queue' = Tail(queue) /\ job = NoJob /\ step = "idle"
      /\ UNCHANGED <<pending, alive, recorded, answer, placed>>
  BY DEF SkipTask, TakeTask, Inv, TypeOK, WorkerTypes
<1>2. /\ Queued(first)
      /\ \A j : Queued(j)' => Queued(j)
      /\ \A j : j = first => ~Queued(j)'
      /\ \A i, k \in 1 .. Len(queue') : queue'[i].job = queue'[k].job => i = k
  BY <1>1, QueueShrinks DEF Inv
<1>3. first \in Jobs
  <2>1. Head(queue) \in Tasks
    BY <1>1 DEF TypeOK, WorkerTypes
  <2> QED
    BY <2>1 DEF Tasks
<1>4. /\ \A j : HasTask(j) <=> Queued(j) \/ j = NoJob
      /\ \A j : HasTask(j)' <=> Queued(j)' \/ j = job'
  BY <1>1 DEF HasTask, Queued
<1>5. /\ state[first] \in PreparingStates /\ first \notin recorded /\ first \notin pending
      /\ ~GivenUp(first) /\ HasTask(first) /\ state[first] # "absent"
  BY <1>2, <1>3, <1>4 DEF Inv, TaskIsCurrent, OneHolder, NoStrangers
<1>6. FreshStart'
  BY <1>1 DEF FreshStart, Inv
<1>7. OneOrderPerJob'
  BY <1>1 DEF OneOrderPerJob, Inv
<1>8. CASE SkipTask
  <2>1. UNCHANGED <<job, step, state>>
    BY <1>8 DEF SkipTask
  <2>2. PICK kind \in {"cancelled", "failed"} : Emit(<<Signal(kind, first)>>)
    BY <1>8 DEF SkipTask
  <2>a. <<Signal(kind, first)>> \in Seq(Signals)
    BY <1>3 DEF Signal, Signals
  <2>3. /\ \A k : Signalled(k)' => Signalled(k) \/ k = first
        /\ \A k : GivenUp(k)' => GivenUp(k) \/ k = first
    <3>1. \A i \in 1 .. Len(<<Signal(kind, first)>>) :
             <<Signal(kind, first)>>[i].job = first
      BY DEF Signal
    <3> QED
      BY <1>1, <2>2, <2>a, <3>1, SignalsGrow
  <2>4. OneHolder'
    <3>1. ASSUME NEW j \in Jobs
          PROVE  /\ Queued(j)' => job' # j
                 /\ j \in pending' => ~HasTask(j)'
                 /\ GivenUp(j)' => ~HasTask(j)' /\ j \notin pending'
      BY <1>1, <1>2, <1>4, <1>5, <2>1, <2>3 DEF Inv, OneHolder, Jobs, NoJob
    <3> QED
      BY <1>2, <3>1 DEF OneHolder
  <2>5. NoStrangers'
    BY <1>1, <1>2, <1>4, <1>5, <2>1, <2>3 DEF Inv, NoStrangers, Jobs, NoJob
  <2>6. TaskIsCurrent'
    BY <1>1, <1>2, <2>1 DEF Inv, TaskIsCurrent, Steps, PrepareSteps, RecheckSteps,
       SubmitSteps, OutcomeSteps, BeforeRecord
  <2>7. SubmissionNeverForgotten'
    BY <1>1, <2>1 DEF Inv, SubmissionNeverForgotten
  <2> QED
    BY <1>6, <1>7, <2>4, <2>5, <2>6, <2>7
<1>9. CASE TakeTask
  <2>1. /\ job' = first /\ UNCHANGED signals /\ step' \in {"recheck", "inspect"}
        /\ \A j \in Jobs \ {first} : state'[j] = state[j]
        /\ state'[first] \in PreparingStates
    BY <1>1, <1>3, <1>5, <1>9
       DEF TakeTask, Move, TypeOK, DatabaseTypes, PreparingStates
  <2>2. \A j : Signalled(j)' = Signalled(j) /\ GivenUp(j)' = GivenUp(j)
    BY <2>1 DEF Signalled, GivenUp
  <2>3. OneHolder'
    <3>1. ASSUME NEW j \in Jobs
          PROVE  /\ Queued(j)' => job' # j
                 /\ j \in pending' => ~HasTask(j)'
                 /\ GivenUp(j)' => ~HasTask(j)' /\ j \notin pending'
      BY <1>1, <1>2, <1>4, <1>5, <2>1, <2>2 DEF Inv, OneHolder, Jobs, NoJob
    <3> QED
      BY <1>2, <3>1 DEF OneHolder
  <2>4. NoStrangers'
    BY <1>1, <1>2, <1>4, <1>5, <2>1, <2>2 DEF Inv, NoStrangers, PreparingStates
  <2>5. TaskIsCurrent'
    <3>1. \A j \in Jobs : Queued(j)' => state'[j] \in PreparingStates /\ j \notin recorded'
      BY <1>1, <1>2, <2>1 DEF Inv, TaskIsCurrent
    <3> QED
      BY <1>1, <1>5, <2>1, <3>1 DEF TaskIsCurrent, Steps, PrepareSteps, RecheckSteps,
         SubmitSteps, OutcomeSteps, BeforeRecord
  <2>6. SubmissionNeverForgotten'
    BY <1>1, <1>5, <2>1 DEF Inv, SubmissionNeverForgotten, TypeOK, DatabaseTypes
  <2> QED
    BY <1>6, <1>7, <2>3, <2>4, <2>5, <2>6
<1> QED
  BY <1>8, <1>9

(* The GUI thread handles a signal: what it gives up has no task any more. *)
LEMMA HandleSignalInv ==
  ASSUME Inv, HandleSignal
  PROVE  OneHolder' /\ NoStrangers' /\ TaskIsCurrent' /\ FreshStart' /\ OneOrderPerJob'
         /\ SubmissionNeverForgotten'
<1> USE DEF amazon, startup, worker, database
<1>1. PICK k \in {"ready", "uncertain", "failed", "cancelled"} :
         Receives(k) /\ signals' = Tail(signals)
  BY DEF HandleSignal, OnReady, OnUncertain, OnFailed, OnCancelled
<1>2. /\ TypeOK
      /\ UNCHANGED <<queue, job, step, alive, recorded, answer, placed>>
      /\ pending' \subseteq pending
  BY DEF HandleSignal, OnReady, OnUncertain, OnFailed, OnCancelled, Inv
<1>3. /\ Received \in Jobs /\ Signalled(Received)
      /\ \A j : (Signalled(j)' => Signalled(j)) /\ (GivenUp(j)' => GivenUp(j))
  BY <1>1, <1>2, SignalsShrink
<1>4. /\ state[Received] # "absent"
      /\ OnFailed \/ OnCancelled => GivenUp(Received) /\ ~HasTask(Received)
  <2>1. OnFailed \/ OnCancelled => GivenUp(Received)
    BY <1>2, SignalsShrink DEF OnFailed, OnCancelled
  <2> QED
    BY <1>3, <2>1 DEF Inv, NoStrangers, OneHolder
<1>5. \A j : Queued(j)' = Queued(j) /\ HasTask(j)' = HasTask(j)
  BY <1>2 DEF Queued, HasTask
<1>6. \/ UNCHANGED state
      \/ /\ ~HasTask(Received)
         /\ \E s \in {FailTo(Received), CancelTo(Received)} :
               state' = [state EXCEPT ![Received] = s]
  BY <1>4 DEF HandleSignal, OnReady, OnUncertain, OnFailed, OnCancelled, SettleAs, Move
<1>7. /\ \A j \in Jobs : state'[j] # state[j] => j = Received /\ ~HasTask(j)
      /\ \A j \in recorded : state[j] \in OrderMayExist => state'[j] \in OrderMayExist
      /\ \A j \in recorded : state[j] = "failed" => state'[j] = "failed"
      /\ \A j \in Jobs : state'[j] = "absent" => state[j] = "absent"
  <2>1. ASSUME NEW s \in {FailTo(Received), CancelTo(Received)},
               state' = [state EXCEPT ![Received] = s]
        PROVE  /\ \A j \in Jobs \ {Received} : state'[j] = state[j]
               /\ state'[Received] = s /\ s # "absent"
               /\ state[Received] \in OrderMayExist => s \in OrderMayExist
               /\ state[Received] = "failed" => s = "failed"
    BY <1>2, <1>3, <1>4, <2>1 DEF FailTo, CancelTo, OrderMayExist, TerminalStates, TypeOK,
       DatabaseTypes
  <2>2. recorded \subseteq Jobs
    BY <1>2 DEF TypeOK, DatabaseTypes
  <2> QED
    BY <1>6, <2>1, <2>2
<1>8. OneHolder'
  BY <1>2, <1>3, <1>5 DEF Inv, OneHolder
<1>9. NoStrangers'
  BY <1>2, <1>3, <1>5, <1>7 DEF Inv, NoStrangers
<1>10. TaskIsCurrent'
  <2>1. \A j \in Jobs : Queued(j)' => state'[j] \in PreparingStates /\ j \notin recorded'
    BY <1>2, <1>5, <1>7 DEF Inv, TaskIsCurrent, HasTask, Queued
  <2>2. step # "idle" => job \in Jobs /\ HasTask(job)
    BY <1>2, RunningJob DEF HasTask
  <2>3. step # "idle" => state'[job] = state[job]
    BY <1>7, <2>2
  <2>4. UNCHANGED <<job, step, recorded, placed>>
    BY <1>2
  <2> QED
    BY <2>1, <2>3, <2>4 DEF Inv, TaskIsCurrent, Steps, PrepareSteps, RecheckSteps,
       SubmitSteps, OutcomeSteps, BeforeRecord
<1>11. FreshStart'
  <2>1. alive \notin {"down", "recovering"}
    BY <1>1 DEF Inv, FreshStart, Receives
  <2> QED
    BY <1>2, <2>1 DEF FreshStart
<1>12. OneOrderPerJob'
  BY <1>2 DEF Inv, OneOrderPerJob
<1>13. SubmissionNeverForgotten'
  BY <1>2, <1>7 DEF Inv, SubmissionNeverForgotten
<1> QED
  BY <1>8, <1>9, <1>10, <1>11, <1>12, <1>13

(* The user starts a purchase: nothing is known of the new job. *)
LEMMA StartInv ==
  ASSUME Inv, NEW p \in Products, NEW automatic \in BOOLEAN, Start(p, automatic)
  PROVE  OneHolder' /\ NoStrangers' /\ TaskIsCurrent' /\ FreshStart' /\ OneOrderPerJob'
         /\ SubmissionNeverForgotten'
<1> USE DEF amazon, startup, worker
<1>1. PICK j \in Jobs : /\ state[j] = "absent"
                        /\ state' = [state EXCEPT ![j] = "created"]
                        /\ queue' = Append(queue, [job |-> j, submit |-> FALSE])
  BY DEF Start, Move
<1>2. /\ TypeOK /\ alive = "up"
      /\ UNCHANGED <<recorded, answer, placed, job, step, pending, signals, alive>>
  BY DEF Start, Inv
<1>3. ~HasTask(j) /\ ~Queued(j) /\ j \notin pending /\ j \notin recorded /\ ~Signalled(j)
      /\ ~GivenUp(j)
  BY <1>1 DEF Inv, NoStrangers, HasTask, Queued, Signalled, GivenUp
<1>4. /\ \A k : Queued(k)' <=> Queued(k) \/ k = j
      /\ \A i, k \in 1 .. Len(queue') : queue'[i].job = queue'[k].job => i = k
  <2>1. [job |-> j, submit |-> FALSE] \in Tasks
    BY DEF Tasks
  <2> QED
    BY <1>1, <1>2, <1>3, <2>1, QueueGrows DEF Inv
<1>5. /\ \A k : HasTask(k) <=> Queued(k) \/ k = job
      /\ \A k : HasTask(k)' <=> Queued(k)' \/ k = job
      /\ \A k : Signalled(k)' = Signalled(k) /\ GivenUp(k)' = GivenUp(k)
  BY <1>2 DEF HasTask, Queued, Signalled, GivenUp
<1>6. /\ \A k \in Jobs \ {j} : state'[k] = state[k]
      /\ state'[j] = "created" /\ job # j
  BY <1>1, <1>2, <1>3 DEF TypeOK, DatabaseTypes, HasTask
<1>7. OneHolder'
  <2>1. ASSUME NEW k \in Jobs
        PROVE  /\ Queued(k)' => job' # k
               /\ k \in pending' => ~HasTask(k)'
               /\ GivenUp(k)' => ~HasTask(k)' /\ k \notin pending'
    BY <1>2, <1>3, <1>4, <1>5, <1>6 DEF Inv, OneHolder
  <2> QED
    BY <1>4, <2>1 DEF OneHolder
<1>8. NoStrangers'
  BY <1>2, <1>3, <1>4, <1>5, <1>6 DEF Inv, NoStrangers
<1>9. TaskIsCurrent'
  <2>1. \A k \in Jobs : Queued(k)' => state'[k] \in PreparingStates /\ k \notin recorded'
    BY <1>2, <1>3, <1>4, <1>6 DEF Inv, TaskIsCurrent, PreparingStates
  <2>2. step # "idle" => state'[job] = state[job]
    BY <1>2, <1>6, RunningJob
  <2>3. UNCHANGED <<job, step, recorded, placed>>
    BY <1>2
  <2> QED
    BY <2>1, <2>2, <2>3 DEF Inv, TaskIsCurrent, Steps, PrepareSteps, RecheckSteps,
       SubmitSteps, OutcomeSteps, BeforeRecord
<1>10. FreshStart' /\ OneOrderPerJob'
  BY <1>2 DEF Inv, FreshStart, OneOrderPerJob
<1>11. SubmissionNeverForgotten'
  BY <1>2, <1>3, <1>6 DEF Inv, SubmissionNeverForgotten, TypeOK, DatabaseTypes
<1> QED
  BY <1>7, <1>8, <1>9, <1>10, <1>11

(* The user confirms a review: it leaves the service's hands for the queue. *)
LEMMA AcceptInv ==
  ASSUME Inv, Accept
  PROVE  OneHolder' /\ NoStrangers' /\ TaskIsCurrent' /\ FreshStart' /\ OneOrderPerJob'
         /\ SubmissionNeverForgotten'
<1> USE DEF database, amazon, startup, worker
<1>1. /\ TypeOK /\ pending' = pending \ {Top.job}
      /\ UNCHANGED <<recorded, answer, placed, state, job, step, signals, alive>>
  BY DEF Accept, Inv
<1>2. /\ OneOrderPerJob' /\ SubmissionNeverForgotten'
  BY <1>1 DEF Inv, OneOrderPerJob, SubmissionNeverForgotten
<1>3. CASE queue' = queue
  <2>1. \A j : /\ Queued(j)' = Queued(j) /\ HasTask(j)' = HasTask(j)
               /\ Signalled(j)' = Signalled(j) /\ GivenUp(j)' = GivenUp(j)
    BY <1>1, <1>3 DEF Queued, HasTask, Signalled, GivenUp
  <2>2. OneHolder' /\ NoStrangers'
    BY <1>1, <1>3, <2>1 DEF Inv, OneHolder, NoStrangers
  <2>3. TaskIsCurrent'
    BY <1>1, <2>1 DEF Inv, TaskIsCurrent
  <2>4. FreshStart'
    BY <1>1, <1>3 DEF Inv, FreshStart
  <2> QED
    BY <1>2, <2>2, <2>3, <2>4
<1>4. CASE queue' # queue
  <2>1. PICK j \in Jobs : /\ j = Top.job /\ j \in pending /\ j \notin recorded
                          /\ state[j] = "awaiting_confirmation"
                          /\ queue' = Append(queue, [job |-> j, submit |-> TRUE])
    BY <1>1, <1>4 DEF Accept, TypeOK, ServiceTypes
  <2>2. ~HasTask(j) /\ ~Queued(j) /\ ~GivenUp(j) /\ job # j
    BY <2>1 DEF Inv, OneHolder, HasTask, Queued
  <2>3. /\ \A k : Queued(k)' <=> Queued(k) \/ k = j
        /\ \A i, k \in 1 .. Len(queue') : queue'[i].job = queue'[k].job => i = k
    <3>1. [job |-> j, submit |-> TRUE] \in Tasks
      BY DEF Tasks
    <3> QED
      BY <1>1, <2>1, <2>2, <3>1, QueueGrows DEF Inv
  <2>4. /\ \A k : HasTask(k) <=> Queued(k) \/ k = job
        /\ \A k : HasTask(k)' <=> Queued(k)' \/ k = job
        /\ \A k : Signalled(k)' = Signalled(k) /\ GivenUp(k)' = GivenUp(k)
    BY <1>1 DEF HasTask, Queued, Signalled, GivenUp
  <2>5. OneHolder'
    <3>1. ASSUME NEW k \in Jobs
          PROVE  /\ Queued(k)' => job' # k
                 /\ k \in pending' => ~HasTask(k)'
                 /\ GivenUp(k)' => ~HasTask(k)' /\ k \notin pending'
      BY <1>1, <2>1, <2>2, <2>3, <2>4 DEF Inv, OneHolder
    <3> QED
      BY <2>3, <3>1 DEF OneHolder
  <2>6. NoStrangers'
    BY <1>1, <2>1, <2>3, <2>4 DEF Inv, NoStrangers
  <2>7. TaskIsCurrent'
    BY <1>1, <2>1, <2>3 DEF Inv, TaskIsCurrent, PreparingStates
  <2>8. FreshStart'
    BY <1>1, <2>1 DEF Inv, FreshStart
  <2> QED
    BY <1>2, <2>5, <2>6, <2>7, <2>8
<1> QED
  BY <1>3, <1>4

(* The user answers: an uncertain job has neither a task nor a place in the *)
(* queue, and the answer settles it.                                        *)
LEMMA ResolveInv ==
  ASSUME Inv, NEW verdict \in {"placed", "not_placed"}, Resolve(verdict)
  PROVE  OneHolder' /\ NoStrangers' /\ TaskIsCurrent' /\ FreshStart' /\ OneOrderPerJob'
         /\ SubmissionNeverForgotten'
<1> USE DEF amazon, startup, worker
<1> DEFINE asked == Top.job
<1>1. /\ TypeOK /\ asked \in Jobs
      /\ UNCHANGED <<recorded, placed, queue, job, step, pending, signals, alive>>
  BY CloseTypes DEF Resolve, Answering, Inv, Dialogs
<1>2. \/ UNCHANGED <<state, answer>>
      \/ /\ state[asked] = "unknown"
         /\ state' = [state EXCEPT ![asked] =
                         IF verdict = "placed" THEN "confirmed" ELSE "failed"]
         /\ answer' = [answer EXCEPT ![asked] = verdict]
  BY DEF Resolve, Move
<1>3. /\ \A i \in Jobs : /\ state'[i] = "absent" => state[i] = "absent"
                         /\ state'[i] # state[i] => state[i] = "unknown"
      /\ \A i \in recorded : \/ state'[i] \in OrderMayExist
                             \/ state'[i] = "failed" /\ answer'[i] = "not_placed"
  <2>1. recorded \subseteq Jobs
    BY <1>1 DEF TypeOK, DatabaseTypes
  <2>2. CASE UNCHANGED <<state, answer>>
    BY <2>1, <2>2 DEF Inv, SubmissionNeverForgotten
  <2>3. CASE /\ state[asked] = "unknown"
             /\ state' = [state EXCEPT ![asked] =
                             IF verdict = "placed" THEN "confirmed" ELSE "failed"]
             /\ answer' = [answer EXCEPT ![asked] = verdict]
    <3>1. /\ \A i \in Jobs \ {asked} : state'[i] = state[i] /\ answer'[i] = answer[i]
          /\ answer'[asked] = verdict
          /\ state'[asked] = IF verdict = "placed" THEN "confirmed" ELSE "failed"
      BY <1>1, <2>3 DEF TypeOK, DatabaseTypes
    <3>2. \A i \in recorded : \/ state[i] \in OrderMayExist
                              \/ state[i] = "failed" /\ answer[i] = "not_placed"
      BY DEF Inv, SubmissionNeverForgotten
    <3>3. \/ state'[asked] \in OrderMayExist
          \/ state'[asked] = "failed" /\ answer'[asked] = "not_placed"
      BY <3>1 DEF OrderMayExist
    <3>4. \A i \in Jobs : /\ state'[i] = "absent" => state[i] = "absent"
                          /\ state'[i] # state[i] => state[i] = "unknown"
      BY <2>3, <3>1
    <3> QED
      BY <2>1, <3>1, <3>2, <3>3, <3>4
  <2> QED
    BY <1>2, <2>2, <2>3
<1>4. \A i : Queued(i)' = Queued(i)
  BY <1>1 DEF Queued
<1>5. OneHolder' /\ NoStrangers' /\ FreshStart'
  BY <1>1, <1>3, HoldersKept DEF Inv, NoStrangers
<1>6. TaskIsCurrent'
  <2>1. \A i \in Jobs : Queued(i)' => state'[i] \in PreparingStates /\ i \notin recorded'
    BY <1>1, <1>3, <1>4 DEF Inv, TaskIsCurrent, PreparingStates
  <2>2. step # "idle" => state[job] # "unknown" /\ job \in Jobs
    BY <1>1, RunningJob DEF Inv, TaskIsCurrent, TypeOK, WorkerTypes, Steps, PreparingStates
  <2>3. step # "idle" => state'[job] = state[job]
    BY <1>3, <2>2
  <2>4. UNCHANGED <<job, step, recorded, placed>>
    BY <1>1
  <2> QED
    BY <2>1, <2>3, <2>4 DEF Inv, TaskIsCurrent, Steps, PrepareSteps, RecheckSteps,
       SubmitSteps, OutcomeSteps, BeforeRecord
<1>7. OneOrderPerJob' /\ SubmissionNeverForgotten'
  BY <1>1, <1>3 DEF Inv, OneOrderPerJob, SubmissionNeverForgotten
<1> QED
  BY <1>5, <1>6, <1>7

(* Steps that leave every job, and all but the review of one, as they are. *)
LEMMA AsideInv ==
  ASSUME Inv,
         UNCHANGED <<state, recorded, answer, placed, queue, job, step, signals>>,
         pending' \subseteq pending,
         alive' \in {"down", "recovering"} => alive \in {"down", "recovering"}
  PROVE  OneHolder' /\ NoStrangers' /\ TaskIsCurrent' /\ FreshStart' /\ OneOrderPerJob'
         /\ SubmissionNeverForgotten'
<1>1. \A j : /\ Queued(j)' = Queued(j) /\ HasTask(j)' = HasTask(j)
             /\ Signalled(j)' = Signalled(j) /\ GivenUp(j)' = GivenUp(j)
  BY DEF Queued, HasTask, Signalled, GivenUp
<1>2. OneHolder' /\ NoStrangers'
  BY <1>1 DEF Inv, OneHolder, NoStrangers
<1>3. TaskIsCurrent'
  BY <1>1 DEF Inv, TaskIsCurrent
<1>4. FreshStart' /\ OneOrderPerJob' /\ SubmissionNeverForgotten'
  BY DEF Inv, FreshStart, OneOrderPerJob, SubmissionNeverForgotten
<1> QED
  BY <1>2, <1>3, <1>4

(* The process stops, in the middle of anything: memory is lost, the        *)
(* database and the orders are not.                                         *)
LEMMA StopInv ==
  ASSUME Inv, ProcessStops \/ Shutdown
  PROVE  OneHolder' /\ NoStrangers' /\ TaskIsCurrent' /\ FreshStart' /\ OneOrderPerJob'
         /\ SubmissionNeverForgotten'
<1> USE DEF database, amazon, worker
<1>1. UNCHANGED <<state, recorded, answer, placed>> /\ signals' = <<>>
  BY DEF ProcessStops, Shutdown
<1>2. \A j : ~Signalled(j)' /\ ~GivenUp(j)'
  BY <1>1 DEF Signalled, GivenUp
<1>3. OneOrderPerJob' /\ SubmissionNeverForgotten'
  BY <1>1 DEF Inv, OneOrderPerJob, SubmissionNeverForgotten
<1>4. CASE ProcessStops
  <2>1. queue' = <<>> /\ job' = NoJob /\ step' = "idle" /\ pending' = {}
    BY <1>4 DEF ProcessStops
  <2>2. \A j \in Jobs : ~Queued(j)' /\ ~HasTask(j)'
    BY <2>1 DEF Queued, HasTask, Jobs, NoJob
  <2>3. OneHolder' /\ NoStrangers' /\ FreshStart'
    BY <1>1, <1>2, <2>1, <2>2 DEF Inv, OneHolder, NoStrangers, FreshStart
  <2>4. TaskIsCurrent'
    BY <2>1, <2>2 DEF TaskIsCurrent, Steps, PrepareSteps, RecheckSteps, SubmitSteps,
       OutcomeSteps, BeforeRecord
  <2> QED
    BY <1>3, <2>3, <2>4
<1>5. CASE Shutdown
  <2>1. UNCHANGED <<queue, job, step, pending>> /\ alive' = "stopping"
    BY <1>5 DEF Shutdown
  <2>2. \A j : Queued(j)' = Queued(j) /\ HasTask(j)' = HasTask(j)
    BY <2>1 DEF Queued, HasTask
  <2>3. OneHolder' /\ NoStrangers' /\ FreshStart'
    BY <1>1, <1>2, <2>1, <2>2 DEF Inv, OneHolder, NoStrangers, FreshStart
  <2>4. TaskIsCurrent'
    BY <1>1, <2>1, <2>2 DEF Inv, TaskIsCurrent
  <2> QED
    BY <1>3, <2>3, <2>4
<1> QED
  BY <1>4, <1>5

(* A restart settles an interrupted job by what the database recorded.      *)
LEMMA RecoverInv ==
  ASSUME Inv, NEW j \in Jobs, RecoverInterrupted(j)
  PROVE  OneHolder' /\ NoStrangers' /\ TaskIsCurrent' /\ FreshStart' /\ OneOrderPerJob'
         /\ SubmissionNeverForgotten'
<1> USE DEF amazon, worker
<1>1. /\ TypeOK /\ job = NoJob /\ queue = <<>> /\ step = "idle"
      /\ UNCHANGED <<recorded, answer, placed, queue, job, step, pending, signals, alive>>
  BY DEF RecoverInterrupted, Inv, FreshStart, TypeOK, WorkerTypes
<1>2. PICK s \in {"unknown", "failed"} : /\ state' = [state EXCEPT ![j] = s]
                                         /\ j \in recorded => s = "unknown"
  BY DEF RecoverInterrupted, Move
<1>3. /\ state'[j] = s /\ s # "absent"
      /\ \A i \in Jobs \ {j} : state'[i] = state[i]
  BY <1>1, <1>2 DEF TypeOK, DatabaseTypes
<1>4. OneHolder' /\ NoStrangers' /\ FreshStart'
  <2>1. \A i \in Jobs : state'[i] = "absent" => state[i] = "absent" /\ i \notin recorded'
    BY <1>1, <1>3 DEF Inv, NoStrangers
  <2> QED
    BY <1>1, <2>1, HoldersKept
<1>5. TaskIsCurrent'
  <2>1. \A i \in Jobs : ~Queued(i)'
    BY <1>1 DEF Queued
  <2> QED
    BY <1>1, <2>1 DEF TaskIsCurrent, Steps, PrepareSteps, RecheckSteps, SubmitSteps,
       OutcomeSteps, BeforeRecord
<1>6. OneOrderPerJob'
  BY <1>1 DEF Inv, OneOrderPerJob
<1>7. SubmissionNeverForgotten'
  <2>1. recorded \subseteq Jobs /\ recorded' = recorded /\ answer' = answer
    BY <1>1 DEF TypeOK, DatabaseTypes
  <2>2. ASSUME NEW i \in recorded
        PROVE  \/ state'[i] \in OrderMayExist
               \/ state'[i] = "failed" /\ answer[i] = "not_placed"
    <3>1. CASE i = j
      BY <1>2, <1>3, <3>1 DEF OrderMayExist
    <3>2. CASE i # j
      BY <1>3, <2>1, <3>2 DEF Inv, SubmissionNeverForgotten
    <3> QED
      BY <3>1, <3>2
  <2> QED
    BY <2>1, <2>2 DEF SubmissionNeverForgotten
<1> QED
  BY <1>4, <1>5, <1>6, <1>7

LEMMA NextInv == Inv /\ [Next]_vars => Inv'
<1> SUFFICES ASSUME Inv, [Next]_vars PROVE Inv'
  OBVIOUS
<1> USE DEF database, amazon, worker, gui, startup
<1> DEFINE Kept == /\ OneHolder' /\ NoStrangers' /\ TaskIsCurrent' /\ FreshStart'
                   /\ OneOrderPerJob' /\ SubmissionNeverForgotten'
<1>1. SUFFICES Kept
  BY NextTypes DEF Inv
<1>2. CASE WorkerStep
  <2>1. CASE SkipTask \/ TakeTask
    BY <2>1, DequeueInv
  <2>2. CASE \/ Inspect \/ CheckRules \/ PlanCart \/ PrepareCheckout \/ EnterFinalValidation
             \/ SubmitAutomatically \/ Recheck \/ PassTestMode \/ BeginAttempt \/ FindButton
             \/ RecordSubmission \/ Click \/ ReadResponse \/ RecordOrder
    <3>1. step # "idle"
      BY <2>2 DEF Inspect, CheckRules, PlanCart, PrepareCheckout, EnterFinalValidation,
         SubmitAutomatically, Recheck, PassTestMode, BeginAttempt, FindButton,
         RecordSubmission, Click, ReadResponse, RecordOrder
    <3> QED
      BY <2>2, <3>1, AdvanceInv
  <2>3. CASE \/ AwaitConfirmation \/ FinishTestRun \/ Block \/ StopForTestMode
             \/ MarkUncertain \/ Confirm \/ CatchSubmitError
             \/ \E e \in {"app", "needs_user"} : CatchPreparationError(e)
             \/ \E e \in {"unexpected", "cancelled"} : CatchUnexpected(e)
             \/ \E e \in {"app", "needs_user", "unexpected", "cancelled"} : LeaveTask(e)
    <3>1. step # "idle"
      BY <2>3 DEF AwaitConfirmation, FinishTestRun, Block, StopForTestMode, MarkUncertain,
         Confirm, CatchSubmitError, CatchPreparationError, CatchUnexpected, LeaveTask,
         Raised, NavigatingSteps, CancelPoints, SubmitSteps
    <3> QED
      BY <2>3, <3>1, EndInv
  <2> QED
    BY <1>2, <2>1, <2>2, <2>3 DEF WorkerStep
<1>3. CASE HandleSignal
  BY <1>3, HandleSignalInv
<1>4. CASE \/ FinishCall \/ Decline \/ DecideLater \/ SwitchTestMode \/ Restart
           \/ \E j \in Jobs : RequestCancel(j)
           \/ PromptAtStartup \/ StartupDone \/ Reprice \/ OtherTask \/ UNCHANGED vars
  <2>1. /\ UNCHANGED <<state, recorded, answer, placed, queue, job, step, signals>>
        /\ pending' \subseteq pending
        /\ alive' \in {"down", "recovering"} => alive \in {"down", "recovering"}
    BY <1>4 DEF FinishCall, FinishCancel, RecordUserConfirmed, Decline, DecideLater,
       SwitchTestMode, Restart, RequestCancel, PromptAtStartup, StartupDone, Reprice,
       OtherTask, vars
  <2> QED
    BY <2>1, AsideInv
<1>5. CASE \E p \in Products, automatic \in BOOLEAN : Start(p, automatic)
  BY <1>5, StartInv
<1>6. CASE Accept
  BY <1>6, AcceptInv
<1>7. CASE \E verdict \in {"placed", "not_placed"} : Resolve(verdict)
  BY <1>7, ResolveInv
<1>8. CASE ProcessStops \/ Shutdown
  BY <1>8, StopInv
<1>9. CASE \E j \in Jobs : RecoverInterrupted(j)
  BY <1>9, RecoverInv
<1> QED
  BY <1>2, <1>3, <1>4, <1>5, <1>6, <1>7, <1>8, <1>9 DEF Next, UserStep, StartupStep

-----------------------------------------------------------------------------
(* What follows for every behaviour of the workflow. *)

(* The invariant: who holds a job, and what its task may take for granted. *)
THEOREM Invariance == Spec => []Inv
<1>1. Inv /\ [Next]_vars => Inv'
  BY NextInv
<1> QED
  BY InitInv, <1>1, PTL DEF Spec

(* A job is ordered at most once, and only after its submission is recorded. *)
THEOREM NoDoubleOrder == Spec => []OneOrderPerJob
<1>1. Inv => OneOrderPerJob
  BY DEF Inv
<1> QED
  BY Invariance, <1>1, PTL

(* A recorded submission stays a possible order until the user denies it.  *)
THEOREM NothingForgotten == Spec => []SubmissionNeverForgotten
<1>1. Inv => SubmissionNeverForgotten
  BY DEF Inv
<1> QED
  BY Invariance, <1>1, PTL

(* No two parties of the workflow ever hold the same job.                  *)
THEOREM OnePartyPerJob == Spec => []OneHolder
<1>1. Inv => OneHolder
  BY DEF Inv
<1> QED
  BY Invariance, <1>1, PTL

(* No thread moves a job under its task's feet: what the task relies on at  *)
(* each of its steps holds there.                                           *)
THEOREM TasksAreCurrent == Spec => []TaskIsCurrent
<1>1. Inv => TaskIsCurrent
  BY DEF Inv
<1> QED
  BY Invariance, <1>1, PTL
=============================================================================
