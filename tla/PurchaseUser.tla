---------------------------- MODULE PurchaseUser -----------------------------
(***************************************************************************)
(* What the user of the purchase workflow is shown and asked, for any      *)
(* products, totals and number of jobs: jobs move along the table, what    *)
(* was reviewed is what is recorded as submitted, a confirmed order is in  *)
(* the history, a question about an uncertain order is asked once, and     *)
(* somebody is about to move every purchase that is on its way.  The rest  *)
(* of the program is shown slots, as PurchaseSlots promises.               *)
(*                                                                         *)
(* The inductive invariant is Inv /\ UserInv of PurchaseInvariant.  Inv    *)
(* says who holds a job; UserInv adds where in the table a task finds its  *)
(* job, and that a question concerns a job that will never become          *)
(* uncertain again.  For the last two, CarryInv adds that what a report    *)
(* calls decided is decided, and KnownProducts that only a product of the  *)
(* program is bought.                                                      *)
(***************************************************************************)
EXTENDS PurchasePromise

-----------------------------------------------------------------------------
(* The table of the states. *)

(* Every state a job may be diverted to is in the table, and so is the next  *)
(* one of the sequence.                                                      *)
LEMMA Table ==
  /\ \A s \in PreparingStates : \A t \in Diversions : CanMove(s, t)
  /\ CanMove("created", "product_check")
  /\ CanMove("product_check", "rule_validation")
  /\ CanMove("rule_validation", "cart_preparation")
  /\ CanMove("cart_preparation", "checkout")
  /\ CanMove("checkout", "final_validation")
  /\ CanMove("final_validation", "awaiting_confirmation")
  /\ \A s \in SubmitEntryStates : CanMove(s, "submitting")
  /\ CanMove("submitting", "confirming") /\ CanMove("confirming", "confirmed")
  /\ \A s \in {"submitting", "confirming"}, t \in {"unknown", "failed"} : CanMove(s, t)
  /\ \A t \in Diversions : CanMove("needs_user", t)
  /\ CanMove("unknown", "confirmed") /\ CanMove("unknown", "failed")
<1> USE DEF CanMove
<1>1. ASSUME NEW s \in PreparingStates
      PROVE  AllowedTransitions[s] = Diversions \cup Advances[s]
  BY <1>1 DEF AllowedTransitions, States, LiveStates, PreparingStates, TerminalStates
<1>2. AllowedTransitions["submitting"] = {"confirming", "unknown", "failed"}
  BY DEF AllowedTransitions, States, LiveStates, PreparingStates, TerminalStates
<1>3. AllowedTransitions["confirming"] = {"confirmed", "unknown", "failed"}
  BY DEF AllowedTransitions, States, LiveStates, PreparingStates, TerminalStates
<1>4. AllowedTransitions["unknown"] = {"confirmed", "failed"}
  BY DEF AllowedTransitions, States, LiveStates, PreparingStates, TerminalStates
<1>5. AllowedTransitions["needs_user"]
         = (Diversions \cup PreparingStates) \ {"needs_user", "created"}
  BY DEF AllowedTransitions, States, LiveStates, PreparingStates, TerminalStates
<1>6. \A s \in PreparingStates : \A t \in Diversions : CanMove(s, t)
  BY <1>1
<1>7. /\ CanMove("created", "product_check")
      /\ CanMove("product_check", "rule_validation")
      /\ CanMove("rule_validation", "cart_preparation")
      /\ CanMove("cart_preparation", "checkout")
      /\ CanMove("checkout", "final_validation")
      /\ CanMove("final_validation", "awaiting_confirmation")
      /\ \A s \in SubmitEntryStates : CanMove(s, "submitting")
  BY <1>1 DEF PreparingStates, Advances, SubmitEntryStates
<1>8. \A t \in Diversions : CanMove("needs_user", t)
  BY <1>5 DEF Diversions, PreparingStates
<1> QED
  BY <1>2, <1>3, <1>4, <1>6, <1>7, <1>8

(* The move of one job, and no other. *)
LEMMA MoveOne ==
  ASSUME Inv, NEW j \in Jobs, NEW s, Move(j, s)
  PROVE  state'[j] = s /\ \A i \in Jobs \ {j} : state'[i] = state[i]
  BY DEF Move, Inv, TypeOK, DatabaseTypes

(* A legal move of one job is a legal step. *)
LegalStep ==
    \A j \in Jobs :
        IF state[j] = "absent" THEN state'[j] \in {"absent", "created"}
        ELSE CanMove(state[j], state'[j])

LEMMA OneLegalMove ==
  ASSUME Inv, NEW j \in Jobs, NEW s, Move(j, s), state[j] # "absent", CanMove(state[j], s)
  PROVE  LegalStep
<1>1. state'[j] = s /\ \A i \in Jobs \ {j} : state'[i] = state[i]
  BY MoveOne
<1> QED
  BY <1>1 DEF LegalStep, CanMove

LEMMA LegalWorker ==
  ASSUME Inv, StepStates, WorkerStep
  PROVE  LegalStep
<1>0. step # "idle" => job \in Jobs /\ state[job] # "absent"
  BY Running
<1>a. step \in PrepareSteps \cup RecheckSteps => state[job] \in PreparingStates
  BY DEF Inv, TaskIsCurrent
<1>b. /\ step \in SubmitSteps => state[job] = "submitting"
      /\ step \in OutcomeSteps => state[job] = "confirming"
  BY DEF Inv, TaskIsCurrent
<1>c. {"blocked", "failed", "needs_user", "cancelled", "unknown"} \subseteq Diversions
  BY DEF Diversions
<1>d. step \in Steps \cup {"idle"}
  BY DEF Inv, TypeOK, WorkerTypes
<1>1. ASSUME UNCHANGED state PROVE LegalStep
  BY <1>1 DEF LegalStep, CanMove
<1>2. CASE SkipTask \/ CheckRules \/ SubmitAutomatically \/ Recheck \/ PassTestMode
           \/ FindButton \/ RecordSubmission \/ Click \/ RecordOrder
           \/ \E e \in {"app", "needs_user", "unexpected", "cancelled"} : LeaveTask(e)
  BY <1>1, <1>2 DEF SkipTask, CheckRules, SubmitAutomatically, Recheck, PassTestMode,
     FindButton, RecordSubmission, Click, RecordOrder, LeaveTask, database
<1>3. CASE TakeTask
  <2>1. /\ Head(queue) = queue[1] /\ 1 \in 1 .. Len(queue) /\ Head(queue).job \in Jobs
    <3>1. queue \in Seq(Tasks) /\ queue # <<>>
      BY <1>3 DEF TakeTask, Inv, TypeOK, WorkerTypes
    <3>2. Head(queue) = queue[1] /\ 1 \in 1 .. Len(queue) /\ Head(queue) \in Tasks
      BY <3>1
    <3> QED
      BY <3>2 DEF Tasks
  <2>2. CASE Head(queue).submit
    BY <1>1, <1>3, <2>2 DEF TakeTask
  <2>3. CASE ~Head(queue).submit
    <3>1. state[Head(queue).job] = "created"
      BY <2>1, <2>3 DEF StepStates
    <3>2. Move(Head(queue).job, "product_check")
      BY <1>3, <2>3 DEF TakeTask
    <3> QED
      BY <2>1, <3>1, <3>2, Table, OneLegalMove
  <2> QED
    BY <2>2, <2>3
<1>4. CASE Inspect \/ PlanCart \/ PrepareCheckout \/ EnterFinalValidation \/ AwaitConfirmation
           \/ BeginAttempt \/ ReadResponse \/ Confirm
  <2>1. step # "idle" /\ \E s : Move(job, s) /\ CanMove(state[job], s)
    BY <1>4, <1>b, Table DEF Inspect, PlanCart, PrepareCheckout, EnterFinalValidation,
       AwaitConfirmation, BeginAttempt, ReadResponse, Confirm, StepStates, SubmitSteps,
       OutcomeSteps, RecheckSteps
  <2> QED
    BY <1>0, <2>1, OneLegalMove
<1>5. CASE FinishTestRun \/ Block \/ StopForTestMode
  <2>1. step \in PrepareSteps \cup RecheckSteps /\ step # "idle"
    BY <1>5 DEF FinishTestRun, Block, StopForTestMode, PrepareSteps, RecheckSteps
  <2>2. \E s \in {"cancelled", "blocked"} : Move(job, s)
    BY <1>5 DEF FinishTestRun, Block, StopForTestMode
  <2> QED
    BY <1>0, <1>a, <1>c, <2>1, <2>2, Table, OneLegalMove
<1>6. CASE MarkUncertain \/ CatchSubmitError
  <2>1. step \in SubmitSteps \cup OutcomeSteps /\ step # "idle"
    BY <1>6 DEF MarkUncertain, CatchSubmitError, OutcomeSteps, SubmitSteps
  <2>2. \E s \in {"unknown", "failed"} : Move(job, s)
    BY <1>6 DEF MarkUncertain, CatchSubmitError
  <2> QED
    BY <1>0, <1>b, <2>1, <2>2, Table, OneLegalMove
<1>7. CASE \/ \E e \in {"app", "needs_user"} : CatchPreparationError(e)
           \/ \E e \in {"unexpected", "cancelled"} : CatchUnexpected(e)
  <2>1. step # "idle" /\ step \in Steps
    BY <1>7, <1>d DEF CatchPreparationError, CatchUnexpected, Raised, NavigatingSteps, CancelPoints
  <2>2. state[job] \in PreparingStates \/ state[job] \in {"submitting", "confirming"}
    BY <1>a, <1>b, <2>1 DEF Steps
  <2>3. CASE state[job] \in {"submitting", "confirming"}
    <3>1. state[job] \in OrderMayExist /\ FailTo(job) = "unknown"
      BY <2>3 DEF OrderMayExist, TerminalStates, FailTo
    <3>2. Move(job, "unknown")
      BY <1>7, <3>1 DEF CatchPreparationError, CatchUnexpected
    <3> QED
      BY <1>0, <2>1, <2>3, <3>2, Table, OneLegalMove
  <2>4. CASE state[job] \in PreparingStates
    <3>1. state[job] \notin OrderMayExist /\ FailTo(job) = "failed"
      BY <2>4 DEF OrderMayExist, TerminalStates, FailTo, PreparingStates
    <3>2. \E s \in {"needs_user", "failed"} : Move(job, s)
      BY <1>7, <3>1 DEF CatchPreparationError, CatchUnexpected
    <3> QED
      BY <1>0, <1>c, <2>1, <2>4, <3>2, Table, OneLegalMove
  <2> QED
    BY <2>2, <2>3, <2>4
<1> QED
  BY <1>2, <1>3, <1>4, <1>5, <1>6, <1>7 DEF WorkerStep

(* What a report decides about its job, the table allows. *)
LEMMA FailToLegal ==
  ASSUME Inv, NEW j \in Jobs, state[j] # "absent"
  PROVE  CanMove(state[j], FailTo(j)) /\ CanMove(state[j], CancelTo(j))
<1>1. state[j] \in States
  BY DEF Inv, TypeOK, DatabaseTypes
<1>2. CASE state[j] \in TerminalStates \cup {"unknown"}
  BY <1>2 DEF CanMove, FailTo, CancelTo, OrderMayExist, TerminalStates
<1>3. CASE state[j] \in {"submitting", "confirming"}
  <2>1. FailTo(j) = "unknown" /\ CancelTo(j) = "unknown"
    BY <1>3 DEF FailTo, CancelTo, OrderMayExist, TerminalStates
  <2> QED
    BY <1>3, <2>1, Table
<1>4. CASE state[j] \in PreparingStates \cup {"needs_user"}
  <2>1. FailTo(j) = "failed" /\ CancelTo(j) = "cancelled"
    BY <1>4 DEF FailTo, CancelTo, OrderMayExist, TerminalStates, PreparingStates
  <2>2. "failed" \in Diversions /\ "cancelled" \in Diversions
    BY DEF Diversions
  <2> QED
    BY <1>4, <2>1, <2>2, Table
<1> QED
  BY <1>1, <1>2, <1>3, <1>4 DEF States, LiveStates

(* Every step moves a job along the table, if it moves one at all.          *)
LEMMA StepIsLegal == ASSUME Inv, StepStates, [Next]_vars PROVE LegalStep
<1>0. ASSUME UNCHANGED state PROVE LegalStep
  BY <1>0 DEF LegalStep, CanMove
<1>1. CASE WorkerStep
  BY <1>1, LegalWorker
<1>2. CASE HandleSignal
  <2>1. /\ Received \in Jobs /\ state[Received] # "absent"
    <3>1. PICK k \in {"ready", "uncertain", "failed", "cancelled"} :
             Receives(k) /\ signals' = Tail(signals)
      BY <1>2 DEF HandleSignal, OnReady, OnUncertain, OnFailed, OnCancelled
    <3> QED
      BY <3>1, SignalsShrink DEF Inv, NoStrangers
  <2>2. UNCHANGED state \/ Move(Received, FailTo(Received)) \/ Move(Received, CancelTo(Received))
    BY <1>2 DEF HandleSignal, OnReady, OnUncertain, OnFailed, OnCancelled, SettleAs, database
  <2> QED
    BY <1>0, <2>1, <2>2, FailToLegal, OneLegalMove
<1>3. ASSUME NEW verdict \in {"placed", "not_placed"}, Resolve(verdict) PROVE LegalStep
  <2>1. Top.job \in Jobs
    BY <1>3, CloseTypes DEF Resolve, Answering, Inv, Dialogs
  <2>2. CASE state[Top.job] = "unknown"
    <3>1. Move(Top.job, IF verdict = "placed" THEN "confirmed" ELSE "failed")
      BY <1>3, <2>2 DEF Resolve
    <3> QED
      BY <2>1, <2>2, <3>1, Table, OneLegalMove
  <2>3. CASE state[Top.job] # "unknown"
    BY <1>0, <1>3, <2>3 DEF Resolve
  <2> QED
    BY <2>2, <2>3
<1>4. ASSUME NEW j \in Jobs, RecoverInterrupted(j) PROVE LegalStep
  <2>1. state[j] \in PreparingStates \cup {"submitting", "confirming"} /\ state[j] # "absent"
    BY <1>4 DEF RecoverInterrupted, Interrupted, PreparingStates
  <2>2. \E s \in {"unknown", "failed"} : Move(j, s)
    BY <1>4 DEF RecoverInterrupted
  <2>3. "unknown" \in Diversions /\ "failed" \in Diversions
    BY DEF Diversions
  <2> QED
    BY <2>1, <2>2, <2>3, Table, OneLegalMove
<1>5. ASSUME NEW p \in Products, NEW automatic \in BOOLEAN, Start(p, automatic)
      PROVE  LegalStep
  <2>1. PICK j \in Jobs : state[j] = "absent" /\ Move(j, "created")
    BY <1>5 DEF Start
  <2> QED
    BY <2>1, MoveOne DEF LegalStep, CanMove
<1>6. CASE \/ FinishCall \/ Accept \/ Decline \/ DecideLater \/ SwitchTestMode
           \/ \E i \in Jobs : RequestCancel(i)
           \/ Shutdown \/ ProcessStops \/ Restart \/ PromptAtStartup \/ StartupDone
           \/ Reprice \/ OtherTask \/ UNCHANGED vars
  BY <1>0, <1>6 DEF FinishCall, FinishCancel, RecordUserConfirmed, Accept, Decline,
     DecideLater, SwitchTestMode, RequestCancel, Shutdown, ProcessStops, Restart,
     PromptAtStartup, StartupDone, Reprice, OtherTask, vars, database
<1> QED
  BY <1>1, <1>2, <1>3, <1>4, <1>5, <1>6 DEF Next, UserStep, StartupStep

-----------------------------------------------------------------------------
(* A task finds its job where the table says. *)

(* The steps of the worker's loop leave to others what is not their task's. *)
LEMMA WorkerMovesItsOwn ==
  ASSUME Inv, WorkerStep
  PROVE  /\ step # "idle" => \A j \in Jobs \ {job} : state'[j] = state[j]
         /\ \A j \in Jobs : Queued(j)' => Queued(j) /\ state'[j] = state[j]
<1> USE DEF Move, database
<1>0. step # "idle" => job \in Jobs /\ ~Queued(job)
  BY Running
<1>a. state \in [Jobs -> States \cup {"absent"}]
  BY DEF Inv, TypeOK, DatabaseTypes
<1>1. CASE SkipTask \/ TakeTask
  <2>1. /\ TypeOK /\ queue # <<>> /\ queue' = Tail(queue) /\ job = NoJob
    BY <1>1 DEF SkipTask, TakeTask, Inv
  <2>2. step = "idle"
    BY <2>1 DEF TypeOK, WorkerTypes
  <2>3. /\ \A j : Queued(j)' => Queued(j)
        /\ \A j : j = Head(queue).job => ~Queued(j)'
    BY <2>1, QueueShrinks DEF Inv
  <2>4. \A j \in Jobs : j # Head(queue).job => state'[j] = state[j]
    BY <1>1, <1>a DEF SkipTask, TakeTask
  <2> QED
    BY <2>2, <2>3, <2>4
<1>2. CASE ~(SkipTask \/ TakeTask)
  <2>1. /\ step # "idle" /\ UNCHANGED queue
        /\ UNCHANGED state \/ \E s : state' = [state EXCEPT ![job] = s]
    BY <1>2 DEF WorkerStep, CheckRules, SubmitAutomatically, Recheck, PassTestMode,
       FindButton, RecordSubmission, Click, RecordOrder, Inspect, PlanCart, PrepareCheckout,
       EnterFinalValidation, AwaitConfirmation, FinishTestRun, Block, StopForTestMode,
       BeginAttempt, ReadResponse, MarkUncertain, Confirm, CatchSubmitError, SubmitSteps,
       CatchPreparationError, CatchUnexpected, LeaveTask, Raised, NavigatingSteps,
       CancelPoints
  <2>2. \A j \in Jobs \ {job} : state'[j] = state[j]
    BY <1>a, <2>1
  <2>3. \A j : Queued(j)' = Queued(j)
    BY <2>1 DEF Queued
  <2> QED
    BY <1>0, <2>1, <2>2, <2>3
<1> QED
  BY <1>1, <1>2

(* Nobody but the worker touches a job while its task is queued or running. *)
LEMMA OthersLeaveTasks ==
  ASSUME Inv, [Next]_vars, ~WorkerStep
  PROVE  /\ UNCHANGED <<job, step, total>> \/ step' = "idle"
         /\ \A j \in Jobs : HasTask(j) =>
               state'[j] = state[j] /\ row'[j] = row[j]
<1> USE DEF Move, database, worker, amazon, startup
<1>a. state \in [Jobs -> States \cup {"absent"}] /\ row \in [Jobs -> Rows]
  BY DEF Inv, TypeOK, DatabaseTypes
<1>1. CASE HandleSignal
  <2>1. UNCHANGED <<job, step, total, row>>
    BY <1>1 DEF HandleSignal, OnReady, OnUncertain, OnFailed, OnCancelled
  <2>2. CASE UNCHANGED state
    BY <2>1, <2>2
  <2>3. CASE ~UNCHANGED state
    <3>1. /\ \E k \in {"failed", "cancelled"} : Receives(k) /\ signals' = Tail(signals)
          /\ \E s : state' = [state EXCEPT ![Received] = s]
      BY <1>1, <2>3 DEF HandleSignal, OnReady, OnUncertain, OnFailed, OnCancelled, SettleAs
    <3>2. Received \in Jobs /\ ~HasTask(Received)
      BY <3>1, SignalsShrink DEF Inv, OneHolder
    <3>3. \A j \in Jobs \ {Received} : state'[j] = state[j]
      BY <1>a, <3>1
    <3> QED
      BY <2>1, <3>2, <3>3
  <2> QED
    BY <2>2, <2>3
<1>b. ASSUME NEW j \in Jobs, HasTask(j)
      PROVE  state[j] # "unknown" /\ state[j] # "absent"
  <2>1. CASE Queued(j)
    BY <1>b, <2>1 DEF Inv, TaskIsCurrent, PreparingStates
  <2>2. CASE j = job
    <3>1. step \in Steps
      BY <2>2, MaxJobsAssumption DEF Inv, TypeOK, WorkerTypes, Jobs, NoJob
    <3> QED
      BY <2>2, <3>1 DEF Inv, TaskIsCurrent, Steps, PreparingStates
  <2> QED
    BY <1>b, <2>1, <2>2 DEF HasTask, Queued
<1>2. ASSUME NEW verdict \in {"placed", "not_placed"}, Resolve(verdict)
      PROVE  /\ UNCHANGED <<job, step, total, row>>
             /\ \A j \in Jobs : HasTask(j) => state'[j] = state[j]
  <2>1. \A j \in Jobs : state[j] # "unknown" => state'[j] = state[j]
    BY <1>2, <1>a DEF Resolve
  <2> QED
    BY <1>2, <1>b, <2>1 DEF Resolve
<1>3. ASSUME NEW i \in Jobs, RecoverInterrupted(i)
      PROVE  /\ UNCHANGED <<job, step, total, row>>
             /\ \A j \in Jobs : HasTask(j) => state'[j] = state[j]
  <2>1. \A j \in Jobs : ~HasTask(j)
    BY <1>3, MaxJobsAssumption DEF RecoverInterrupted, Inv, FreshStart, HasTask, Jobs, NoJob
  <2> QED
    BY <1>3, <2>1 DEF RecoverInterrupted
<1>4. ASSUME NEW p \in Products, NEW automatic \in BOOLEAN, Start(p, automatic)
      PROVE  /\ UNCHANGED <<job, step, total>>
             /\ \A j \in Jobs : HasTask(j) => state'[j] = state[j] /\ row'[j] = row[j]
  <2>1. PICK i \in Jobs : /\ state[i] = "absent" /\ state' = [state EXCEPT ![i] = "created"]
                          /\ \E r : row' = [row EXCEPT ![i] = r]
    BY <1>4 DEF Start
  <2>2. \A j \in Jobs \ {i} : state'[j] = state[j] /\ row'[j] = row[j]
    BY <1>a, <2>1
  <2> QED
    BY <1>4, <1>b, <2>1, <2>2 DEF Start
<1>5. CASE \/ FinishCall \/ Accept \/ Decline \/ DecideLater \/ SwitchTestMode
           \/ \E i \in Jobs : RequestCancel(i)
           \/ Shutdown \/ ProcessStops \/ Restart \/ PromptAtStartup \/ StartupDone
           \/ Reprice \/ OtherTask \/ UNCHANGED vars
  BY <1>5 DEF FinishCall, FinishCancel, RecordUserConfirmed, Accept, Decline,
     DecideLater, SwitchTestMode, RequestCancel, Shutdown, ProcessStops, Restart,
     PromptAtStartup, StartupDone, Reprice, OtherTask, vars
<1> QED
  BY <1>1, <1>2, <1>3, <1>4, <1>5 DEF Next, UserStep, StartupStep

(* A running job has a task. *)
LEMMA RunningHasTask == ASSUME Inv, step # "idle" PROVE job \in Jobs /\ HasTask(job)
  BY RunningJob DEF Inv, HasTask

(* What joins the queue is a new job, or one whose review was confirmed. *)
LEMMA QueueStates ==
  ASSUME Inv, StepStates, [Next]_vars
  PROVE  \A i \in 1 .. Len(queue') :
            state'[queue'[i].job]
              = IF queue'[i].submit THEN "awaiting_confirmation" ELSE "created"
<1> USE DEF Move, database, worker, amazon, startup
<1>a. /\ queue \in Seq(Tasks) /\ Len(queue) \in Nat
      /\ \A i \in 1 .. Len(queue) : queue[i] \in Tasks /\ queue[i].job \in Jobs
  <2>1. queue \in Seq(Tasks)
    BY DEF Inv, TypeOK, WorkerTypes
  <2>2. \A i \in 1 .. Len(queue) : queue[i] \in Tasks
    BY <2>1
  <2> QED
    BY <2>1, <2>2 DEF Tasks
<1>0. \A i \in 1 .. Len(queue) :
         state[queue[i].job] = IF queue[i].submit THEN "awaiting_confirmation" ELSE "created"
  BY DEF StepStates
<1>b. \A i \in 1 .. Len(queue) : Queued(queue[i].job) /\ HasTask(queue[i].job)
  BY DEF Queued, HasTask
<1>1. CASE WorkerStep
  <2>1. CASE SkipTask \/ TakeTask
    <3>1. /\ queue # <<>> /\ queue' = Tail(queue)
      BY <2>1 DEF SkipTask, TakeTask
    <3>2. /\ Len(queue') = Len(queue) - 1
          /\ \A i \in 1 .. Len(queue') : queue'[i] = queue[i + 1]
      BY <1>a, <3>1, HeadTailProperties
    <3>3. ASSUME NEW i \in 1 .. Len(queue')
          PROVE  /\ i + 1 \in 1 .. Len(queue) /\ queue'[i] = queue[i + 1]
                 /\ \A j : j = queue'[i].job => Queued(j)'
      BY <1>a, <3>2 DEF Queued
    <3>4. ASSUME NEW i \in 1 .. Len(queue'), NEW j, j = queue'[i].job
          PROVE  state'[j] = state[j]
      BY <1>1, <1>a, <3>3, <3>4, WorkerMovesItsOwn
    <3> QED
      BY <1>0, <3>3, <3>4
  <2>2. CASE ~(SkipTask \/ TakeTask)
    <3>1. UNCHANGED queue
      BY <1>1, <2>2 DEF WorkerStep, CheckRules, SubmitAutomatically, Recheck, PassTestMode,
         FindButton, RecordSubmission, Click, RecordOrder, Inspect, PlanCart,
         PrepareCheckout, EnterFinalValidation, AwaitConfirmation, FinishTestRun, Block,
         StopForTestMode, BeginAttempt, ReadResponse, MarkUncertain, Confirm,
         CatchSubmitError, CatchPreparationError, CatchUnexpected, LeaveTask
    <3>2. \A i \in 1 .. Len(queue) : Queued(queue[i].job)'
      BY <3>1 DEF Queued
    <3> QED
      BY <1>0, <1>1, <1>a, <3>1, <3>2, WorkerMovesItsOwn
  <2> QED
    BY <2>1, <2>2
<1>c. ~WorkerStep => \A i \in 1 .. Len(queue) : state'[queue[i].job] = state[queue[i].job]
  BY <1>a, <1>b, OthersLeaveTasks
<1>2. ASSUME ~WorkerStep, NEW j \in Jobs, NEW b \in BOOLEAN,
             queue' = Append(queue, [job |-> j, submit |-> b]),
             state'[j] = IF b THEN "awaiting_confirmation" ELSE "created"
      PROVE  \A i \in 1 .. Len(queue') :
                state'[queue'[i].job]
                  = IF queue'[i].submit THEN "awaiting_confirmation" ELSE "created"
  <2>1. [job |-> j, submit |-> b] \in Tasks
    BY DEF Tasks
  <2>2. /\ Len(queue') = Len(queue) + 1
        /\ \A i \in 1 .. Len(queue) : queue'[i] = queue[i]
        /\ queue'[Len(queue) + 1] = [job |-> j, submit |-> b]
    BY <1>2, <1>a, <2>1, AppendProperties
  <2>3. \A i \in 1 .. Len(queue') : i \in 1 .. Len(queue) \/ i = Len(queue) + 1
    BY <1>a, <2>2
  <2> QED
    BY <1>0, <1>c, <1>2, <2>2, <2>3
<1>3. ASSUME NEW p \in Products, NEW automatic \in BOOLEAN, Start(p, automatic), ~WorkerStep
      PROVE  \A i \in 1 .. Len(queue') :
                state'[queue'[i].job]
                  = IF queue'[i].submit THEN "awaiting_confirmation" ELSE "created"
  <2>1. PICK j \in Jobs : /\ Move(j, "created")
                          /\ queue' = Append(queue, [job |-> j, submit |-> FALSE])
    BY <1>3 DEF Start
  <2>2. state'[j] = "created"
    BY <2>1, MoveOne
  <2> QED
    BY <1>2, <1>3, <2>1, <2>2
<1>4. CASE ~WorkerStep /\ UNCHANGED queue
  BY <1>0, <1>c, <1>4
<1>5. CASE ~WorkerStep /\ Accept
  <2>1. UNCHANGED state
    BY <1>5 DEF Accept
  <2>2. CASE UNCHANGED queue
    BY <1>4, <1>5, <2>2
  <2>3. CASE ~UNCHANGED queue
    <3>1. /\ Top.job \in pending /\ state[Top.job] = "awaiting_confirmation"
          /\ queue' = Append(queue, [job |-> Top.job, submit |-> TRUE])
      BY <1>5, <2>3 DEF Accept
    <3>2. Top.job \in Jobs
      BY <3>1 DEF Inv, TypeOK, ServiceTypes
    <3> QED
      BY <1>2, <1>5, <2>1, <3>1, <3>2
  <2> QED
    BY <2>2, <2>3
<1>6. CASE ProcessStops
  <2>1. Len(queue') = 0
    BY <1>6 DEF ProcessStops
  <2> QED
    BY <2>1
<1>7. CASE \/ HandleSignal \/ FinishCall \/ Decline \/ DecideLater \/ SwitchTestMode
           \/ \E i \in Jobs : RequestCancel(i)
           \/ \E i \in Jobs : RecoverInterrupted(i)
           \/ \E verdict \in {"placed", "not_placed"} : Resolve(verdict)
           \/ Shutdown \/ Restart \/ PromptAtStartup \/ StartupDone
           \/ Reprice \/ OtherTask \/ UNCHANGED vars
  <2>1. UNCHANGED queue
    BY <1>7 DEF HandleSignal, OnReady, OnUncertain, OnFailed, OnCancelled, FinishCall,
       FinishCancel, RecordUserConfirmed, Decline, DecideLater, SwitchTestMode,
       RequestCancel, RecoverInterrupted, Resolve, Shutdown, Restart, PromptAtStartup,
       StartupDone, Reprice, OtherTask, vars
  <2> QED
    BY <1>1, <1>4, <2>1
<1> QED
  BY <1>1, <1>3, <1>5, <1>6, <1>7 DEF Next, UserStep, StartupStep

(* A task finds its job where the table says, step after step. *)
LEMMA NextStepStates == ASSUME Inv, StepStates, [Next]_vars PROVE StepStates'
<1>1. \A i \in 1 .. Len(queue') :
            state'[queue'[i].job]
              = IF queue'[i].submit THEN "awaiting_confirmation" ELSE "created"
  BY QueueStates
<1>2. step' = "idle" => StepStates'
  BY <1>1 DEF StepStates, RecheckSteps
<1>3. CASE ~WorkerStep /\ step' # "idle"
  <2>1. step # "idle" /\ UNCHANGED <<job, step>> /\ state'[job] = state[job]
    BY <1>3, OthersLeaveTasks, RunningHasTask
  <2> QED
    BY <1>1, <2>1 DEF StepStates
<1>4. CASE WorkerStep /\ step' # "idle"
  <2> USE DEF Goto, database
  <2>1. CASE TakeTask
    <3>1. queue \in Seq(Tasks) /\ queue # <<>>
      BY <2>1 DEF TakeTask, Inv, TypeOK, WorkerTypes
    <3>2. Head(queue) = queue[1] /\ 1 \in 1 .. Len(queue) /\ Head(queue) \in Tasks
      BY <3>1
    <3>3. CASE Head(queue).submit
      <4>1. /\ state[Head(queue).job] = "awaiting_confirmation" /\ UNCHANGED state
            /\ step' = "recheck" /\ job' = Head(queue).job
        BY <2>1, <3>2, <3>3 DEF TakeTask, StepStates
      <4> QED
        BY <1>1, <4>1 DEF StepStates, RecheckSteps, SubmitEntryStates
    <3>4. CASE ~Head(queue).submit
      <4>1. /\ Move(Head(queue).job, "product_check") /\ Head(queue).job \in Jobs
            /\ step' = "inspect" /\ job' = Head(queue).job
        BY <2>1, <3>2, <3>4 DEF TakeTask, Tasks
      <4>2. state'[job'] = "product_check"
        BY <4>1, MoveOne
      <4> QED
        BY <1>1, <4>1, <4>2 DEF StepStates, RecheckSteps
    <3> QED
      BY <3>3, <3>4
  <2>2. CASE Inspect \/ PlanCart \/ PrepareCheckout \/ EnterFinalValidation \/ BeginAttempt
             \/ ReadResponse
    <3>1. step # "idle" /\ UNCHANGED job
      BY <2>2 DEF Inspect, PlanCart, PrepareCheckout, EnterFinalValidation, BeginAttempt,
         ReadResponse
    <3>2. \A s : Move(job, s) => state'[job'] = s
      BY <3>1, RunningHasTask, MoveOne
    <3> QED
      BY <1>1, <2>2, <3>2 DEF StepStates, Inspect, PlanCart, PrepareCheckout,
         EnterFinalValidation, BeginAttempt, ReadResponse, RecheckSteps
  <2>3. CASE CheckRules \/ SubmitAutomatically \/ Recheck \/ PassTestMode \/ FindButton
             \/ RecordSubmission \/ Click \/ RecordOrder \/ SkipTask
    BY <1>1, <2>3 DEF StepStates, CheckRules, SubmitAutomatically, Recheck, PassTestMode,
       FindButton, RecordSubmission, Click, RecordOrder, SkipTask, RecheckSteps,
       SubmitEntryStates, worker
  <2>4. CASE \/ AwaitConfirmation \/ FinishTestRun \/ Block \/ StopForTestMode
             \/ MarkUncertain \/ Confirm \/ CatchSubmitError
             \/ \E e \in {"app", "needs_user"} : CatchPreparationError(e)
             \/ \E e \in {"unexpected", "cancelled"} : CatchUnexpected(e)
             \/ \E e \in {"app", "needs_user", "unexpected", "cancelled"} : LeaveTask(e)
    BY <1>4, <2>4 DEF AwaitConfirmation, FinishTestRun, Block, StopForTestMode,
       MarkUncertain, Confirm, CatchSubmitError, CatchPreparationError, CatchUnexpected,
       LeaveTask, EndTask
  <2> QED
    BY <1>4, <2>1, <2>2, <2>3, <2>4 DEF WorkerStep
<1> QED
  BY <1>2, <1>3, <1>4

-----------------------------------------------------------------------------
(* The review, and the history. *)

(* The review stays on the page until its order is recorded. *)
LEMMA NextReview == ASSUME Inv, ReviewIsOnPage, [Next]_vars PROVE ReviewIsOnPage'
<1> DEFINE Shows == {"live", "begin", "press", "record"}
<1> USE DEF database, amazon, Goto
<1>1. CASE step' \notin Shows
  BY <1>1 DEF ReviewIsOnPage
<1>2. CASE WorkerStep /\ step' \in Shows
  <2>1. CASE Recheck
    BY <2>1 DEF Recheck, RecheckPasses, ReviewIsOnPage
  <2>2. CASE PassTestMode \/ BeginAttempt \/ FindButton
    BY <2>2 DEF PassTestMode, BeginAttempt, FindButton, ReviewIsOnPage
  <2>3. CASE \/ SkipTask \/ TakeTask \/ Inspect \/ CheckRules \/ PlanCart \/ PrepareCheckout
             \/ EnterFinalValidation \/ SubmitAutomatically
             \/ RecordSubmission \/ Click \/ ReadResponse \/ RecordOrder
    <3>1. CASE SkipTask
      <4>1. step = "idle" /\ UNCHANGED step
        BY <3>1 DEF SkipTask, worker, Inv, TypeOK, WorkerTypes
      <4> QED
        BY <1>2, <4>1
    <3> QED
      BY <1>2, <2>3, <3>1 DEF TakeTask, Inspect, CheckRules, PlanCart, PrepareCheckout,
         EnterFinalValidation, SubmitAutomatically, RecordSubmission, Click, ReadResponse,
         RecordOrder
  <2>4. CASE \/ AwaitConfirmation \/ FinishTestRun \/ Block \/ StopForTestMode
             \/ MarkUncertain \/ Confirm \/ CatchSubmitError
             \/ \E e \in {"app", "needs_user"} : CatchPreparationError(e)
             \/ \E e \in {"unexpected", "cancelled"} : CatchUnexpected(e)
             \/ \E e \in {"app", "needs_user", "unexpected", "cancelled"} : LeaveTask(e)
    BY <1>2, <2>4 DEF AwaitConfirmation, FinishTestRun, Block, StopForTestMode,
       MarkUncertain, Confirm, CatchSubmitError, CatchPreparationError, CatchUnexpected,
       LeaveTask, EndTask
  <2> QED
    BY <1>2, <2>1, <2>2, <2>3, <2>4 DEF WorkerStep
<1>3. CASE ~WorkerStep /\ step' \in Shows
  <2>1. /\ step' = step /\ step # "idle" /\ UNCHANGED <<job, total>>
        /\ job \in Jobs /\ row'[job] = row[job]
    BY <1>3, OthersLeaveTasks, RunningHasTask
  <2>2. job # NoJob
    BY <2>1, MaxJobsAssumption DEF Jobs, NoJob
  <2>3. page'.product = page.product /\ UNCHANGED review
    <3>1. CASE ProcessStops
      BY <1>3, <3>1 DEF ProcessStops
    <3>2. CASE Reprice
      <4>1. page \in Checkouts
        BY DEF Inv, TypeOK, AmazonTypes
      <4>2. PICK t \in Totals : page' = [page EXCEPT !.total = t]
        BY <3>2 DEF Reprice
      <4> QED
        BY <3>2, <4>1, <4>2 DEF Reprice, Checkouts
    <3>3. CASE OtherTask
      BY <2>2, <3>3 DEF OtherTask
    <3>4. CASE \/ HandleSignal \/ FinishCall \/ UserStep \/ StartupStep
               \/ Shutdown \/ Restart \/ UNCHANGED vars
      BY <3>4 DEF HandleSignal, OnReady, OnUncertain, OnFailed, OnCancelled, FinishCall,
         FinishCancel, RecordUserConfirmed, Accept, Decline, DecideLater, SwitchTestMode,
         RequestCancel, RecoverInterrupted, Resolve, Shutdown, Restart, PromptAtStartup,
         StartupDone, UserStep, StartupStep, Start, vars
    <3> QED
      BY <1>3, <3>1, <3>2, <3>3, <3>4 DEF Next
  <2> QED
    BY <2>1, <2>3 DEF ReviewIsOnPage
<1> QED
  BY <1>1, <1>2, <1>3

(* Only the page that was reviewed is recorded as submitted. *)
LEMMA RecordIsOfReview ==
  Inv /\ ReviewIsOnPage /\ [Next]_vars =>
    [\A j \in Jobs :
        j \in recorded' \ recorded
        => page.product = row[j].product /\ total = review[j]]_vars
<1> SUFFICES ASSUME Inv, ReviewIsOnPage, [Next]_vars, NEW j \in Jobs,
                    j \in recorded' \ recorded
             PROVE  page.product = row[j].product /\ total = review[j]
  OBVIOUS
<1>1. RecordSubmission
  BY StepShape DEF Moves, Appears, Click, database
<1> QED
  BY <1>1 DEF RecordSubmission, ReviewIsOnPage

(* Nothing is taken out of the history, and only an answer is an answer. *)
LEMMA HistoryGrows ==
  ASSUME [Next]_vars
  PROVE  /\ ordered \subseteq ordered'
         /\ \/ UNCHANGED answer
            \/ \E verdict \in {"placed", "not_placed"} : Resolve(verdict)
<1> USE DEF database
<1>1. CASE \E verdict \in {"placed", "not_placed"} : Resolve(verdict)
  BY <1>1 DEF Resolve
<1>2. CASE ~\E verdict \in {"placed", "not_placed"} : Resolve(verdict)
  BY <1>2 DEF Next, WorkerStep, HandleSignal, OnReady, OnUncertain, OnFailed, OnCancelled,
     FinishCall, FinishCancel, RecordUserConfirmed, Accept, Decline, DecideLater,
     SwitchTestMode, RequestCancel, RecoverInterrupted, Shutdown, Restart,
     PromptAtStartup, StartupDone, UserStep, StartupStep, Start, vars, ProcessStops, Reprice,
     OtherTask, SkipTask, TakeTask, Inspect, CheckRules, PlanCart, PrepareCheckout,
     EnterFinalValidation, AwaitConfirmation, SubmitAutomatically, FinishTestRun, Block,
     Recheck, StopForTestMode, PassTestMode, BeginAttempt, FindButton, RecordSubmission,
     Click, ReadResponse, MarkUncertain, RecordOrder, Confirm, CatchSubmitError,
     CatchPreparationError, CatchUnexpected, LeaveTask
<1> QED
  BY <1>1, <1>2

(* An order is in the history before its job is confirmed, unless it is the *)
(* user who says it was placed.                                             *)
LEMMA NextHistory ==
  ASSUME Inv, HistoryFirst, ConfirmedIsInHistory, [Next]_vars
  PROVE  HistoryFirst' /\ ConfirmedIsInHistory'
<1> USE DEF database, amazon, worker, Move
<1>a. state \in [Jobs -> States \cup {"absent"}]
  BY DEF Inv, TypeOK, DatabaseTypes
<1>b. ordered \subseteq ordered'
  BY HistoryGrows
<1>1. HistoryFirst'
  <2>1. CASE step' # "settle"
    BY <2>1 DEF HistoryFirst
  <2>2. CASE RecordOrder
    BY <2>2 DEF RecordOrder, HistoryFirst, Goto
  <2>3. CASE step' = "settle" /\ ~RecordOrder
    <3>1. UNCHANGED <<job, step>>
      <4>1. CASE WorkerStep
        BY <2>3, <4>1 DEF WorkerStep, SkipTask, TakeTask, Inspect, CheckRules, PlanCart,
           PrepareCheckout, EnterFinalValidation, AwaitConfirmation, SubmitAutomatically,
           FinishTestRun, Block, Recheck, StopForTestMode, PassTestMode, BeginAttempt,
           FindButton, RecordSubmission, Click, ReadResponse, MarkUncertain, Confirm,
           CatchSubmitError, CatchPreparationError, CatchUnexpected, LeaveTask, Goto, EndTask
      <4>2. CASE ~WorkerStep
        BY <2>3, <4>2, OthersLeaveTasks
      <4> QED
        BY <4>1, <4>2
    <3> QED
      BY <1>b, <2>3, <3>1 DEF HistoryFirst
  <2> QED
    BY <2>1, <2>2, <2>3
<1>2. ConfirmedIsInHistory'
  <2>1. ASSUME NEW j \in Jobs, state[j] # "confirmed", state'[j] = "confirmed"
        PROVE  j \in ordered \/ answer'[j] = "placed"
    <3>1. CASE WorkerStep
      <4>1. CASE Confirm
        <5>1. state'[j] = state[j] \/ j = job
          BY <1>a, <4>1 DEF Confirm
        <5> QED
          BY <2>1, <4>1, <5>1 DEF Confirm, HistoryFirst
      <4>2. CASE TakeTask
        BY <1>a, <2>1, <4>2 DEF TakeTask
      <4>3. CASE ~Confirm /\ ~TakeTask
        <5>1. FailTo(job) # "confirmed" \/ FailTo(job) = state[job]
          BY DEF FailTo
        <5>2. \/ UNCHANGED state
              \/ \E s : /\ state' = [state EXCEPT ![job] = s]
                        /\ s # "confirmed" \/ s = state[job]
          BY <3>1, <4>3, <5>1 DEF WorkerStep, SkipTask, Inspect, CheckRules, PlanCart,
             PrepareCheckout, EnterFinalValidation, AwaitConfirmation, SubmitAutomatically,
             FinishTestRun, Block, Recheck, StopForTestMode, PassTestMode, BeginAttempt,
             FindButton, RecordSubmission, Click, ReadResponse, MarkUncertain, RecordOrder,
             CatchSubmitError, CatchPreparationError, CatchUnexpected, LeaveTask
        <5> QED
          BY <1>a, <2>1, <5>2
      <4> QED
        BY <4>1, <4>2, <4>3
    <3>2. CASE HandleSignal
      <4>1. /\ FailTo(Received) # "confirmed" \/ FailTo(Received) = state[Received]
            /\ CancelTo(Received) # "confirmed" \/ CancelTo(Received) = state[Received]
        BY DEF FailTo, CancelTo
      <4>2. \/ UNCHANGED state
            \/ \E s : /\ state' = [state EXCEPT ![Received] = s]
                      /\ s # "confirmed" \/ s = state[Received]
        BY <3>2, <4>1 DEF HandleSignal, OnReady, OnUncertain, OnFailed, OnCancelled, SettleAs
      <4> QED
        BY <1>a, <2>1, <4>2
    <3>3. ASSUME NEW verdict \in {"placed", "not_placed"}, Resolve(verdict)
          PROVE  answer'[j] = "placed"
      <4>1. answer \in [Jobs -> {"none", "placed", "not_placed"}]
        BY DEF Inv, TypeOK, DatabaseTypes
      <4>2. Top.job \in Jobs
        BY <3>3, CloseTypes DEF Resolve, Answering, Inv, Dialogs
      <4>3. /\ state' = [state EXCEPT ![Top.job] =
                            IF verdict = "placed" THEN "confirmed" ELSE "failed"]
            /\ answer' = [answer EXCEPT ![Top.job] = verdict]
        BY <2>1, <3>3 DEF Resolve
      <4>4. j = Top.job /\ verdict = "placed"
        BY <1>a, <2>1, <4>2, <4>3
      <4> QED
        BY <4>1, <4>3, <4>4
    <3>4. ASSUME NEW i \in Jobs, RecoverInterrupted(i) PROVE FALSE
      BY <1>a, <2>1, <3>4 DEF RecoverInterrupted
    <3>5. ASSUME NEW p \in Products, NEW automatic \in BOOLEAN, Start(p, automatic)
          PROVE  FALSE
      BY <1>a, <2>1, <3>5 DEF Start
    <3>6. CASE \/ FinishCall \/ Accept \/ Decline \/ DecideLater \/ SwitchTestMode
               \/ \E i \in Jobs : RequestCancel(i)
               \/ Shutdown \/ ProcessStops \/ Restart \/ PromptAtStartup \/ StartupDone
               \/ Reprice \/ OtherTask \/ UNCHANGED vars
      BY <2>1, <3>6 DEF FinishCall, FinishCancel, RecordUserConfirmed, Accept, Decline,
         DecideLater, SwitchTestMode, RequestCancel, Shutdown, ProcessStops, Restart,
         PromptAtStartup, StartupDone, Reprice, OtherTask, vars
    <3> QED
      BY <3>1, <3>2, <3>3, <3>4, <3>5, <3>6 DEF Next, UserStep, StartupStep
  <2>2. ASSUME NEW j \in Jobs, state[j] = "confirmed", answer[j] = "placed"
        PROVE  answer'[j] = "placed"
    <3>1. ASSUME NEW verdict \in {"placed", "not_placed"}, Resolve(verdict)
          PROVE  answer'[j] = answer[j]
      <4>1. answer \in [Jobs -> {"none", "placed", "not_placed"}]
        BY DEF Inv, TypeOK, DatabaseTypes
      <4> QED
        BY <2>2, <3>1, <4>1 DEF Resolve
    <3>2. CASE UNCHANGED answer
      BY <2>2, <3>2
    <3> QED
      BY <2>2, <3>1, <3>2, HistoryGrows
  <2> QED
    BY <1>b, <2>1, <2>2 DEF ConfirmedIsInHistory
<1> QED
  BY <1>1, <1>2

-----------------------------------------------------------------------------
(* What a task reports. *)

(* What is finished or uncertain never becomes uncertain again. *)
LEMMA UndecidedStays ==
  ASSUME Inv, StepStates, [Next]_vars, NEW j \in Jobs, state[j] \in Undecided
  PROVE  state'[j] \in Undecided
<1>1. state[j] # "absent" /\ CanMove(state[j], state'[j])
  BY StepIsLegal DEF LegalStep, Undecided, TerminalStates
<1>2. \A s \in Undecided : AllowedTransitions[s] \subseteq Undecided
  BY DEF Undecided, AllowedTransitions, States, LiveStates, PreparingStates, TerminalStates
<1> QED
  BY <1>1, <1>2 DEF CanMove

(* What a task tells the GUI thread when it ends: its job becomes uncertain  *)
(* first, and its end is reported last.                                      *)
Joins(j) ==
    /\ Len(signals) \in Nat /\ Len(signals') \in Nat
    /\ \A i \in 1 .. Len(signals') :
          \/ i \in 1 .. Len(signals) /\ signals'[i] = signals[i]
          \/ /\ i \notin 1 .. Len(signals) /\ signals'[i].job = j
             /\ Final(signals'[i]) => i = Len(signals')
             /\ signals'[i].kind = "uncertain"
                => i = Len(signals) + 1 /\ state[j] \notin Undecided /\ state'[j] = "unknown"
             /\ signals'[i].kind = "failed" /\ state'[j] = "needs_user" => j \in reported'

LEMMA EmitJoins ==
  ASSUME TypeOK, NEW j, NEW e \in Seq(Signals), Emit(e),
         \A i \in 1 .. Len(e) :
            /\ e[i].job = j
            /\ Final(e[i]) => i = Len(e)
            /\ e[i].kind = "uncertain"
               => i = 1 /\ state[j] \notin Undecided /\ state'[j] = "unknown"
            /\ e[i].kind = "failed" /\ state'[j] = "needs_user" => j \in reported'
  PROVE  Joins(j)
<1>0. signals \in Seq(Signals) /\ Len(signals) \in Nat /\ Len(e) \in Nat
  BY DEF TypeOK, ServiceTypes
<1>1. CASE signals' = signals
  BY <1>0, <1>1 DEF Joins
<1>2. CASE signals' = signals \o e
  <2>1. /\ Len(signals') = Len(signals) + Len(e)
        /\ \A i \in 1 .. Len(signals') :
              signals'[i] = IF i <= Len(signals) THEN signals[i] ELSE e[i - Len(signals)]
    BY <1>0, <1>2, ConcatProperties
  <2>2. ASSUME NEW i \in 1 .. Len(signals')
        PROVE  \/ i \in 1 .. Len(signals) /\ signals'[i] = signals[i]
               \/ /\ i \notin 1 .. Len(signals)
                  /\ i - Len(signals) \in 1 .. Len(e) /\ signals'[i] = e[i - Len(signals)]
    BY <1>0, <2>1
  <2>3. ASSUME NEW i \in 1 .. Len(signals'), i \notin 1 .. Len(signals)
        PROVE  /\ signals'[i].job = j
               /\ Final(signals'[i]) => i = Len(signals')
               /\ signals'[i].kind = "uncertain"
                  => i = Len(signals) + 1 /\ state[j] \notin Undecided /\ state'[j] = "unknown"
               /\ signals'[i].kind = "failed" /\ state'[j] = "needs_user" => j \in reported'
    <3>1. i - Len(signals) \in 1 .. Len(e) /\ signals'[i] = e[i - Len(signals)]
      BY <2>2, <2>3
    <3>2. /\ i - Len(signals) = Len(e) => i = Len(signals')
          /\ i - Len(signals) = 1 => i = Len(signals) + 1
      BY <1>0, <2>1, <2>3
    <3> QED
      BY <3>1, <3>2
  <2>4. Len(signals') \in Nat
    BY <1>0, <2>1
  <2> QED
    BY <1>0, <2>2, <2>3, <2>4 DEF Joins
<1> QED
  BY <1>1, <1>2 DEF Emit

(* A step of the worker: the signals stay, or those of one task join them.  *)
LEMMA WorkerSignals ==
  ASSUME Inv, WorkerStep
  PROVE  /\ UNCHANGED <<dialogs, asks, again, alive>> /\ reported \subseteq reported'
         /\ UNCHANGED signals \/ \E j \in Jobs : HasTask(j) /\ Joins(j)
<1> USE DEF gui, startup, worker, database
<1>0. TypeOK
  BY DEF Inv
<1>a. step # "idle" => job \in Jobs /\ HasTask(job) /\ state[job] \in States
  BY Running, RunningHasTask DEF Inv, TypeOK, DatabaseTypes
<1>b. step # "idle" => \/ state[job] \in PreparingStates
                       \/ step \in Steps \ (PrepareSteps \cup RecheckSteps)
                             /\ state[job] \in {"submitting", "confirming"}
  BY <1>0 DEF Inv, TaskIsCurrent, TypeOK, WorkerTypes, Steps
<1>c. \A s \in PreparingStates \cup {"submitting", "confirming"} :
         s \notin Undecided /\ s # "needs_user" /\ s # "unknown" /\ s \notin TerminalStates
  BY DEF Undecided, PreparingStates, TerminalStates
<1>1. /\ UNCHANGED <<dialogs, asks, again, alive>> /\ reported \subseteq reported'
  BY DEF WorkerStep, SkipTask, TakeTask, Inspect, CheckRules, PlanCart, PrepareCheckout,
     EnterFinalValidation, AwaitConfirmation, SubmitAutomatically, FinishTestRun, Block,
     Recheck, StopForTestMode, PassTestMode, BeginAttempt, FindButton, RecordSubmission,
     Click, ReadResponse, MarkUncertain, RecordOrder, Confirm, CatchSubmitError,
     CatchPreparationError, CatchUnexpected, LeaveTask
<1>2. CASE TakeTask \/ Inspect \/ CheckRules \/ PlanCart \/ PrepareCheckout
           \/ EnterFinalValidation \/ SubmitAutomatically \/ FinishTestRun \/ Block \/ Recheck
           \/ StopForTestMode \/ PassTestMode \/ BeginAttempt \/ FindButton
           \/ RecordSubmission \/ Click \/ ReadResponse \/ RecordOrder \/ Confirm
  BY <1>1, <1>2 DEF TakeTask, Inspect, CheckRules, PlanCart, PrepareCheckout,
     EnterFinalValidation, SubmitAutomatically, FinishTestRun, Block, Recheck,
     StopForTestMode, PassTestMode, BeginAttempt, FindButton, RecordSubmission, Click,
     ReadResponse, RecordOrder, Confirm
(* One signal, about the job that was running or about to run. *)
<1>3. ASSUME NEW j \in Jobs, NEW k \in {"ready", "uncertain", "failed", "cancelled"},
             Emit(<<Signal(k, j)>>),
             k = "uncertain" => state[j] \notin Undecided /\ state'[j] = "unknown",
             k = "failed" => state'[j] # "needs_user" \/ j \in reported'
      PROVE  Joins(j)
  <2> DEFINE e == <<Signal(k, j)>>
  <2>1. e \in Seq(Signals) /\ Len(e) = 1 /\ e[1].job = j /\ e[1].kind = k
    BY DEF Signal, Signals
  <2>2. Emit(e)
    BY <1>3
  <2> HIDE DEF e
  <2>3. \A i \in 1 .. Len(e) : i = 1
    BY <2>1
  <2> QED
    BY <1>0, <1>3, <2>1, <2>2, <2>3, EmitJoins
(* A task that made its job uncertain, and then raised its error. *)
<1>4. ASSUME step # "idle", NEW e, Emit(Uncertain(job) \o Report(e)), state'[job] = "unknown",
             state[job] \in {"submitting", "confirming"}
      PROVE  Joins(job)
  <2> DEFINE u == <<Signal("uncertain", job)>>
             r == <<Signal(IF e = "cancelled" THEN "cancelled" ELSE "failed", job)>>
  <2>1. /\ u \in Seq(Signals) /\ Len(u) = 1 /\ u[1].job = job /\ u[1].kind = "uncertain"
        /\ r \in Seq(Signals) /\ Len(r) = 1 /\ r[1].job = job
        /\ r[1].kind \in {"failed", "cancelled"}
    BY <1>a, <1>4 DEF Signal, Signals
  <2>2. Emit(u \o r)
    BY <1>4 DEF Uncertain, Report
  <2> HIDE DEF u, r
  <2>3. /\ u \o r \in Seq(Signals) /\ Len(u \o r) = 2
        /\ \A i \in 1 .. Len(u \o r) : (u \o r)[i] = IF i <= 1 THEN u[i] ELSE r[i - 1]
    BY <2>1, ConcatProperties
  <2>4. (u \o r)[1] = u[1] /\ (u \o r)[2] = r[1]
    BY <2>3
  <2>5. \A i \in 1 .. Len(u \o r) : i = 1 \/ i = 2
    BY <2>3
  <2>6. ~Final(u[1])
    BY <2>1 DEF Final
  <2>7. /\ state'[job] # "needs_user" /\ state[job] \notin Undecided
        /\ u[1].kind # "failed" /\ r[1].kind # "uncertain"
    BY <1>4, <1>c, <2>1
  <2>8. \A i \in 1 .. Len(u \o r) :
           /\ (u \o r)[i].job = job
           /\ Final((u \o r)[i]) => i = Len(u \o r)
           /\ (u \o r)[i].kind = "uncertain"
              => i = 1 /\ state[job] \notin Undecided /\ state'[job] = "unknown"
           /\ (u \o r)[i].kind = "failed" /\ state'[job] = "needs_user" => job \in reported'
    BY <1>4, <2>1, <2>3, <2>4, <2>5, <2>6, <2>7
  <2> QED
    BY <1>0, <2>2, <2>3, <2>8, EmitJoins
<1>d. ASSUME NEW e, Emit(Report(e)), step # "idle", state'[job] # "needs_user" \/ job \in reported'
      PROVE  HasTask(job) /\ Joins(job)
  BY <1>3, <1>a, <1>d DEF Report
<1>5. CASE SkipTask
  <2>1. queue \in Seq(Tasks) /\ queue # <<>> /\ queue' = Tail(queue)
    BY <1>5 DEF SkipTask, Inv, TypeOK, WorkerTypes
  <2>2. Head(queue) \in Tasks /\ HasTask(Head(queue).job)
    BY <1>0, <2>1, QueueShrinks DEF HasTask, Queued
  <2>3. Head(queue).job \in Jobs
    BY <2>2 DEF Tasks
  <2>4. PICK kind \in {"cancelled", "failed"} : Emit(<<Signal(kind, Head(queue).job)>>)
    BY <1>5 DEF SkipTask
  <2>5. UNCHANGED state /\ state[Head(queue).job] # "needs_user"
    <3>1. Queued(Head(queue).job)
      BY <1>0, <2>1, QueueShrinks
    <3>2. state[Head(queue).job] \in PreparingStates
      BY <2>3, <3>1 DEF Inv, TaskIsCurrent
    <3> QED
      BY <1>5, <1>c, <3>2 DEF SkipTask
  <2> QED
    BY <1>1, <1>3, <1>5, <2>2, <2>3, <2>4, <2>5 DEF SkipTask
<1>6. CASE AwaitConfirmation
  BY <1>1, <1>3, <1>6, <1>a DEF AwaitConfirmation
<1>7. CASE MarkUncertain
  <2>1. step # "idle" /\ state[job] = "confirming" /\ Move(job, "unknown")
    BY <1>7 DEF MarkUncertain, Inv, TaskIsCurrent, OutcomeSteps
  <2>2. state'[job] = "unknown" /\ Emit(<<Signal("uncertain", job)>>)
    BY <1>7, <1>a, <2>1, MoveOne DEF MarkUncertain, Uncertain
  <2> QED
    BY <1>1, <1>3, <1>a, <1>c, <2>1, <2>2
<1>8. CASE CatchSubmitError
  <2>1. step # "idle" /\ state[job] = "submitting"
    BY <1>8 DEF CatchSubmitError, Inv, TaskIsCurrent, SubmitSteps
  <2>2. CASE UNCHANGED signals
    BY <1>1, <2>2
  <2>3. CASE ~UNCHANGED signals
    <3>1. Move(job, "unknown") /\ Emit(<<Signal("uncertain", job)>>)
      BY <1>8, <2>1, <2>3 DEF CatchSubmitError, Uncertain
    <3>2. state'[job] = "unknown"
      BY <1>a, <2>1, <3>1, MoveOne
    <3> QED
      BY <1>1, <1>3, <1>a, <1>c, <2>1, <3>1, <3>2
  <2> QED
    BY <2>2, <2>3
<1>e. ASSUME step # "idle", state[job] \in OrderMayExist
      PROVE  state[job] \in {"submitting", "confirming"} /\ FailTo(job) = "unknown"
  BY <1>b, <1>e DEF OrderMayExist, PreparingStates, FailTo, TerminalStates
<1>9. ASSUME NEW e \in {"app", "needs_user"}, CatchPreparationError(e)
      PROVE  HasTask(job) /\ Joins(job) /\ job \in Jobs
  <2>1. step # "idle" /\ job \in reported'
    BY <1>9 DEF CatchPreparationError, Raised, NavigatingSteps, CancelPoints
  <2>2. CASE state[job] \in OrderMayExist
    <3>1. Move(job, "unknown") /\ Emit(Uncertain(job) \o Report(e))
      BY <1>9, <2>2 DEF CatchPreparationError
    <3>2. state'[job] = "unknown"
      BY <1>a, <2>1, <3>1, MoveOne
    <3> QED
      BY <1>4, <1>a, <1>e, <2>1, <2>2, <3>1, <3>2
  <2>3. CASE state[job] \notin OrderMayExist
    BY <1>9, <1>a, <1>d, <2>1, <2>3 DEF CatchPreparationError
  <2> QED
    BY <2>2, <2>3
<1>10. ASSUME NEW e \in {"unexpected", "cancelled"}, CatchUnexpected(e)
       PROVE  HasTask(job) /\ Joins(job) /\ job \in Jobs
  <2>1. step # "idle" /\ job \in reported'
    BY <1>10 DEF CatchUnexpected, Raised, NavigatingSteps, CancelPoints
  <2>2. CASE state[job] \in OrderMayExist
    <3>1. Move(job, "unknown") /\ Emit(Uncertain(job) \o Report(e))
      BY <1>10, <1>e, <2>1, <2>2 DEF CatchUnexpected
    <3>2. state'[job] = "unknown"
      BY <1>a, <2>1, <3>1, MoveOne
    <3> QED
      BY <1>4, <1>a, <1>e, <2>1, <2>2, <3>1, <3>2
  <2>3. CASE state[job] \notin OrderMayExist
    <3>1. FailTo(job) # "unknown"
      BY <1>b, <1>c, <2>1, <2>3 DEF FailTo
    <3>2. <<>> \o Report(e) = Report(e)
      BY <1>a, <2>1, ReportTypes, ConcatProperties, EmptySequence
    <3>3. Emit(Report(e))
      BY <1>10, <3>1, <3>2 DEF CatchUnexpected
    <3> QED
      BY <1>a, <1>d, <2>1, <3>3
  <2> QED
    BY <2>2, <2>3
<1>11. ASSUME NEW e \in {"app", "needs_user", "unexpected", "cancelled"}, LeaveTask(e)
       PROVE  HasTask(job) /\ Joins(job) /\ job \in Jobs
  <2>1. step # "idle" /\ UNCHANGED state
    BY <1>11 DEF LeaveTask, Raised, NavigatingSteps, CancelPoints
  <2>2. state'[job] # "needs_user"
    BY <1>b, <1>c, <2>1
  <2> QED
    BY <1>11, <1>a, <1>d, <2>1, <2>2 DEF LeaveTask
<1> QED
  BY <1>1, <1>2, <1>5, <1>6, <1>7, <1>8, <1>9, <1>10, <1>11 DEF WorkerStep

(* A report that is still to be handled: its job has no task. *)
LEMMA ReportedHasNoTask ==
  ASSUME Inv, NEW i \in 1 .. Len(signals), Final(signals[i])
  PROVE  signals[i].job \in Jobs /\ ~HasTask(signals[i].job)
<1>1. signals[i] \in Signals
  BY DEF Inv, TypeOK, ServiceTypes
<1> QED
  BY <1>1 DEF Signals, Inv, OneHolder, GivenUp, Final

(* The worker moves the jobs of its tasks. *)
LEMMA WorkerLeavesReported ==
  ASSUME Inv, WorkerStep, NEW j \in Jobs, ~HasTask(j)
  PROVE  state'[j] = state[j]
<1>1. CASE step # "idle"
  BY <1>1, WorkerMovesItsOwn DEF HasTask
<1>2. CASE step = "idle"
  <2>1. UNCHANGED state \/ TakeTask
    BY <1>2 DEF WorkerStep, SkipTask, Inspect, CheckRules, PlanCart, PrepareCheckout,
       EnterFinalValidation, AwaitConfirmation, SubmitAutomatically, FinishTestRun, Block,
       Recheck, StopForTestMode, PassTestMode, BeginAttempt, FindButton, RecordSubmission,
       Click, ReadResponse, MarkUncertain, RecordOrder, Confirm, CatchSubmitError,
       CatchPreparationError, CatchUnexpected, LeaveTask, Raised, NavigatingSteps,
       CancelPoints, SubmitSteps, database
  <2>2. ASSUME TakeTask PROVE j # Head(queue).job /\ Head(queue).job \in Jobs
    <3>1. queue # <<>> /\ queue \in Seq(Tasks) /\ queue' = Tail(queue)
      BY <2>2 DEF TakeTask, Inv, TypeOK, WorkerTypes
    <3>2. Head(queue) \in Tasks
      BY <3>1
    <3>3. Queued(Head(queue).job)
      BY <3>1, QueueShrinks DEF Inv
    <3> QED
      BY <3>2, <3>3 DEF Tasks, HasTask, Queued
  <2> QED
    BY <2>1, <2>2, MoveOne DEF TakeTask
<1> QED
  BY <1>1, <1>2

(* Nobody else sends a job to the user. *)
LEMMA OthersNeverNeedUser ==
  ASSUME Inv, [Next]_vars, ~WorkerStep, NEW j \in Jobs, state'[j] = "needs_user"
  PROVE  state[j] = "needs_user"
<1> USE DEF database, Move
<1>a. state \in [Jobs -> States \cup {"absent"}]
  BY DEF Inv, TypeOK, DatabaseTypes
<1>1. CASE HandleSignal
  <2>1. /\ FailTo(Received) # "needs_user" \/ FailTo(Received) = state[Received]
        /\ CancelTo(Received) # "needs_user" \/ CancelTo(Received) = state[Received]
    BY DEF FailTo, CancelTo
  <2>2. \/ UNCHANGED state
        \/ \E s : /\ state' = [state EXCEPT ![Received] = s]
                  /\ s # "needs_user" \/ s = state[Received]
    BY <1>1, <2>1 DEF HandleSignal, OnReady, OnUncertain, OnFailed, OnCancelled, SettleAs
  <2> QED
    BY <1>a, <2>2
<1>2. ASSUME NEW verdict \in {"placed", "not_placed"}, Resolve(verdict)
      PROVE  state[j] = "needs_user"
  BY <1>2, <1>a DEF Resolve
<1>3. ASSUME NEW i \in Jobs, RecoverInterrupted(i) PROVE state[j] = "needs_user"
  BY <1>3, <1>a DEF RecoverInterrupted
<1>4. ASSUME NEW p \in Products, NEW automatic \in BOOLEAN, Start(p, automatic)
      PROVE  state[j] = "needs_user"
  BY <1>4, <1>a DEF Start
<1>5. CASE \/ FinishCall \/ Accept \/ Decline \/ DecideLater \/ SwitchTestMode
           \/ \E i \in Jobs : RequestCancel(i)
           \/ Shutdown \/ ProcessStops \/ Restart \/ PromptAtStartup \/ StartupDone
           \/ Reprice \/ OtherTask \/ UNCHANGED vars
  BY <1>5 DEF FinishCall, FinishCancel, RecordUserConfirmed, Accept, Decline,
     DecideLater, SwitchTestMode, RequestCancel, Shutdown, ProcessStops, Restart,
     PromptAtStartup, StartupDone, Reprice, OtherTask, vars
<1> QED
  BY <1>1, <1>2, <1>3, <1>4, <1>5 DEF Next, UserStep, StartupStep

(* The signals of the worker are handled in order, or dropped. *)
LEMMA OthersSignals ==
  ASSUME Inv, [Next]_vars, ~WorkerStep
  PROVE  \/ signals' = <<>>
         \/ UNCHANGED <<signals, reported>> /\ ~HandleSignal
         \/ /\ HandleSignal /\ signals # <<>> /\ Head(signals) = signals[1]
            /\ signals' = Tail(signals) /\ Len(signals) \in Nat \ {0}
            /\ Len(signals') = Len(signals) - 1
            /\ \A i \in 1 .. Len(signals') :
                  i + 1 \in 1 .. Len(signals) /\ signals'[i] = signals[i + 1]
<1>1. CASE HandleSignal
  <2>1. signals \in Seq(Signals) /\ signals # <<>> /\ signals' = Tail(signals)
    BY <1>1 DEF HandleSignal, OnReady, OnUncertain, OnFailed, OnCancelled, Receives, Inv,
       TypeOK, ServiceTypes
  <2>2. /\ Head(signals) = signals[1] /\ Len(signals) \in Nat \ {0}
        /\ Len(signals') = Len(signals) - 1
        /\ \A i \in 1 .. Len(signals') : signals'[i] = signals[i + 1]
    BY <2>1, HeadTailProperties
  <2>3. \A i \in 1 .. Len(signals') : i + 1 \in 1 .. Len(signals)
    BY <2>2
  <2> QED
    BY <1>1, <2>1, <2>2, <2>3
<1>2. CASE ~HandleSignal
  BY <1>2 DEF Next, FinishCall, FinishCancel, RecordUserConfirmed, Accept, Decline,
     DecideLater, SwitchTestMode, RequestCancel, RecoverInterrupted, Resolve, Shutdown,
     ProcessStops, Restart, PromptAtStartup, StartupDone, UserStep, StartupStep, Start, Reprice,
     OtherTask, vars
<1> QED
  BY <1>1, <1>2

(* A task's end is reported once, and its own decision is marked as such. *)
LEMMA NextReports == ASSUME Inv, OneReport, [Next]_vars PROVE OneReport'
<1>a. /\ \A i, k \in 1 .. Len(signals) :
            Final(signals[i]) /\ Final(signals[k]) /\ signals[i].job = signals[k].job => i = k
      /\ \A i \in 1 .. Len(signals) :
            signals[i].kind = "failed" /\ state[signals[i].job] = "needs_user"
            => signals[i].job \in reported
  BY DEF OneReport
<1>b. \A i \in 1 .. Len(signals) :
         Final(signals[i]) => signals[i].job \in Jobs /\ ~HasTask(signals[i].job)
  BY ReportedHasNoTask
<1>c. \A s : s.kind = "failed" => Final(s)
  BY DEF Final
<1>1. CASE WorkerStep
  <2>1. reported \subseteq reported'
    BY <1>1, WorkerSignals
  <2>2. ASSUME NEW i \in 1 .. Len(signals), signals[i].kind = "failed",
               state'[signals[i].job] = "needs_user"
        PROVE  signals[i].job \in reported'
    <3>1. state'[signals[i].job] = state[signals[i].job]
      BY <1>1, <1>b, <1>c, <2>2, WorkerLeavesReported
    <3> QED
      BY <1>a, <2>1, <2>2, <3>1
  <2>3. CASE UNCHANGED signals
    BY <1>a, <2>2, <2>3 DEF OneReport
  <2>4. ASSUME NEW j \in Jobs, HasTask(j), Joins(j) PROVE OneReport'
    <3>1. \A i \in 1 .. Len(signals') :
             \/ i \in 1 .. Len(signals) /\ signals'[i] = signals[i]
             \/ /\ i \notin 1 .. Len(signals) /\ signals'[i].job = j
                /\ Final(signals'[i]) => i = Len(signals')
                /\ signals'[i].kind = "failed" /\ state'[j] = "needs_user" => j \in reported'
      BY <2>4 DEF Joins
    <3>2. ASSUME NEW i \in 1 .. Len(signals'), NEW k \in 1 .. Len(signals'),
                 Final(signals'[i]), Final(signals'[k]), signals'[i].job = signals'[k].job
          PROVE  i = k
      BY <1>a, <1>b, <2>4, <3>1, <3>2
    <3>3. ASSUME NEW i \in 1 .. Len(signals'), signals'[i].kind = "failed",
                 state'[signals'[i].job] = "needs_user"
          PROVE  signals'[i].job \in reported'
      BY <2>2, <3>1, <3>3
    <3> QED
      BY <3>2, <3>3 DEF OneReport, Final
  <2> QED
    BY <1>1, <2>3, <2>4, WorkerSignals
<1>2. CASE ~WorkerStep /\ signals' = <<>>
  BY <1>2 DEF OneReport
<1>3. CASE ~WorkerStep /\ UNCHANGED <<signals, reported>>
  <2>1. ASSUME NEW i \in 1 .. Len(signals), signals[i].kind = "failed",
               state'[signals[i].job] = "needs_user"
        PROVE  signals[i].job \in reported
    BY <1>3, <1>a, <1>b, <1>c, <2>1, OthersNeverNeedUser
  <2> QED
    BY <1>3, <1>a, <2>1 DEF OneReport
<1>4. CASE HandleSignal /\ ~WorkerStep
  <2>1. /\ signals # <<>> /\ Head(signals) = signals[1] /\ Len(signals) \in Nat \ {0}
        /\ Len(signals') = Len(signals) - 1
        /\ \A i \in 1 .. Len(signals') :
              i + 1 \in 1 .. Len(signals) /\ signals'[i] = signals[i + 1]
    BY <1>4, OthersSignals DEF HandleSignal, OnReady, OnUncertain, OnFailed, OnCancelled, Receives
  <2>2. UNCHANGED reported \/ (reported' = reported \ {Received} /\ Final(signals[1]))
    BY <1>4, <2>1 DEF HandleSignal, OnReady, OnUncertain, OnFailed, OnCancelled, Receives, Final
  <2>3. ASSUME NEW i \in 1 .. Len(signals'), NEW k \in 1 .. Len(signals'),
               Final(signals'[i]), Final(signals'[k]), signals'[i].job = signals'[k].job
        PROVE  i = k
    <3>1. i + 1 = k + 1
      BY <1>a, <2>1, <2>3
    <3> QED
      BY <2>1, <3>1
  <2>4. ASSUME NEW i \in 1 .. Len(signals'), signals'[i].kind = "failed",
               state'[signals'[i].job] = "needs_user"
        PROVE  signals'[i].job \in reported'
    <3>1. i + 1 \in 1 .. Len(signals) /\ signals'[i] = signals[i + 1] /\ i + 1 # 1
      BY <2>1
    <3>2. signals[i + 1].job \in Jobs /\ Final(signals[i + 1])
      BY <1>b, <1>c, <2>4, <3>1
    <3>3. state[signals[i + 1].job] = "needs_user"
      BY <1>4, <2>4, <3>1, <3>2, OthersNeverNeedUser
    <3>4. signals[i + 1].job \in reported
      BY <1>a, <2>4, <3>1, <3>3
    <3>5. Final(signals[1]) => signals[1].job # signals[i + 1].job
      BY <1>a, <2>1, <3>1, <3>2
    <3> QED
      BY <2>1, <2>2, <3>1, <3>4, <3>5 DEF Received
  <2> QED
    BY <2>3, <2>4 DEF OneReport, Final
<1> QED
  BY <1>1, <1>2, <1>3, <1>4, OthersSignals

(* The report of an error that has already sent its job to the user leaves  *)
(* the job with the user.                                                   *)
LEMMA ReportKeepsNeedsUser ==
  Inv /\ OneReport /\ [Next]_vars =>
    [\A j \in Jobs :
        state[j] = "needs_user" /\ signals # <<>> /\ Head(signals) = Signal("failed", j)
        => state'[j] = "needs_user"]_vars
<1> SUFFICES ASSUME Inv, OneReport, [Next]_vars, NEW j \in Jobs, state[j] = "needs_user",
                    signals # <<>>, Head(signals) = Signal("failed", j)
             PROVE  state'[j] = "needs_user"
  OBVIOUS
<1> USE DEF Move, database
<1>a. state \in [Jobs -> States \cup {"absent"}]
  BY DEF Inv, TypeOK, DatabaseTypes
<1>0. 1 \in 1 .. Len(signals) /\ signals[1] = Signal("failed", j)
  <2>1. signals \in Seq(Signals)
    BY DEF Inv, TypeOK, ServiceTypes
  <2> QED
    BY <2>1
<1>1. j \in reported /\ ~HasTask(j)
  BY <1>0, ReportedHasNoTask DEF OneReport, Signal, Final
<1>2. CASE WorkerStep
  BY <1>1, <1>2, WorkerLeavesReported
<1>3. CASE HandleSignal
  <2>1. Receives("failed") /\ Received = j
    BY <1>3 DEF HandleSignal, OnReady, OnUncertain, OnFailed, OnCancelled, Receives, Received,
       Signal
  <2>2. OnFailed
    BY <1>3, <2>1 DEF HandleSignal, OnReady, OnUncertain, OnCancelled, Receives
  <2> QED
    BY <1>1, <2>1, <2>2 DEF OnFailed
<1>4. ASSUME NEW verdict \in {"placed", "not_placed"}, Resolve(verdict)
      PROVE  state'[j] = "needs_user"
  BY <1>4, <1>a DEF Resolve
<1>5. ASSUME NEW i \in Jobs, RecoverInterrupted(i) PROVE state'[j] = "needs_user"
  BY <1>5, <1>a DEF RecoverInterrupted, Interrupted, PreparingStates
<1>6. ASSUME NEW p \in Products, NEW automatic \in BOOLEAN, Start(p, automatic)
      PROVE  state'[j] = "needs_user"
  BY <1>6, <1>a DEF Start
<1>7. CASE \/ FinishCall \/ Accept \/ Decline \/ DecideLater \/ SwitchTestMode
           \/ \E i \in Jobs : RequestCancel(i)
           \/ Shutdown \/ ProcessStops \/ Restart \/ PromptAtStartup \/ StartupDone
           \/ Reprice \/ OtherTask \/ UNCHANGED vars
  BY <1>7 DEF FinishCall, FinishCancel, RecordUserConfirmed, Accept, Decline,
     DecideLater, SwitchTestMode, RequestCancel, Shutdown, ProcessStops, Restart,
     PromptAtStartup, StartupDone, Reprice, OtherTask, vars
<1> QED
  BY <1>2, <1>3, <1>4, <1>5, <1>6, <1>7 DEF Next, UserStep, StartupStep

-----------------------------------------------------------------------------
(* What the user is asked. *)

Ask(j) == [kind |-> "uncertain", job |-> j]

(* A question is a signal on its way, or a dialog that is open. *)
LEMMA AskedMembers ==
  ASSUME NEW j
  PROVE  /\ \A i \in 1 .. Len(signals) :
               signals[i] = Signal("uncertain", j) => <<"signal", i>> \in Asked(j)
         /\ \A i \in 1 .. Len(dialogs) : dialogs[i] = Ask(j) => <<"dialog", i>> \in Asked(j)
         /\ \A a \in Asked(j)' :
               \/ \E i \in 1 .. Len(signals') :
                     signals'[i] = Signal("uncertain", j) /\ a = <<"signal", i>>
               \/ \E i \in 1 .. Len(dialogs') : dialogs'[i] = Ask(j) /\ a = <<"dialog", i>>
  BY DEF Asked, Ask, Signal

(* No question about a job is new; the first d signals are gone. *)
NoneNew(j, d) ==
    /\ \A i \in 1 .. Len(signals') :
          signals'[i] = Signal("uncertain", j)
          => i + d \in 1 .. Len(signals) /\ signals[i + d] = Signal("uncertain", j)
    /\ \A i \in 1 .. Len(dialogs') :
          dialogs'[i] = Ask(j) => i \in 1 .. Len(dialogs) /\ dialogs[i] = Ask(j)

LEMMA LengthsTypes ==
  ASSUME Inv, [Next]_vars
  PROVE  /\ Len(signals) \in Nat /\ Len(signals') \in Nat
         /\ Len(dialogs) \in Nat /\ Len(dialogs') \in Nat
<1>1. TypeOK /\ TypeOK'
  BY NextInv DEF Inv
<1> QED
  BY <1>1 DEF TypeOK, ServiceTypes, WindowTypes

(* Then the question is open or on its way once, as before. *)
LEMMA KeptQuestions ==
  ASSUME Inv, StepStates, QuestionsAreOld, AskedOnce, [Next]_vars,
         NEW j \in Jobs, NEW d \in {0, 1}, NoneNew(j, d)
  PROVE  /\ \A a, b \in Asked(j)' : a = b
         /\ Asked(j)' # {} => state'[j] \in Undecided
<1> DEFINE before(a) == IF a[1] = "signal" THEN <<"signal", a[2] + d>> ELSE a
<1>1. ASSUME NEW a \in Asked(j)' PROVE before(a) \in Asked(j)
  <2>1. CASE \E i \in 1 .. Len(signals') :
                signals'[i] = Signal("uncertain", j) /\ a = <<"signal", i>>
    <3>1. PICK i \in 1 .. Len(signals') :
                signals'[i] = Signal("uncertain", j) /\ a = <<"signal", i>>
      BY <2>1
    <3>2. i + d \in 1 .. Len(signals) /\ signals[i + d] = Signal("uncertain", j)
      BY <3>1 DEF NoneNew
    <3>3. before(a) = <<"signal", i + d>>
      BY <3>1
    <3> QED
      BY <3>2, <3>3, AskedMembers
  <2>2. CASE \E i \in 1 .. Len(dialogs') : dialogs'[i] = Ask(j) /\ a = <<"dialog", i>>
    <3>1. PICK i \in 1 .. Len(dialogs') : dialogs'[i] = Ask(j) /\ a = <<"dialog", i>>
      BY <2>2
    <3>2. before(a) = a
      BY <3>1
    <3> QED
      BY <3>1, <3>2, AskedMembers DEF NoneNew
  <2> QED
    BY <2>1, <2>2, AskedMembers
<1>2. ASSUME NEW a \in Asked(j)', NEW b \in Asked(j)' PROVE a = b
  <2>1. before(a) = before(b)
    BY <1>1 DEF AskedOnce
  <2>2. \A c \in Asked(j)' : \/ \E i \in 1 .. Len(signals') : c = <<"signal", i>>
                             \/ \E i \in 1 .. Len(dialogs') : c = <<"dialog", i>>
    BY AskedMembers
  <2>3. CASE a[1] = "signal" /\ b[1] = "signal"
    <3>1. PICK i \in 1 .. Len(signals'), k \in 1 .. Len(signals') :
                a = <<"signal", i>> /\ b = <<"signal", k>>
      BY <2>2, <2>3
    <3>2. i + d = k + d
      BY <2>1, <3>1
    <3> QED
      BY <3>1, <3>2, LengthsTypes
  <2>4. CASE ~(a[1] = "signal" /\ b[1] = "signal")
    BY <2>1, <2>2, <2>4
  <2> QED
    BY <2>3, <2>4
<1>3. ASSUME Asked(j)' # {} PROVE state'[j] \in Undecided
  <2>1. Asked(j) # {}
    BY <1>1, <1>3
  <2> QED
    BY <2>1, UndecidedStays DEF QuestionsAreOld
<1> QED
  BY <1>2, <1>3

(* There is one question about the job, and what it asks is still open. *)
OneQuestion(j) ==
    /\ \A a, b \in Asked(j)' : a = b
    /\ Asked(j)' # {} => state'[j] \in Undecided

(* Nothing asks about a job that may still become uncertain. *)
LEMMA NotAskedYet ==
  ASSUME QuestionsAreOld, NEW j \in Jobs, state[j] \notin Undecided
  PROVE  /\ \A i \in 1 .. Len(signals) : signals[i] # Signal("uncertain", j)
         /\ \A i \in 1 .. Len(dialogs) : dialogs[i] # Ask(j)
  BY AskedMembers DEF QuestionsAreOld

(* No question about the job is on its way. *)
NoSignal(j) == \A i \in 1 .. Len(signals) : signals[i] # Signal("uncertain", j)

(* A task asks about its job if the job has just become uncertain. *)
LEMMA WorkerQuestions ==
  ASSUME Inv, StepStates, QuestionsAreOld, AskedOnce, WorkerStep, NEW j \in Jobs
  PROVE  /\ OneQuestion(j)
         /\ state[j] \in Undecided /\ NoSignal(j) => NoSignal(j)'
<1> USE DEF NoSignal
<1>0. [Next]_vars
  BY DEF Next
<1>1. UNCHANGED dialogs
  BY WorkerSignals
<1>2. CASE UNCHANGED signals
  <2>1. NoneNew(j, 0)
    BY <1>0, <1>1, <1>2, LengthsTypes DEF NoneNew
  <2> QED
    BY <1>0, <1>2, <2>1, KeptQuestions DEF OneQuestion
<1>3. ASSUME NEW k \in Jobs, Joins(k)
      PROVE  /\ OneQuestion(j)
             /\ state[j] \in Undecided /\ NoSignal(j) => NoSignal(j)'
  <2>1. \A i \in 1 .. Len(signals') :
           signals'[i] = Signal("uncertain", j)
           => \/ i \in 1 .. Len(signals) /\ signals[i] = Signal("uncertain", j)
              \/ /\ i = Len(signals) + 1 /\ j = k
                 /\ state[j] \notin Undecided /\ state'[j] = "unknown"
    BY <1>3 DEF Joins, Signal
  <2>2. CASE state[j] \in Undecided
    <3>1. NoneNew(j, 0)
      BY <1>0, <1>1, <2>1, <2>2, LengthsTypes DEF NoneNew
    <3> QED
      BY <1>0, <2>1, <2>2, <3>1, KeptQuestions DEF OneQuestion
  <2>3. CASE state[j] \notin Undecided
    <3>1. \A a \in Asked(j)' : a = <<"signal", Len(signals) + 1>> /\ state'[j] = "unknown"
      BY <1>1, <2>1, <2>3, AskedMembers, NotAskedYet
    <3> QED
      BY <2>3, <3>1 DEF OneQuestion, Undecided
  <2> QED
    BY <2>2, <2>3
<1> QED
  BY <1>2, <1>3, WorkerSignals

(* A dialog that opens is the last. *)
LEMMA OpenAsks ==
  ASSUME TypeOK, NEW k \in {"confirm", "uncertain"}, NEW r \in Jobs, dialogs' = Open(k, r)
  PROVE  /\ Len(dialogs) \in Nat /\ Len(dialogs') = Len(dialogs) + 1
         /\ \A i \in 1 .. Len(dialogs) : dialogs'[i] = dialogs[i]
         /\ dialogs'[Len(dialogs) + 1] = [kind |-> k, job |-> r]
         /\ \A j \in Jobs : \A i \in 1 .. Len(dialogs') :
               dialogs'[i] = Ask(j)
               => \/ i \in 1 .. Len(dialogs) /\ dialogs[i] = Ask(j)
                  \/ i = Len(dialogs) + 1 /\ k = "uncertain" /\ j = r
<1>1. dialogs \in Seq(Dialogs) /\ [kind |-> k, job |-> r] \in Dialogs
  BY DEF TypeOK, WindowTypes, Dialogs
<1>2. /\ Len(dialogs) \in Nat /\ Len(dialogs') = Len(dialogs) + 1
      /\ \A i \in 1 .. Len(dialogs) : dialogs'[i] = dialogs[i]
      /\ dialogs'[Len(dialogs) + 1] = [kind |-> k, job |-> r]
  BY <1>1, AppendProperties DEF Open
<1>3. \A i \in 1 .. Len(dialogs') : i \in 1 .. Len(dialogs) \/ i = Len(dialogs) + 1
  BY <1>2
<1> QED
  BY <1>2, <1>3 DEF Ask

(* Handling a signal asks a question that was on its way, or a new one. *)
LEMMA SignalQuestions ==
  ASSUME Inv, StepStates, QuestionsAreOld, AskedOnce, [Next]_vars, HandleSignal, ~WorkerStep,
         NEW j \in Jobs
  PROVE  /\ OneQuestion(j)
         /\ NoSignal(j) => NoSignal(j)'
<1> USE DEF NoSignal
<1>1. /\ Head(signals) = signals[1] /\ Len(signals) \in Nat \ {0}
      /\ \A i \in 1 .. Len(signals') :
            i + 1 \in 1 .. Len(signals) /\ signals'[i] = signals[i + 1]
  <2>1. signals # <<>> /\ signals \in Seq(Signals) /\ signals' = Tail(signals)
    BY DEF HandleSignal, OnReady, OnUncertain, OnFailed, OnCancelled, Receives, Inv, TypeOK,
       ServiceTypes
  <2>2. /\ Head(signals) = signals[1] /\ Len(signals) \in Nat \ {0}
        /\ Len(signals') = Len(signals) - 1
        /\ \A i \in 1 .. Len(signals') : signals'[i] = signals[i + 1]
    BY <2>1, HeadTailProperties
  <2>3. \A i \in 1 .. Len(signals') : i + 1 \in 1 .. Len(signals)
    BY <2>2
  <2> QED
    BY <2>2, <2>3
<1>2. /\ TypeOK /\ Received \in Jobs /\ signals[1] = Signal(signals[1].kind, Received)
      /\ state[Received] \in States
  <2>1. PICK k \in {"ready", "uncertain", "failed", "cancelled"} :
           Receives(k) /\ signals' = Tail(signals)
    BY DEF HandleSignal, OnReady, OnUncertain, OnFailed, OnCancelled
  <2>2. Received \in Jobs /\ state[Received] # "absent"
    BY <2>1, SignalsShrink DEF Inv, NoStrangers
  <2>3. signals[1] \in Signals
    BY <1>1 DEF Inv, TypeOK, ServiceTypes
  <2> QED
    BY <1>1, <2>2, <2>3 DEF Signals, Signal, Received, Inv, TypeOK, DatabaseTypes
<1>3. NoSignal(j) => NoSignal(j)'
  BY <1>1
<1>4. CASE \A i \in 1 .. Len(dialogs') :
              dialogs'[i] = Ask(j) => i \in 1 .. Len(dialogs) /\ dialogs[i] = Ask(j)
  <2>1. NoneNew(j, 1)
    BY <1>1, <1>4 DEF NoneNew
  <2> QED
    BY <1>3, <2>1, KeptQuestions DEF OneQuestion
<1>a. ASSUME NEW k \in {"confirm", "uncertain"}, dialogs' = Open(k, Received)
      PROVE  \A i \in 1 .. Len(dialogs') :
                dialogs'[i] = Ask(j)
                => \/ i \in 1 .. Len(dialogs) /\ dialogs[i] = Ask(j)
                   \/ i = Len(dialogs) + 1 /\ k = "uncertain" /\ j = Received
  <2>1. PICK r \in Jobs : r = Received
    BY <1>2
  <2>2. TypeOK /\ dialogs' = Open(k, r)
    BY <1>2, <1>a, <2>1
  <2>3. \A i \in 1 .. Len(dialogs') :
            dialogs'[i] = Ask(j)
            => \/ i \in 1 .. Len(dialogs) /\ dialogs[i] = Ask(j)
               \/ i = Len(dialogs) + 1 /\ k = "uncertain" /\ j = r
    BY <2>2, OpenAsks, ZenonT(60)
  <2> QED
    BY <2>1, <2>3
<1>5. CASE OnReady
  <2>1. dialogs' = Open("confirm", Received)
    BY <1>5 DEF OnReady
  <2> QED
    BY <1>4, <1>a, <2>1
<1>6. CASE OnUncertain
  <2>1. /\ signals[1] = Signal("uncertain", Received)
        /\ dialogs' = Open("uncertain", Received)
    BY <1>1, <1>2, <1>6 DEF OnUncertain, Receives, Signal
  <2>2. CASE j # Received
    BY <1>4, <1>a, <2>1, <2>2
  <2>3. CASE j = Received
    <3>1. <<"signal", 1>> \in Asked(j)
      BY <1>1, <2>1, <2>3, AskedMembers
    <3>2. state[j] \in Undecided /\ \A a \in Asked(j) : a = <<"signal", 1>>
      BY <3>1 DEF QuestionsAreOld, AskedOnce
    <3>3. \A i \in 1 .. Len(signals') : signals'[i] # Signal("uncertain", j)
      <4>1. ASSUME NEW i \in 1 .. Len(signals'), signals'[i] = Signal("uncertain", j)
            PROVE  FALSE
        <5>1. <<"signal", i + 1>> \in Asked(j)
          BY <1>1, <4>1, AskedMembers
        <5>2. i + 1 # 1
          BY <1>1, LengthsTypes
        <5> QED
          BY <3>2, <5>1, <5>2
      <4> QED
        BY <4>1
    <3>4. \A i \in 1 .. Len(dialogs) : dialogs[i] # Ask(j)
      BY <3>2, AskedMembers
    <3>5. \A a \in Asked(j)' : a = <<"dialog", Len(dialogs) + 1>>
      BY <1>a, <2>1, <3>3, <3>4, AskedMembers
    <3> QED
      BY <1>3, <3>2, <3>5, UndecidedStays DEF OneQuestion
  <2> QED
    BY <2>2, <2>3
<1>7. CASE OnFailed \/ OnCancelled
  <2>1. CASE UNCHANGED dialogs
    BY <1>4, <2>1
  <2>2. CASE ~UNCHANGED dialogs
    <3>1. /\ dialogs' = Open("uncertain", Received) /\ state[Received] # "unknown"
          /\ FailTo(Received) = "unknown" \/ CancelTo(Received) = "unknown"
          /\ Move(Received, "unknown")
      BY <1>7, <2>2 DEF OnFailed, OnCancelled, SettleAs
    <3>2. state[Received] \notin Undecided /\ state'[Received] = "unknown"
      BY <1>2, <3>1, MoveOne DEF FailTo, CancelTo, Undecided, TerminalStates
    <3>3. CASE j # Received
      BY <1>4, <1>a, <3>1, <3>3
    <3>4. CASE j = Received
      <4>1. \A i \in 1 .. Len(signals') : signals'[i] # Signal("uncertain", j)
        BY <1>3, <3>2, <3>4, NotAskedYet
      <4>2. \A a \in Asked(j)' : a = <<"dialog", Len(dialogs) + 1>>
        BY <1>2, <1>a, <3>1, <3>2, <3>4, <4>1, AskedMembers, NotAskedYet
      <4> QED
        BY <1>3, <3>2, <3>4, <4>2 DEF OneQuestion, Undecided
    <3> QED
      BY <3>3, <3>4
  <2> QED
    BY <2>1, <2>2
<1> QED
  BY <1>5, <1>6, <1>7 DEF HandleSignal

(* The prompt at the start asks about a job nobody asks about. *)
LEMMA PromptQuestions ==
  ASSUME Inv, StepStates, QuestionsAreOld, AskedOnce, PromptAtStartup, NEW j \in Jobs
  PROVE  OneQuestion(j)
<1>0. [Next]_vars
  BY DEF Next, StartupStep
<1> DEFINE r == Head(asks)
<1>1. /\ TypeOK /\ dialogs = <<>> /\ dialogs' = Open("uncertain", r)
      /\ UNCHANGED <<signals, state>>
  BY DEF PromptAtStartup, Inv, database
<1>2. asks \in Seq(Jobs) /\ asks # <<>>
  BY DEF PromptAtStartup, Inv, TypeOK, WindowTypes
<1>3. /\ r \in Jobs /\ \E i \in 1 .. Len(asks) : r = asks[i]
  BY <1>2
<1>4. Len(dialogs) = 0
  BY <1>1
<1> HIDE DEF r
<1>5. state[r] \in Undecided /\ \A i \in 1 .. Len(signals) : signals[i] # Signal("uncertain", r)
  BY <1>3 DEF QuestionsAreOld
<1>a. \A i \in 1 .. Len(dialogs') : dialogs'[i] = Ask(j) => i = 1 /\ j = r
  <2>1. \A i \in 1 .. Len(dialogs') :
           dialogs'[i] = Ask(j)
           => \/ i \in 1 .. Len(dialogs) /\ dialogs[i] = Ask(j)
              \/ i = Len(dialogs) + 1 /\ "uncertain" = "uncertain" /\ j = r
    BY <1>1, <1>3, OpenAsks
  <2> QED
    BY <1>4, <2>1
<1>6. CASE j = r
  <2>1. \A a \in Asked(j)' : a = <<"dialog", 1>>
    BY <1>1, <1>5, <1>6, <1>a, AskedMembers
  <2> QED
    BY <1>1, <1>5, <1>6, <2>1 DEF OneQuestion
<1>7. CASE j # r
  <2>1. NoneNew(j, 0)
    BY <1>0, <1>1, <1>7, <1>a, LengthsTypes DEF NoneNew
  <2> QED
    BY <1>0, <2>1, KeptQuestions DEF OneQuestion
<1> QED
  BY <1>6, <1>7

(* Everybody else asks nothing. *)
LEMMA OtherQuestions ==
  ASSUME Inv, StepStates, QuestionsAreOld, AskedOnce, [Next]_vars,
         ~WorkerStep, ~HandleSignal, ~PromptAtStartup, NEW j \in Jobs
  PROVE  OneQuestion(j)
<1>1. UNCHANGED signals \/ signals' = <<>>
  BY OthersSignals
<1>2. \/ UNCHANGED dialogs
      \/ dialogs' = <<>>
      \/ dialogs # <<>> /\ dialogs' = Close
  BY DEF Next, FinishCall, FinishCancel, RecordUserConfirmed, Accept, Decline,
     DecideLater, SwitchTestMode, RequestCancel, RecoverInterrupted, Resolve, Shutdown,
     ProcessStops, Restart, StartupDone, UserStep, StartupStep, Start, Reprice, OtherTask,
     vars, Answering
<1>3. \A i \in 1 .. Len(dialogs') : i \in 1 .. Len(dialogs) /\ dialogs'[i] = dialogs[i]
  <2>1. CASE dialogs # <<>> /\ dialogs' = Close
    <3>1. dialogs \in Seq(Dialogs) /\ Len(dialogs) \in Nat \ {0}
      BY <2>1 DEF Inv, TypeOK, WindowTypes
    <3>2. /\ Len(dialogs') = Len(dialogs) - 1
          /\ \A i \in 1 .. Len(dialogs) - 1 : dialogs'[i] = dialogs[i]
      <4> DEFINE n == Len(dialogs) - 1
      <4>1. 1 \in 1 .. (Len(dialogs) + 1) /\ n \in (1 - 1) .. Len(dialogs) /\ n - 1 + 1 = n
        BY <3>1
      <4>2. dialogs' = SubSeq(dialogs, 1, n)
        BY <2>1 DEF Close
      <4> HIDE DEF n
      <4>3. Len(dialogs') = n - 1 + 1 /\ \A i \in 1 .. n - 1 + 1 : dialogs'[i] = dialogs[1 + i - 1]
        BY <3>1, <4>1, <4>2, SubSeqProperties
      <4>4. \A i \in 1 .. n : 1 + i - 1 = i
        OBVIOUS
      <4> QED
        BY <4>1, <4>3, <4>4 DEF n
    <3> QED
      BY <3>1, <3>2
  <2>2. CASE dialogs' = <<>>
    BY <2>2
  <2> QED
    BY <1>2, <2>1, <2>2
<1>4. NoneNew(j, 0)
  BY <1>1, <1>3, LengthsTypes DEF NoneNew
<1> QED
  BY <1>4, KeptQuestions DEF OneQuestion

(* What the start still has to ask. *)
ToAsk == {asks[i] : i \in 1 .. Len(asks)} \cup {again[i] : i \in 1 .. Len(again)}

LEMMA ToAskShrinks ==
  ASSUME Inv, [Next]_vars, \A j \in Jobs : ~RecoverInterrupted(j)
  PROVE  ToAsk' \subseteq ToAsk
<1>1. CASE PromptAtStartup
  <2>1. asks \in Seq(Jobs) /\ asks # <<>> /\ asks' = Tail(asks) /\ UNCHANGED again
    BY <1>1 DEF PromptAtStartup, Inv, TypeOK, WindowTypes
  <2>2. \A i \in 1 .. Len(asks') : i + 1 \in 1 .. Len(asks) /\ asks'[i] = asks[i + 1]
    BY <2>1, HeadTailProperties
  <2> QED
    BY <2>1, <2>2 DEF ToAsk
<1>2. CASE StartupDone
  BY <1>2 DEF StartupDone, ToAsk
<1>3. CASE Shutdown \/ ProcessStops
  BY <1>3 DEF Shutdown, ProcessStops, ToAsk
<1>4. CASE WorkerStep
  BY <1>4, WorkerSignals DEF ToAsk
<1>5. CASE \/ HandleSignal \/ FinishCall \/ UserStep \/ Restart \/ Reprice \/ OtherTask
           \/ UNCHANGED vars
  <2>1. UNCHANGED <<asks, again>>
    BY <1>5 DEF HandleSignal, OnReady, OnUncertain, OnFailed, OnCancelled, FinishCall,
       FinishCancel, RecordUserConfirmed, Accept, Decline, DecideLater, SwitchTestMode,
       RequestCancel, Resolve, Restart, UserStep, Start, Reprice, OtherTask, vars, startup
  <2> QED
    BY <2>1 DEF ToAsk
<1> QED
  BY <1>1, <1>2, <1>3, <1>4, <1>5 DEF Next, StartupStep

(* Whatever is asked is asked once, and is a question still. *)
LEMMA NextQuestions ==
  ASSUME Inv, StepStates, QuestionsAreOld, AskedOnce, [Next]_vars
  PROVE  QuestionsAreOld' /\ AskedOnce'
<1>1. \A j \in Jobs : OneQuestion(j)
  BY WorkerQuestions, SignalQuestions, PromptQuestions, OtherQuestions
<1>2. \A j \in ToAsk : /\ state[j] \in Undecided
                       /\ \A i \in 1 .. Len(signals) : signals[i] # Signal("uncertain", j)
  BY DEF QuestionsAreOld, ToAsk
<1>3. ToAsk \subseteq Jobs
  BY DEF ToAsk, Inv, TypeOK, WindowTypes
<1>4. ASSUME NEW j \in ToAsk
      PROVE  /\ state'[j] \in Undecided
             /\ \A i \in 1 .. Len(signals') : signals'[i] # Signal("uncertain", j)
  <2>1. j \in Jobs /\ state'[j] \in Undecided
    BY <1>2, <1>3, <1>4, UndecidedStays
  <2>2. \A i \in 1 .. Len(signals') : signals'[i] # Signal("uncertain", j)
    <3>1. CASE WorkerStep
      BY <1>2, <1>4, <2>1, <3>1, WorkerQuestions DEF NoSignal
    <3>2. CASE HandleSignal /\ ~WorkerStep
      BY <1>2, <1>4, <2>1, <3>2, SignalQuestions DEF NoSignal
    <3>3. CASE ~HandleSignal /\ ~WorkerStep
      BY <1>2, <1>4, <3>3, OthersSignals
    <3> QED
      BY <3>1, <3>2, <3>3
  <2> QED
    BY <2>1, <2>2
<1>5. \A j \in ToAsk' : /\ state'[j] \in Undecided
                        /\ \A i \in 1 .. Len(signals') : signals'[i] # Signal("uncertain", j)
  <2>1. CASE \A j \in Jobs : ~RecoverInterrupted(j)
    BY <1>4, <2>1, ToAskShrinks
  <2>2. ASSUME NEW r \in Jobs, RecoverInterrupted(r)
        PROVE  \A j \in ToAsk' :
                  /\ state'[j] \in Undecided
                  /\ \A i \in 1 .. Len(signals') : signals'[i] # Signal("uncertain", j)
    <3>1. Len(signals') = 0
      BY <2>2 DEF RecoverInterrupted, Inv, FreshStart
    <3>2. CASE UNCHANGED <<asks, again>>
      BY <1>4, <3>2 DEF ToAsk
    <3>3. CASE ~UNCHANGED <<asks, again>>
      <4>1. /\ asks' = Append(asks, r) /\ again' = Append(again, r) /\ Move(r, "unknown")
        BY <2>2, <3>3 DEF RecoverInterrupted
      <4>2. asks \in Seq(Jobs) /\ again \in Seq(Jobs)
        BY DEF Inv, TypeOK, WindowTypes
      <4>3. ToAsk' \subseteq ToAsk \cup {r}
        <5>1. \A i \in 1 .. Len(asks') :
                 asks'[i] = r \/ (i \in 1 .. Len(asks) /\ asks'[i] = asks[i])
          BY <4>1, <4>2, AppendProperties
        <5>2. \A i \in 1 .. Len(again') :
                 again'[i] = r \/ (i \in 1 .. Len(again) /\ again'[i] = again[i])
          BY <4>1, <4>2, AppendProperties
        <5> QED
          BY <5>1, <5>2 DEF ToAsk
      <4>4. state'[r] = "unknown"
        BY <4>1, MoveOne
      <4> QED
        BY <1>4, <3>1, <4>3, <4>4 DEF Undecided
    <3> QED
      BY <3>2, <3>3
  <2> QED
    BY <2>1, <2>2
<1>6. QuestionsAreOld'
  BY <1>1, <1>5 DEF QuestionsAreOld, OneQuestion, ToAsk
<1> QED
  BY <1>1, <1>6 DEF AskedOnce, OneQuestion

-----------------------------------------------------------------------------
(* What follows for every behaviour of the workflow. *)

LEMMA InitUserInv == Init => UserInv
<1> SUFFICES ASSUME Init PROVE UserInv
  OBVIOUS
<1>1. /\ Len(queue) = 0 /\ Len(signals) = 0 /\ Len(dialogs) = 0 /\ Len(asks) = 0
      /\ Len(again) = 0
  BY DEF Init
<1>2. StepStates /\ ReviewIsOnPage /\ HistoryFirst /\ OneReport
  BY <1>1 DEF Init, StepStates, ReviewIsOnPage, HistoryFirst, OneReport, RecheckSteps
<1>3. ConfirmedIsInHistory
  BY DEF Init, ConfirmedIsInHistory
<1>4. \A j \in Jobs : Asked(j) = {}
  BY <1>1 DEF Asked
<1>5. QuestionsAreOld /\ AskedOnce
  BY <1>1, <1>4 DEF QuestionsAreOld, AskedOnce
<1> QED
  BY <1>2, <1>3, <1>5 DEF UserInv

(* Where each task stands, what it shows, and what the user is asked.       *)
THEOREM UserInvariance == Spec => [](Inv /\ UserInv)
<1>1. Init => Inv /\ UserInv
  BY InitInv, InitUserInv
<1>2. Inv /\ UserInv /\ [Next]_vars => (Inv /\ UserInv)'
  <2> SUFFICES ASSUME Inv, UserInv, [Next]_vars PROVE Inv' /\ UserInv'
    OBVIOUS
  <2>1. Inv'
    BY NextInv
  <2>2. StepStates' /\ ReviewIsOnPage' /\ OneReport'
    BY NextStepStates, NextReview, NextReports DEF UserInv
  <2>3. HistoryFirst' /\ ConfirmedIsInHistory'
    BY NextHistory DEF UserInv
  <2>4. QuestionsAreOld' /\ AskedOnce'
    BY NextQuestions DEF UserInv
  <2> QED
    BY <2>1, <2>2, <2>3, <2>4 DEF UserInv
<1> QED
  BY <1>1, <1>2, PTL DEF Spec

(* No handler ever asks the table for a move it does not have.              *)
THEOREM MovesAreLegal == Spec => LegalMoves
<1>1. Inv /\ UserInv /\ [Next]_vars =>
        [\A j \in Jobs :
            IF state[j] = "absent" THEN state'[j] \in {"absent", "created"}
            ELSE CanMove(state[j], state'[j])]_vars
  BY StepIsLegal DEF UserInv, LegalStep
<1> QED
  BY UserInvariance, <1>1, PTL DEF Spec, LegalMoves

(* The submission on record is of the item and the total that were reviewed. *)
THEOREM ReviewedIsOrdered == Spec => OrderMatchesReview
<1>1. Inv /\ UserInv /\ [Next]_vars =>
        [\A j \in Jobs :
            j \in recorded' \ recorded
            => page.product = row[j].product /\ total = review[j]]_vars
  BY RecordIsOfReview DEF UserInv
<1> QED
  BY UserInvariance, <1>1, PTL DEF Spec, OrderMatchesReview

(* What the program confirms is in the order history already.               *)
THEOREM ConfirmedIsWritten == Spec => []ConfirmedIsInHistory
<1>1. UserInv => ConfirmedIsInHistory
  BY DEF UserInv
<1> QED
  BY UserInvariance, <1>1, PTL

(* A late report does not fail a purchase that waits for its user.          *)
THEOREM NeedsUserStays == Spec => NeedsUserIsKept
<1>1. Inv /\ UserInv /\ [Next]_vars =>
        [\A j \in Jobs :
            state[j] = "needs_user" /\ signals # <<>> /\ Head(signals) = Signal("failed", j)
            => state'[j] = "needs_user"]_vars
  BY ReportKeepsNeedsUser DEF UserInv
<1> QED
  BY UserInvariance, <1>1, PTL DEF Spec, NeedsUserIsKept

(* However many handlers see a failure, the user is asked once about it.    *)
THEOREM UserAskedOnce == Spec => []AskedOnce
<1>1. UserInv => AskedOnce
  BY DEF UserInv
<1> QED
  BY UserInvariance, <1>1, PTL

-----------------------------------------------------------------------------
(* Nobody is left waiting. *)

Decided == {"needs_user", "unknown"} \cup TerminalStates

(* A job with a task is on its way. *)
LEMMA TasksAreUndecided ==
  ASSUME Inv, NEW j \in Jobs, HasTask(j)
  PROVE  state[j] \notin Decided /\ state[j] # "absent" /\ j \notin pending /\ ~GivenUp(j)
<1>1. j \notin pending /\ ~GivenUp(j)
  BY DEF Inv, OneHolder
<1>2. CASE Queued(j)
  BY <1>1, <1>2 DEF Inv, TaskIsCurrent, PreparingStates, Decided, TerminalStates
<1>3. CASE j = job
  <2>1. step \in Steps
    BY <1>3, MaxJobsAssumption DEF Inv, TypeOK, WorkerTypes, Jobs, NoJob
  <2> QED
    BY <1>1, <1>3, <2>1 DEF Inv, TaskIsCurrent, Steps, PreparingStates, Decided,
       TerminalStates
<1> QED
  BY <1>2, <1>3 DEF HasTask, Queued

(* Who moves a job that has no task, and where to. *)
LEMMA IdleJobs ==
  ASSUME Inv, [Next]_vars, NEW j \in Jobs, ~HasTask(j), state'[j] # state[j]
  PROVE  \/ GivenUp(j) /\ state'[j] \in {FailTo(j), CancelTo(j)}
         \/ state[j] = "unknown" /\ state'[j] \in Decided
         \/ alive = "recovering" /\ state'[j] \in Decided
         \/ state[j] = "absent" /\ state'[j] = "created" /\ HasTask(j)'
<1> USE DEF Move, database
<1>a. state \in [Jobs -> States \cup {"absent"}]
  BY DEF Inv, TypeOK, DatabaseTypes
<1>1. ~WorkerStep
  BY WorkerLeavesReported
<1>2. CASE HandleSignal
  <2>1. /\ \E k \in {"failed", "cancelled"} : Receives(k) /\ signals' = Tail(signals)
        /\ \E s \in {FailTo(Received), CancelTo(Received)} :
              state' = [state EXCEPT ![Received] = s]
    BY <1>2 DEF HandleSignal, OnReady, OnUncertain, OnFailed, OnCancelled, SettleAs
  <2>2. Received \in Jobs /\ GivenUp(Received)
    BY <2>1, SignalsShrink DEF Inv
  <2>3. j = Received
    BY <1>a, <2>1, <2>2
  <2> QED
    BY <1>a, <2>1, <2>2, <2>3
<1>3. ASSUME NEW verdict \in {"placed", "not_placed"}, Resolve(verdict)
      PROVE  state[j] = "unknown" /\ state'[j] \in Decided
  BY <1>3, <1>a DEF Resolve, Decided, TerminalStates
<1>4. ASSUME NEW i \in Jobs, RecoverInterrupted(i)
      PROVE  alive = "recovering" /\ state'[j] \in Decided
  BY <1>4, <1>a DEF RecoverInterrupted, Decided, TerminalStates
<1>5. ASSUME NEW p \in Products, NEW automatic \in BOOLEAN, Start(p, automatic)
      PROVE  state[j] = "absent" /\ state'[j] = "created" /\ HasTask(j)'
  <2>1. /\ state[j] = "absent" /\ state'[j] = "created"
        /\ queue' = Append(queue, [job |-> j, submit |-> FALSE])
    BY <1>5, <1>a DEF Start
  <2>2. [job |-> j, submit |-> FALSE] \in Tasks
    BY DEF Tasks
  <2>3. Queued(j)'
    BY <2>1, <2>2, QueueGrows DEF Inv
  <2> QED
    BY <2>1, <2>3 DEF HasTask, Queued
<1>6. CASE \/ FinishCall \/ Accept \/ Decline \/ DecideLater \/ SwitchTestMode
           \/ \E i \in Jobs : RequestCancel(i)
           \/ Shutdown \/ ProcessStops \/ Restart \/ PromptAtStartup \/ StartupDone
           \/ Reprice \/ OtherTask \/ UNCHANGED vars
  BY <1>6 DEF FinishCall, FinishCancel, RecordUserConfirmed, Accept, Decline,
     DecideLater, SwitchTestMode, RequestCancel, Shutdown, ProcessStops, Restart,
     PromptAtStartup, StartupDone, Reprice, OtherTask, vars
<1> QED
  BY <1>1, <1>2, <1>3, <1>4, <1>5, <1>6 DEF Next, UserStep, StartupStep

(* What is decided stays decided. *)
LEMMA DecidedStays ==
  ASSUME Inv, [Next]_vars, NEW j \in Jobs, state[j] \in Decided
  PROVE  state'[j] \in Decided
<1>1. ~HasTask(j) /\ state[j] # "absent"
  BY TasksAreUndecided DEF Decided, TerminalStates
<1>2. {FailTo(j), CancelTo(j)} \subseteq Decided
  BY DEF FailTo, CancelTo, Decided, TerminalStates
<1> QED
  BY <1>1, <1>2, IdleJobs

(* The task that marks its job as reported has decided about it. *)
LEMMA ReportedIsDecided ==
  ASSUME Inv, \A j \in reported : state[j] \in Decided, [Next]_vars
  PROVE  \A j \in reported' : state'[j] \in Decided
<1> USE DEF Move, database, worker, amazon, gui
<1>a. reported \subseteq Jobs
  BY DEF Inv, TypeOK, ServiceTypes
<1>1. CASE \/ StopForTestMode
           \/ \E e \in {"app", "needs_user"} : CatchPreparationError(e)
           \/ \E e \in {"unexpected", "cancelled"} : CatchUnexpected(e)
  <2>1. /\ step # "idle" /\ reported' = reported \cup {job}
        /\ \E s \in Decided \cup {FailTo(job)} : state' = [state EXCEPT ![job] = s]
    BY <1>1 DEF StopForTestMode, CatchPreparationError, CatchUnexpected, Raised,
       NavigatingSteps, CancelPoints, Decided, TerminalStates
  <2>2. FailTo(job) \in Decided
    BY DEF FailTo, Decided, TerminalStates
  <2>3. job \in Jobs
    BY <2>1, Running
  <2>4. state'[job] \in Decided
    BY <2>1, <2>2, <2>3 DEF Inv, TypeOK, DatabaseTypes
  <2> QED
    BY <1>a, <2>1, <2>4, DecidedStays
<1>2. CASE reported' \subseteq reported
  BY <1>a, <1>2, DecidedStays
<1>3. CASE WorkerStep
  <2>1. reported' \subseteq reported \/ StopForTestMode
        \/ (\E e \in {"app", "needs_user"} : CatchPreparationError(e))
        \/ (\E e \in {"unexpected", "cancelled"} : CatchUnexpected(e))
    BY <1>3 DEF WorkerStep, SkipTask, TakeTask, Inspect, CheckRules, PlanCart,
       PrepareCheckout, EnterFinalValidation, AwaitConfirmation, SubmitAutomatically,
       FinishTestRun, Block, Recheck, PassTestMode, BeginAttempt, FindButton,
       RecordSubmission, Click, ReadResponse, MarkUncertain, RecordOrder, Confirm,
       CatchSubmitError, LeaveTask
  <2> QED
    BY <1>1, <1>2, <2>1
<1>4. CASE ~WorkerStep
  <2>1. reported' \subseteq reported
    BY <1>4 DEF Next, HandleSignal, OnReady, OnUncertain, OnFailed, OnCancelled, FinishCall,
       FinishCancel, RecordUserConfirmed, Accept, Decline, DecideLater, SwitchTestMode,
       RequestCancel, RecoverInterrupted, Resolve, Shutdown, ProcessStops, Restart,
       PromptAtStartup, StartupDone, UserStep, StartupStep, Start, Reprice, OtherTask, vars
  <2> QED
    BY <1>2, <2>1
<1> QED
  BY <1>3, <1>4

(* A review is pending only while its job waits for the user's word. *)
LEMMA PendingWaits ==
  ASSUME Inv, \A j \in pending : state[j] = "awaiting_confirmation", [Next]_vars
  PROVE  \A j \in pending' : state'[j] = "awaiting_confirmation"
<1>1. ASSUME NEW j \in pending PROVE state'[j] = "awaiting_confirmation"
  <2>1. j \in Jobs
    BY DEF Inv, TypeOK, ServiceTypes
  <2>2. ~HasTask(j) /\ ~GivenUp(j) /\ alive # "recovering"
    BY <2>1 DEF Inv, OneHolder, FreshStart
  <2> QED
    BY <2>1, <2>2, IdleJobs
<1>2. ASSUME AwaitConfirmation
      PROVE  /\ pending' = pending \cup {job} /\ job \in Jobs
             /\ state'[job] = "awaiting_confirmation"
  BY <1>2, Running, MoveOne DEF AwaitConfirmation
<1>3. AwaitConfirmation \/ pending' \subseteq pending
  BY DEF Next, WorkerStep, SkipTask, TakeTask, Inspect, CheckRules, PlanCart,
     PrepareCheckout, EnterFinalValidation, SubmitAutomatically, FinishTestRun, Block,
     Recheck, StopForTestMode, PassTestMode, BeginAttempt, FindButton, RecordSubmission,
     Click, ReadResponse, MarkUncertain, RecordOrder, Confirm, CatchSubmitError,
     CatchPreparationError, CatchUnexpected, LeaveTask, gui, HandleSignal, OnReady,
     OnUncertain, OnFailed, OnCancelled, FinishCall, FinishCancel, RecordUserConfirmed,
     Accept, Decline, DecideLater, SwitchTestMode, RequestCancel, RecoverInterrupted,
     Resolve, Shutdown, ProcessStops, Restart, PromptAtStartup, StartupDone, UserStep,
     StartupStep, Start, Reprice, OtherTask, vars
<1> QED
  BY <1>1, <1>2, <1>3

(* While the window listens, what a task emits joins the signals. *)
Heard(e) ==
    /\ \A i \in 1 .. Len(signals) : \E k \in 1 .. Len(signals') : signals'[k] = signals[i]
    /\ \A i \in 1 .. Len(e) : \E k \in 1 .. Len(signals') : signals'[k] = e[i]

LEMMA EmitIsHeard ==
  ASSUME TypeOK, alive = "up", NEW e \in Seq(Signals), Emit(e)
  PROVE  Heard(e)
<1>1. /\ Len(signals) \in Nat /\ Len(e) \in Nat
      /\ Len(signals') = Len(signals) + Len(e)
      /\ \A i \in 1 .. Len(signals') :
            signals'[i] = IF i <= Len(signals) THEN signals[i] ELSE e[i - Len(signals)]
  BY ConcatProperties DEF TypeOK, ServiceTypes, Emit
<1>2. ASSUME NEW i \in 1 .. Len(signals)
      PROVE  \E k \in 1 .. Len(signals') : signals'[k] = signals[i]
  BY <1>1
<1>3. ASSUME NEW i \in 1 .. Len(e)
      PROVE  \E k \in 1 .. Len(signals') : signals'[k] = e[i]
  <2>1. Len(signals) + i \in 1 .. Len(signals')
        /\ signals'[Len(signals) + i] = e[Len(signals) + i - Len(signals)]
    BY <1>1
  <2>2. e[Len(signals) + i - Len(signals)] = e[i]
    BY <1>1
  <2> QED
    BY <2>1, <2>2
<1> QED
  BY <1>2, <1>3 DEF Heard

(* A single signal that was heard is among the signals. *)
LEMMA HeardAlone ==
  ASSUME NEW s, Heard(<<s>>)
  PROVE  \E k \in 1 .. Len(signals') : signals'[k] = s
<1>1. Len(<<s>>) = 1 /\ <<s>>[1] = s
  OBVIOUS
<1> QED
  BY <1>1 DEF Heard

(* What holds of the signals before holds of those after. *)
SignalsStay == \A i \in 1 .. Len(signals) : \E k \in 1 .. Len(signals') : signals'[k] = signals[i]

(* The tasks that are not taken stay in the queue. *)
LEMMA TailKeeps ==
  ASSUME queue \in Seq(Tasks), queue # <<>>, queue' = Tail(queue), NEW j,
         j # Head(queue).job, \E i \in 1 .. Len(queue) : queue[i].job = j
  PROVE  \E i \in 1 .. Len(queue') : queue'[i].job = j
<1>1. /\ Len(queue) \in Nat \ {0} /\ Head(queue) = queue[1]
      /\ Len(queue') = Len(queue) - 1
      /\ \A i \in 1 .. Len(queue') : queue'[i] = queue[i + 1]
  BY HeadTailProperties
<1>2. PICK i \in 1 .. Len(queue) : queue[i].job = j
  OBVIOUS
<1>3. i - 1 \in 1 .. Len(queue') /\ queue'[i - 1] = queue[i - 1 + 1] /\ i - 1 + 1 = i
  BY <1>1, <1>2
<1> QED
  BY <1>2, <1>3

(* A step of the worker keeps its task, or decides about the job, or hands   *)
(* the review over, or reports that it has given the job up.                 *)
LEMMA WorkerEnds ==
  ASSUME Inv, WorkerStep, alive = "up"
  PROVE  /\ SignalsStay /\ UNCHANGED <<dialogs, act, alive>>
         /\ \A j \in Jobs : HasTask(j) =>
               \/ HasTask(j)'
               \/ state'[j] \in Decided
               \/ state'[j] = "awaiting_confirmation"
               \/ GivenUp(j)'
         /\ \A j \in pending' \ pending :
               \E k \in 1 .. Len(signals') : signals'[k] = Signal("ready", j)
<1> USE DEF gui, startup, Move
<1>0. TypeOK
  BY DEF Inv
<1>1. UNCHANGED <<dialogs, act, alive>>
  BY DEF WorkerStep, SkipTask, TakeTask, Inspect, CheckRules, PlanCart, PrepareCheckout,
     EnterFinalValidation, AwaitConfirmation, SubmitAutomatically, FinishTestRun, Block,
     Recheck, StopForTestMode, PassTestMode, BeginAttempt, FindButton, RecordSubmission,
     Click, ReadResponse, MarkUncertain, RecordOrder, Confirm, CatchSubmitError,
     CatchPreparationError, CatchUnexpected, LeaveTask
<1>2. ASSUME UNCHANGED signals PROVE SignalsStay
  BY <1>2 DEF SignalsStay
<1>3. ASSUME NEW e \in Seq(Signals), Emit(e) PROVE SignalsStay /\ Heard(e)
  BY <1>0, <1>3, EmitIsHeard DEF Heard, SignalsStay
<1>4. ASSUME UNCHANGED queue, NEW j \in Jobs, HasTask(j), j # job PROVE HasTask(j)'
  BY <1>4 DEF HasTask
<1>5. CASE SkipTask
  <2>1. /\ queue # <<>> /\ queue \in Seq(Tasks) /\ queue' = Tail(queue)
        /\ job = NoJob /\ UNCHANGED <<job, pending>>
    BY <1>5, <1>0 DEF SkipTask, TypeOK, WorkerTypes, worker
  <2>2. Head(queue) \in Tasks
    BY <2>1
  <2>3. PICK h \in Jobs : h = Head(queue).job
    BY <2>2 DEF Tasks
  <2>4. PICK kind \in {"cancelled", "failed"} : Emit(<<Signal(kind, h)>>)
    BY <1>5, <2>3 DEF SkipTask
  <2>a. <<Signal(kind, h)>> \in Seq(Signals)
    BY DEF Signal, Signals
  <2>5. SignalsStay /\ Heard(<<Signal(kind, h)>>)
    BY <1>3, <2>4, <2>a
  <2>6. GivenUp(h)'
    BY <2>5, HeardAlone DEF GivenUp, Signal
  <2>7. ASSUME NEW j \in Jobs, HasTask(j), j # h PROVE HasTask(j)'
    <3>1. \E i \in 1 .. Len(queue) : queue[i].job = j
      BY <2>1, <2>7, MaxJobsAssumption DEF HasTask, Jobs, NoJob
    <3> QED
      BY <2>1, <2>3, <2>7, <3>1, TailKeeps DEF HasTask
  <2> QED
    BY <1>1, <2>1, <2>5, <2>6, <2>7
<1>6. CASE TakeTask
  <2>1. /\ queue # <<>> /\ queue \in Seq(Tasks) /\ queue' = Tail(queue)
        /\ job = NoJob /\ job' = Head(queue).job /\ UNCHANGED <<pending, signals>>
    BY <1>6, <1>0 DEF TakeTask, TypeOK, WorkerTypes
  <2>2. ASSUME NEW j \in Jobs, HasTask(j), j # Head(queue).job PROVE HasTask(j)'
    <3>1. \E i \in 1 .. Len(queue) : queue[i].job = j
      BY <2>1, <2>2, MaxJobsAssumption DEF HasTask, Jobs, NoJob
    <3> QED
      BY <2>1, <2>2, <3>1, TailKeeps DEF HasTask
  <2>3. ASSUME NEW j \in Jobs, j = Head(queue).job PROVE HasTask(j)'
    BY <2>1, <2>3 DEF HasTask
  <2> QED
    BY <1>1, <1>2, <2>1, <2>2, <2>3
<1>7. CASE Inspect \/ CheckRules \/ PlanCart \/ PrepareCheckout \/ EnterFinalValidation
           \/ SubmitAutomatically \/ Recheck \/ PassTestMode \/ BeginAttempt \/ FindButton
           \/ RecordSubmission \/ Click \/ ReadResponse \/ RecordOrder
  <2>1. UNCHANGED <<job, queue, pending, signals>>
    BY <1>7 DEF Inspect, CheckRules, PlanCart, PrepareCheckout, EnterFinalValidation,
       SubmitAutomatically, Recheck, PassTestMode, BeginAttempt, FindButton,
       RecordSubmission, Click, ReadResponse, RecordOrder, Goto
  <2> QED
    BY <1>1, <1>2, <2>1 DEF HasTask
<1>8. ASSUME UNCHANGED <<queue, pending>>, SignalsStay,
             NEW h \in Jobs, h = job, state'[h] \in Decided \/ GivenUp(h)'
      PROVE  /\ SignalsStay
             /\ \A j \in Jobs : HasTask(j) =>
                   HasTask(j)' \/ state'[j] \in Decided \/ GivenUp(j)'
             /\ pending' \ pending = {}
  BY <1>4, <1>8
<1>9. CASE FinishTestRun \/ Block \/ StopForTestMode \/ Confirm
  <2>1. /\ step # "idle" /\ UNCHANGED <<queue, pending, signals>>
        /\ \E s \in TerminalStates : state' = [state EXCEPT ![job] = s]
    BY <1>9 DEF FinishTestRun, Block, StopForTestMode, Confirm, TerminalStates
  <2>2. job \in Jobs /\ state'[job] \in Decided
    BY <2>1, Running DEF Inv, TypeOK, DatabaseTypes, Decided
  <2> QED
    BY <1>1, <1>2, <1>8, <2>1, <2>2
<1>10. CASE AwaitConfirmation
  <2> DEFINE e == <<Signal("ready", job)>>
  <2>1. /\ step # "idle" /\ UNCHANGED queue /\ pending' = pending \cup {job}
        /\ state' = [state EXCEPT ![job] = "awaiting_confirmation"] /\ Emit(e)
    BY <1>10 DEF AwaitConfirmation
  <2>2. job \in Jobs /\ state'[job] = "awaiting_confirmation"
    BY <2>1, Running DEF Inv, TypeOK, DatabaseTypes
  <2>3. e \in Seq(Signals)
    BY <2>2 DEF Signal, Signals
  <2>4. SignalsStay /\ Heard(e)
    BY <1>3, <2>1, <2>3
  <2>5. \E k \in 1 .. Len(signals') : signals'[k] = Signal("ready", job)
    BY <2>4, HeardAlone
  <2> QED
    BY <1>1, <1>4, <2>1, <2>2, <2>4, <2>5
<1>11. CASE MarkUncertain \/ CatchSubmitError
  <2>1. /\ step # "idle" /\ UNCHANGED <<queue, pending>>
        /\ Emit(Uncertain(job)) \/ UNCHANGED signals
        /\ \E s \in {"unknown", "failed"} : state' = [state EXCEPT ![job] = s]
    BY <1>11 DEF MarkUncertain, CatchSubmitError, SubmitSteps
  <2>2. job \in Jobs /\ state'[job] \in Decided /\ Uncertain(job) \in Seq(Signals)
    BY <2>1, Running, UncertainTypes DEF Inv, TypeOK, DatabaseTypes, Decided, TerminalStates
  <2> QED
    BY <1>1, <1>2, <1>3, <1>8, <2>1, <2>2
<1>12. CASE \/ \E e \in {"app", "needs_user"} : CatchPreparationError(e)
            \/ \E e \in {"unexpected", "cancelled"} : CatchUnexpected(e)
  <2>1. PICK e \in {"app", "needs_user", "unexpected", "cancelled"} :
           CatchPreparationError(e) \/ CatchUnexpected(e)
    BY <1>12
  <2>2. /\ step # "idle" /\ UNCHANGED <<queue, pending>>
        /\ Emit(Uncertain(job) \o Report(e)) \/ Emit(Report(e))
           \/ Emit(<<>> \o Report(e))
        /\ \E s \in Decided \cup {FailTo(job)} : state' = [state EXCEPT ![job] = s]
    BY <2>1 DEF CatchPreparationError, CatchUnexpected, Raised, NavigatingSteps,
       CancelPoints, Decided, TerminalStates
  <2>3. job \in Jobs /\ FailTo(job) \in Decided /\ Uncertain(job) \in Seq(Signals)
        /\ Report(e) \in Seq(Signals) /\ <<>> \in Seq(Signals)
    BY <2>2, Running, UncertainTypes, ReportTypes, EmptySequence
       DEF FailTo, Decided, TerminalStates
  <2>4. state'[job] \in Decided
    BY <2>2, <2>3 DEF Inv, TypeOK, DatabaseTypes
  <2>5. \E f \in Seq(Signals) : Emit(f)
    <3>1. Uncertain(job) \o Report(e) \in Seq(Signals) /\ <<>> \o Report(e) \in Seq(Signals)
      BY <2>3, ConcatProperties
    <3> QED
      BY <2>2, <2>3, <3>1
  <2>6. SignalsStay
    BY <1>3, <2>5
  <2> QED
    BY <1>1, <1>8, <2>2, <2>3, <2>4, <2>6
<1>13. CASE \E e \in {"app", "needs_user", "unexpected", "cancelled"} : LeaveTask(e)
  <2>1. PICK e \in {"app", "needs_user", "unexpected", "cancelled"} : LeaveTask(e)
    BY <1>13
  <2>2. /\ step # "idle" /\ UNCHANGED <<queue, pending>> /\ Emit(Report(e))
    BY <2>1 DEF LeaveTask, Raised, NavigatingSteps, CancelPoints
  <2>3. Report(e) \in Seq(Signals)
    BY <2>2, Running, ReportTypes
  <2>4. PICK h \in Jobs : h = job
    BY <2>2, Running
  <2>5. PICK k \in {"failed", "cancelled"} : Report(e) = <<Signal(k, h)>>
    BY <2>4 DEF Report
  <2>6. SignalsStay /\ Heard(<<Signal(k, h)>>)
    BY <1>3, <2>2, <2>3, <2>5
  <2>7. GivenUp(h)'
    BY <2>6, HeardAlone DEF GivenUp, Signal
  <2> QED
    BY <1>1, <1>8, <2>2, <2>4, <2>6, <2>7
<1> QED
  BY <1>5, <1>6, <1>7, <1>9, <1>10, <1>11, <1>12, <1>13 DEF WorkerStep

(* Nobody else takes a task away while the program runs. *)
LEMMA OthersKeepTasks ==
  ASSUME Inv, [Next]_vars, ~WorkerStep, alive' = "up", NEW j \in Jobs, HasTask(j)
  PROVE  HasTask(j)'
<1> USE DEF worker, amazon, startup
<1>1. CASE UNCHANGED <<job, queue>>
  BY <1>1 DEF HasTask
<1>2. ASSUME NEW t \in Tasks, UNCHANGED job, queue' = Append(queue, t) PROVE HasTask(j)'
  BY <1>2, QueueGrows DEF HasTask, Queued, Inv
<1>3. CASE Accept
  <2>1. [job |-> Top.job, submit |-> TRUE] \in Tasks
    BY <1>3, CloseTypes DEF Accept, Answering, Inv, Dialogs, Tasks
  <2> QED
    BY <1>1, <1>2, <1>3, <2>1 DEF Accept
<1>4. ASSUME NEW p \in Products, NEW automatic \in BOOLEAN, Start(p, automatic)
      PROVE  HasTask(j)'
  <2>1. PICK i \in Jobs : queue' = Append(queue, [job |-> i, submit |-> FALSE])
    BY <1>4 DEF Start
  <2> QED
    BY <1>2, <1>4, <2>1 DEF Start, Tasks
<1>5. CASE \/ HandleSignal \/ FinishCall \/ Decline \/ DecideLater \/ SwitchTestMode
           \/ \E verdict \in {"placed", "not_placed"} : Resolve(verdict)
           \/ \E i \in Jobs : RequestCancel(i)
           \/ Shutdown \/ Restart \/ StartupStep
           \/ Reprice \/ OtherTask \/ UNCHANGED vars
  BY <1>1, <1>5 DEF HandleSignal, OnReady, OnUncertain, OnFailed, OnCancelled, FinishCall,
     FinishCancel, RecordUserConfirmed, Decline, DecideLater, SwitchTestMode, Resolve,
     RequestCancel, Shutdown, Restart, StartupStep, RecoverInterrupted, PromptAtStartup,
     StartupDone, Reprice, OtherTask, vars
<1>6. ~ProcessStops
  BY DEF ProcessStops
<1> QED
  BY <1>3, <1>4, <1>5, <1>6 DEF Next, UserStep

(* The window handles the report by which a task gave up its job: the job is *)
(* decided.  The signal that a review is ready puts the review on screen.    *)
LEMMA HandledIsDecided ==
  ASSUME Inv, CarryInv, HandleSignal, NEW j \in Jobs
  PROVE  /\ GivenUp(j) => GivenUp(j)' \/ state'[j] \in Decided
         /\ (\E i \in 1 .. Len(signals) : signals[i] = Signal("ready", j))
            => \/ \E i \in 1 .. Len(signals') : signals'[i] = Signal("ready", j)
               \/ Shown("confirm", j)'
<1> USE DEF Move, database
<1>1. /\ signals \in Seq(Signals) /\ signals # <<>> /\ signals' = Tail(signals)
  BY DEF HandleSignal, OnReady, OnUncertain, OnFailed, OnCancelled, Receives, Inv,
     TypeOK, ServiceTypes
<1>2. /\ Head(signals) = signals[1] /\ Len(signals) \in Nat \ {0}
      /\ Len(signals') = Len(signals) - 1
      /\ \A i \in 1 .. Len(signals') : signals'[i] = signals[i + 1]
  BY <1>1, HeadTailProperties
<1>3. ASSUME NEW i \in 1 .. Len(signals), i # 1
      PROVE  \E k \in 1 .. Len(signals') : signals'[k] = signals[i]
  <2>1. i - 1 \in 1 .. Len(signals') /\ i - 1 + 1 = i
    BY <1>2, <1>3
  <2> QED
    BY <1>2, <2>1
<1>4. ASSUME GivenUp(j), ~GivenUp(j)' PROVE state'[j] \in Decided
  <2>1. PICK i \in 1 .. Len(signals) :
           signals[i].job = j /\ signals[i].kind \in {"failed", "cancelled"}
    BY <1>4 DEF GivenUp
  <2>2. i = 1
    BY <1>3, <1>4, <2>1 DEF GivenUp
  <2>3. Received = j /\ (Receives("failed") \/ Receives("cancelled"))
        /\ ~Receives("ready") /\ ~Receives("uncertain")
    BY <1>1, <1>2, <2>1, <2>2 DEF Received, Receives, HandleSignal, OnReady, OnUncertain,
       OnFailed, OnCancelled
  <2>4. {FailTo(j), CancelTo(j)} \subseteq Decided
    BY DEF FailTo, CancelTo, Decided, TerminalStates
  <2>5. \/ j \in reported /\ UNCHANGED state
        \/ \E s \in {FailTo(j), CancelTo(j)} : state' = [state EXCEPT ![j] = s]
    BY <2>3 DEF HandleSignal, OnReady, OnUncertain, OnFailed, OnCancelled, SettleAs
  <2> QED
    BY <2>4, <2>5 DEF CarryInv, Decided, Inv, TypeOK, DatabaseTypes
<1>5. ASSUME NEW i \in 1 .. Len(signals), signals[i] = Signal("ready", j)
      PROVE  \/ \E k \in 1 .. Len(signals') : signals'[k] = Signal("ready", j)
             \/ Shown("confirm", j)'
  <2>1. CASE i # 1
    BY <1>3, <1>5, <2>1
  <2>2. CASE i = 1
    <3>1. Received = j /\ Head(signals).kind = "ready"
      BY <1>2, <1>5, <2>2 DEF Received, Signal
    <3>2. dialogs' = Append(dialogs, [kind |-> "confirm", job |-> j])
      BY <3>1 DEF HandleSignal, OnReady, OnUncertain, OnFailed, OnCancelled, Receives, Open
    <3>3. /\ Len(dialogs') \in 1 .. Len(dialogs')
          /\ dialogs'[Len(dialogs')] = [kind |-> "confirm", job |-> j]
      BY <3>2, AppendProperties DEF Inv, TypeOK, WindowTypes
    <3> QED
      BY <3>3 DEF Shown
  <2> QED
    BY <2>1, <2>2
<1> QED
  BY <1>4, <1>5

(* A dialog that opens leaves the others open; one that closes was on top.   *)
LEMMA ShownStays ==
  ASSUME Inv, NEW j \in Jobs, Shown("confirm", j),
         \/ UNCHANGED dialogs
         \/ \E d : dialogs' = Append(dialogs, d)
         \/ dialogs # <<>> /\ dialogs' = Close /\ Top # [kind |-> "confirm", job |-> j]
  PROVE  Shown("confirm", j)'
<1>0. dialogs \in Seq(Dialogs)
  BY DEF Inv, TypeOK, WindowTypes
<1>1. PICK i \in 1 .. Len(dialogs) : dialogs[i] = [kind |-> "confirm", job |-> j]
  BY DEF Shown
<1>2. CASE UNCHANGED dialogs
  BY <1>1, <1>2 DEF Shown
<1>3. ASSUME NEW d, dialogs' = Append(dialogs, d) PROVE Shown("confirm", j)'
  <2>1. i \in 1 .. Len(dialogs') /\ dialogs'[i] = dialogs[i]
    BY <1>0, <1>3
  <2> QED
    BY <1>1, <2>1 DEF Shown
<1>4. CASE dialogs # <<>> /\ dialogs' = Close /\ Top # [kind |-> "confirm", job |-> j]
  <2>1. i # Len(dialogs)
    BY <1>1, <1>4 DEF Top
  <2>2. i \in 1 .. Len(dialogs') /\ dialogs'[i] = dialogs[i]
    BY <1>0, <1>4, <2>1 DEF Close
  <2> QED
    BY <1>1, <2>2 DEF Shown
<1> QED
  BY <1>2, <1>3, <1>4

(* A review on the screen stays there, or is answered.                       *)
LEMMA ReviewStays ==
  ASSUME Inv, CarryInv, [Next]_vars, ~WorkerStep, ~HandleSignal,
         alive = "up", alive' = "up", NEW j \in Jobs, j \in pending'
  PROVE  /\ j \in pending /\ UNCHANGED signals
         /\ Shown("confirm", j) =>
               Shown("confirm", j)' \/ act' = [op |-> "stop", job |-> j]
         /\ act = [op |-> "stop", job |-> j] => act' = act
<1> USE DEF amazon, worker, database, startup
<1>1. CASE Accept
  <2>1. /\ j \in pending /\ UNCHANGED <<signals, act>>
        /\ dialogs # <<>> /\ dialogs' = Close /\ Top # [kind |-> "confirm", job |-> j]
    BY <1>1 DEF Accept, Answering
  <2> QED
    BY <2>1, ShownStays
<1>2. CASE Decline
  <2>1. /\ j \in pending /\ UNCHANGED signals /\ act = NoAct
        /\ dialogs # <<>> /\ dialogs' = Close
    BY <1>2 DEF Decline, Answering, GuiRuns
  <2>2. Stoppable(j)
    BY <2>1 DEF CarryInv, Stoppable, LiveStates, PreparingStates, OrderMayExist
  <2>3. CASE Top = [kind |-> "confirm", job |-> j]
    BY <1>2, <2>1, <2>2, <2>3 DEF Decline, NoAct
  <2>4. CASE Top # [kind |-> "confirm", job |-> j]
    BY <2>1, <2>4, ShownStays DEF NoAct
  <2> QED
    BY <2>3, <2>4
<1>3. CASE DecideLater \/ \E verdict \in {"placed", "not_placed"} : Resolve(verdict)
  <2>1. /\ j \in pending /\ UNCHANGED signals /\ act = NoAct
        /\ dialogs # <<>> /\ dialogs' = Close /\ Top # [kind |-> "confirm", job |-> j]
    BY <1>3 DEF DecideLater, Resolve, Answering, GuiRuns
  <2> QED
    BY <2>1, ShownStays DEF NoAct
<1>4. CASE PromptAtStartup
  <2>1. UNCHANGED <<pending, signals, act>> /\ \E d : dialogs' = Append(dialogs, d)
    BY <1>4 DEF PromptAtStartup, Open
  <2> QED
    BY <2>1, ShownStays
<1>5. CASE FinishCall \/ \E i \in Jobs : RequestCancel(i)
  <2>1. j \in pending /\ UNCHANGED <<signals, dialogs>>
    BY <1>5 DEF FinishCall, FinishCancel, RecordUserConfirmed, RequestCancel
  <2>2. act = [op |-> "stop", job |-> j] => act' = act
    BY <1>5 DEF FinishCall, FinishCancel, RecordUserConfirmed, RequestCancel, GuiRuns, NoAct
  <2> QED
    BY <2>1, <2>2, ShownStays
<1>6. CASE \/ SwitchTestMode \/ \E p \in Products, automatic \in BOOLEAN : Start(p, automatic)
           \/ \E i \in Jobs : RecoverInterrupted(i)
           \/ StartupDone \/ Reprice \/ OtherTask \/ UNCHANGED vars
  <2>1. UNCHANGED <<pending, signals, dialogs, act>>
    BY <1>6 DEF SwitchTestMode, Start, RecoverInterrupted, StartupDone, Reprice, OtherTask,
       vars
  <2> QED
    BY <2>1, ShownStays
<1>7. ~Shutdown /\ ~ProcessStops /\ ~Restart
  BY DEF Shutdown, ProcessStops, Restart
<1> QED
  BY <1>1, <1>2, <1>3, <1>4, <1>5, <1>6, <1>7 DEF Next, UserStep, StartupStep

LEMMA NextCarries == ASSUME Inv, CarryInv, [Next]_vars PROVE CarryInv'
<1>a. \A j \in reported' : state'[j] \in Decided
  <2>1. \A j \in reported : state[j] \in Decided
    BY DEF CarryInv, Decided
  <2> QED
    BY <2>1, ReportedIsDecided
<1>b. \A j \in pending' : state'[j] = "awaiting_confirmation"
  BY PendingWaits DEF CarryInv
<1>c. WorkIsCarriedOn'
  <2> SUFFICES ASSUME alive' = "up", NEW j \in Jobs
               PROVE  /\ OnItsWay(j)' => HasTask(j)' \/ GivenUp(j)'
                      /\ j \in pending' =>
                            \/ \E i \in 1 .. Len(signals') : signals'[i] = Signal("ready", j)
                            \/ Shown("confirm", j)'
                            \/ act' = [op |-> "stop", job |-> j]
    BY DEF WorkIsCarriedOn
  <2>a. OnItsWay(j)' => HasTask(j)' \/ /\ state'[j] \notin Decided
                                       /\ state'[j] # "awaiting_confirmation"
                                       /\ state'[j] # "absent"
    BY DEF OnItsWay, Decided, TerminalStates, PreparingStates
  <2>b. \/ alive = "up"
        \/ StartupDone
    BY DEF Next, WorkerStep, SkipTask, TakeTask, Inspect, CheckRules, PlanCart,
       PrepareCheckout, EnterFinalValidation, AwaitConfirmation, SubmitAutomatically,
       FinishTestRun, Block, Recheck, StopForTestMode, PassTestMode, BeginAttempt,
       FindButton, RecordSubmission, Click, ReadResponse, MarkUncertain, RecordOrder,
       Confirm, CatchSubmitError, CatchPreparationError, CatchUnexpected, LeaveTask, gui,
       startup, HandleSignal, OnReady, OnUncertain, OnFailed, OnCancelled, FinishCall,
       FinishCancel, RecordUserConfirmed, Accept, Decline, DecideLater, SwitchTestMode,
       RequestCancel, RecoverInterrupted, Resolve, Shutdown, ProcessStops, Restart,
       PromptAtStartup, UserStep, StartupStep, Start, Reprice, OtherTask, vars
  <2>1. CASE StartupDone
    <3>1. /\ state[j] \notin PreparingStates \cup {"submitting", "confirming"}
          /\ state' = state /\ pending' = {}
      BY <2>1 DEF StartupDone, Interrupted, Inv, FreshStart, database
    <3> QED
      BY <3>1 DEF OnItsWay
  <2>2. CASE alive = "up" /\ WorkerStep
    <3>1. /\ SignalsStay /\ UNCHANGED <<dialogs, act>>
          /\ HasTask(j) => \/ HasTask(j)' \/ state'[j] \in Decided \/ GivenUp(j)'
                           \/ state'[j] = "awaiting_confirmation"
          /\ j \in pending' \ pending =>
                \E k \in 1 .. Len(signals') : signals'[k] = Signal("ready", j)
      BY <2>2, WorkerEnds
    <3>2. GivenUp(j) => GivenUp(j)'
      BY <3>1 DEF SignalsStay, GivenUp
    <3>3. ~HasTask(j) => state'[j] = state[j]
      BY <2>2, WorkerLeavesReported
    <3>4. ~HasTask(j) /\ OnItsWay(j)' => HasTask(j)' \/ OnItsWay(j)
      BY <3>3 DEF OnItsWay
    <3>5. OnItsWay(j) => HasTask(j) \/ GivenUp(j)
      BY <2>2 DEF CarryInv, WorkIsCarriedOn
    <3>6. OnItsWay(j)' => HasTask(j)' \/ GivenUp(j)'
      BY <2>a, <3>1, <3>2, <3>4, <3>5
    <3>7. CASE j \in pending
      <4>1. \/ \E i \in 1 .. Len(signals) : signals[i] = Signal("ready", j)
            \/ Shown("confirm", j)
            \/ act = [op |-> "stop", job |-> j]
        BY <2>2, <3>7 DEF CarryInv, WorkIsCarriedOn
      <4>2. Shown("confirm", j) => Shown("confirm", j)'
        BY <3>1 DEF Shown
      <4>3. (\E i \in 1 .. Len(signals) : signals[i] = Signal("ready", j))
               => \E i \in 1 .. Len(signals') : signals'[i] = Signal("ready", j)
        BY <3>1 DEF SignalsStay
      <4> QED
        BY <3>1, <3>6, <4>1, <4>2, <4>3
    <3> QED
      BY <3>1, <3>6, <3>7
  <2>3. CASE alive = "up" /\ ~WorkerStep
    <3>1. HasTask(j) => HasTask(j)'
      BY <2>3, OthersKeepTasks
    <3>2. GivenUp(j) => GivenUp(j)' \/ state'[j] \in Decided
      <4>1. CASE HandleSignal
        BY <4>1, HandledIsDecided
      <4>2. CASE ~HandleSignal
        <5>1. UNCHANGED signals
          BY <2>3, <4>2 DEF Next, FinishCall, FinishCancel, RecordUserConfirmed, Accept,
             Decline, DecideLater, SwitchTestMode, RequestCancel, RecoverInterrupted, Resolve,
             Shutdown, ProcessStops, Restart, PromptAtStartup, StartupDone, UserStep,
             StartupStep, Start, Reprice, OtherTask, vars
        <5> QED
          BY <5>1 DEF GivenUp
      <4> QED
        BY <4>1, <4>2
    <3>3. ~HasTask(j) /\ state'[j] # state[j]
             => GivenUp(j) \/ state'[j] \in Decided \/ HasTask(j)'
      BY <2>3, IdleJobs
    <3>4. ~HasTask(j) /\ OnItsWay(j)' /\ state'[j] = state[j] => HasTask(j)' \/ OnItsWay(j)
      BY DEF OnItsWay
    <3>5. OnItsWay(j) => HasTask(j) \/ GivenUp(j)
      BY <2>3 DEF CarryInv, WorkIsCarriedOn
    <3>6. OnItsWay(j)' => HasTask(j)' \/ GivenUp(j)'
      BY <2>a, <3>1, <3>2, <3>3, <3>4, <3>5
    <3>7. ASSUME j \in pending'
          PROVE  \/ \E i \in 1 .. Len(signals') : signals'[i] = Signal("ready", j)
                 \/ Shown("confirm", j)'
                 \/ act' = [op |-> "stop", job |-> j]
      <4>1. ASSUME j \in pending
            PROVE  \/ \E i \in 1 .. Len(signals) : signals[i] = Signal("ready", j)
                   \/ Shown("confirm", j)
                   \/ act = [op |-> "stop", job |-> j]
        BY <2>3, <4>1 DEF CarryInv, WorkIsCarriedOn
      <4>2. CASE HandleSignal
        <5>1. /\ j \in pending /\ act = NoAct
              /\ UNCHANGED dialogs \/ \E d : dialogs' = Append(dialogs, d)
          BY <3>7, <4>2 DEF HandleSignal, OnReady, OnUncertain, OnFailed, OnCancelled,
             SettleAs, Receives, GuiRuns, Open
        <5> QED
          BY <4>1, <4>2, <5>1, HandledIsDecided, ShownStays DEF NoAct
      <4>3. CASE ~HandleSignal
        BY <2>3, <3>7, <4>1, <4>3, ReviewStays
      <4> QED
        BY <4>2, <4>3
    <3> QED
      BY <3>6, <3>7
  <2> QED
    BY <2>b, <2>1, <2>2, <2>3
<1> QED
  BY <1>a, <1>b, <1>c DEF CarryInv, Decided

(* Somebody is about to move every purchase that is on its way.              *)
THEOREM NobodyIsForgotten == Spec => []WorkIsCarriedOn
<1>1. Init => Inv /\ CarryInv
  <2> SUFFICES ASSUME Init PROVE Inv /\ CarryInv
    OBVIOUS
  <2>1. \A j \in Jobs : ~OnItsWay(j)
    BY MaxJobsAssumption DEF Init, OnItsWay, HasTask, PreparingStates, Jobs, NoJob
  <2> QED
    BY <2>1, InitInv DEF Init, CarryInv, WorkIsCarriedOn
<1>2. Inv /\ CarryInv /\ [Next]_vars => (Inv /\ CarryInv)'
  BY NextInv, NextCarries
<1>3. CarryInv => WorkIsCarriedOn
  BY DEF CarryInv
<1> QED
  BY <1>1, <1>2, <1>3, PTL DEF Spec

-----------------------------------------------------------------------------
(* The slots that the rest of the program sees.                              *)

(* What a job buys is a product of the program.                              *)
KnownProducts == \A j \in Jobs : state[j] # "absent" => row[j].product \in Products

LEMMA NextKnown == ASSUME Inv, KnownProducts, [Next]_vars PROVE KnownProducts'
<1>1. ASSUME NEW j \in Jobs, NEW s \in States, Moves(j, s) PROVE KnownProducts'
  <2>1. UNCHANGED row /\ \A i \in Jobs \ {j} : state'[i] = state[i]
    BY <1>1 DEF Moves, Inv, TypeOK, DatabaseTypes
  <2> QED
    BY <1>1, <2>1 DEF Moves, KnownProducts
<1>2. ASSUME NEW j \in Jobs, NEW p \in Products, Appears(j, p) PROVE KnownProducts'
  <2>1. /\ \A i \in Jobs \ {j} : state'[i] = state[i] /\ row'[i] = row[i]
        /\ row'[j].product = p
    BY <1>2 DEF Appears, Inv, TypeOK, DatabaseTypes
  <2> QED
    BY <2>1 DEF KnownProducts
<1>3. CASE RecordSubmission \/ Click \/ UNCHANGED <<state, row, recorded, placed>>
  BY <1>3 DEF RecordSubmission, Click, KnownProducts, database
<1> QED
  BY <1>1, <1>2, <1>3, StepShape

LEMMA NoJobIsNone == NoJob \notin Jobs
  BY MaxJobsAssumption DEF Jobs, NoJob

(* A product's only live job holds its slot.                                 *)
LEMMA HolderAlone ==
  ASSUME OneLiveJob, NEW j \in Jobs, state[j] \in LiveStates
  PROVE  Holding(row[j].product) = {j} /\ Holder(row[j].product) = j
<1>1. Holding(row[j].product) = {j}
  BY DEF Holding, OneLiveJob
<1> QED
  BY <1>1 DEF Holder

(* A move of the holder is a doubt, an order or a release of its slot.       *)
LEMMA HolderMoves ==
  ASSUME Inv, OneLiveJob, LegalStep, NEW j \in Jobs, NEW s \in States, Moves(j, s),
         s # state[j], NEW p \in Products, p = row[j].product
  PROVE  [Slots!Next]_(Slots!slotVars)
<1> DEFINE holder == [q \in Products |-> Holder(q)]
           doubts == {q \in Products : \E i \in Holding(q) : state[i] = "unknown"}
           orders == [i \in Jobs |-> IF state[i] = "confirmed" THEN 1 ELSE 0]
<1> USE DEF Slots!slotVars, Slots!Taken
<1>1. /\ state'[j] = s /\ UNCHANGED row
      /\ \A i \in Jobs \ {j} : state'[i] = state[i]
  BY DEF Moves, Inv, TypeOK, DatabaseTypes
<1>2. ASSUME NEW q \in Products \ {p}
      PROVE  /\ Holding(q)' = Holding(q) /\ Holder(q)' = Holder(q)
             /\ q \in doubts' <=> q \in doubts
  <2>1. Holding(q)' = Holding(q) /\ j \notin Holding(q)
    BY <1>1 DEF Holding
  <2>2. \A i \in Holding(q) : state'[i] = state[i]
    BY <1>1, <2>1 DEF Holding
  <2> QED
    BY <2>1, <2>2 DEF Holder
<1>3. state[j] \in LiveStates /\ state[j] # "confirmed" /\ state[j] # "absent"
  BY DEF Moves, LiveStates, PreparingStates
<1>4. Holding(p) = {j} /\ Holder(p) = j /\ j # NoJob
  BY <1>3, HolderAlone, NoJobIsNone
<1>5. CASE s \in LiveStates
  <2>1. state[j] # "unknown"
    BY <1>1, <1>3, <1>5
       DEF LegalStep, CanMove, AllowedTransitions, States, LiveStates, PreparingStates,
           TerminalStates
  <2>2. Holding(p)' = {j}
    BY <1>1, <1>4, <1>5 DEF Holding
  <2>3. Holder(p)' = j
    BY <2>2 DEF Holder
  <2>4. UNCHANGED holder
    BY <1>2, <1>4, <2>3
  <2>5. UNCHANGED orders
    BY <1>1, <1>3, <1>5 DEF LiveStates, PreparingStates
  <2>6. doubts' = IF s = "unknown" THEN doubts \union {p} ELSE doubts
    BY <1>1, <1>2, <1>4, <2>1, <2>2
  <2>7. CASE s = "unknown"
    <3>1. Slots!Doubt(p)
      <4> HIDE DEF doubts, orders
      <4> QED
        BY <1>4, <2>4, <2>5, <2>6, <2>7 DEF Slots!Doubt, doubts, orders
    <3> QED
      BY <3>1 DEF Slots!Next
  <2>8. CASE s # "unknown"
    <3> HIDE DEF doubts, orders
    <3> QED
      BY <2>4, <2>5, <2>6, <2>8 DEF doubts, orders
  <2> QED
    BY <2>7, <2>8
<1>6. CASE s \notin LiveStates
  <2>1. Holding(p)' = {}
    BY <1>1, <1>4, <1>6 DEF Holding
  <2>2. Holder(p)' = NoJob
    BY <2>1 DEF Holder
  <2>3. holder' = [holder EXCEPT ![p] = NoJob]
    BY <1>2, <2>2
  <2>4. doubts' = doubts \ {p}
    <3>1. ASSUME NEW q \in Products PROVE q \in doubts' <=> q \in doubts \ {p}
      BY <1>2, <2>1
    <3> QED
      BY <3>1
  <2>5. Slots!GiveUp(p)
    BY <1>4, <2>3, <2>4 DEF Slots!GiveUp
  <2>6. CASE s = "confirmed"
    <3>1. orders[j] = 0 /\ orders' = [orders EXCEPT ![j] = 1] /\ holder[p] = j
      BY <1>1, <1>3, <1>4, <2>6
    <3>2. Slots!Order(p)
      <4> HIDE DEF orders, holder
      <4>1. orders[holder[p]] = 0 /\ orders' = [orders EXCEPT ![holder[p]] = 1]
        BY <3>1
      <4> QED
        BY <2>5, <4>1 DEF Slots!Order, orders, holder
    <3> QED
      BY <3>2 DEF Slots!Next
  <2>7. CASE s # "confirmed"
    <3>1. UNCHANGED orders
      BY <1>1, <1>3, <2>7
    <3>2. Slots!Release(p)
      BY <2>5, <3>1 DEF Slots!Release
    <3> QED
      BY <3>2 DEF Slots!Next
  <2> QED
    BY <2>6, <2>7
<1> QED
  BY <1>5, <1>6

(* What leaves every job and every row as it was leaves the slots so.        *)
LEMMA SlotsStay ==
  ASSUME UNCHANGED <<state, row>>
  PROVE  UNCHANGED Slots!slotVars
<1>1. \A q \in Products : Holding(q)' = Holding(q) /\ Holder(q)' = Holder(q)
  BY DEF Holding, Holder
<1> QED
  BY <1>1 DEF Slots!slotVars

LEMMA MovesKeepSlots ==
  ASSUME Inv, OneLiveJob, KnownProducts, LegalStep, NEW j \in Jobs, NEW s \in States,
         Moves(j, s)
  PROVE  [Slots!Next]_(Slots!slotVars)
<1>1. CASE s = state[j]
  <2>1. UNCHANGED <<state, row>>
    BY <1>1 DEF Moves, Inv, TypeOK, DatabaseTypes
  <2> QED
    BY <2>1, SlotsStay
<1>2. CASE s # state[j]
  <2> PICK p \in Products : p = row[j].product
    BY DEF Moves, KnownProducts
  <2> QED
    BY <1>2, HolderMoves
<1> QED
  BY <1>1, <1>2

(* A new job takes a slot that is empty.                                     *)
LEMMA AppearsTakesSlot ==
  ASSUME Inv, NEW j \in Jobs, NEW p \in Products, Appears(j, p)
  PROVE  Slots!Take(p, j)
<1> DEFINE holder == [q \in Products |-> Holder(q)]
           doubts == {q \in Products : \E i \in Holding(q) : state[i] = "unknown"}
           orders == [i \in Jobs |-> IF state[i] = "confirmed" THEN 1 ELSE 0]
<1>1. /\ state'[j] = "created" /\ row'[j].product = p /\ state[j] = "absent"
      /\ \A i \in Jobs \ {j} : state'[i] = state[i] /\ row'[i] = row[i]
  BY DEF Appears, Inv, TypeOK, DatabaseTypes
<1>2. "created" \in LiveStates /\ "absent" \notin LiveStates
  BY DEF LiveStates, PreparingStates
<1>3. Holding(p) = {} /\ Holding(p)' = {j}
  <2>1. Holding(p) = {}
    BY DEF Appears, Occupied, Holding
  <2> QED
    BY <1>1, <1>2, <2>1 DEF Holding
<1>4. ASSUME NEW q \in Products \ {p}
      PROVE  /\ Holding(q)' = Holding(q) /\ Holder(q)' = Holder(q)
             /\ q \in doubts' <=> q \in doubts
  <2>1. Holding(q)' = Holding(q) /\ j \notin Holding(q)
    BY <1>1, <1>2 DEF Holding
  <2>2. \A i \in Holding(q) : state'[i] = state[i]
    BY <1>1, <2>1 DEF Holding
  <2> QED
    BY <2>1, <2>2 DEF Holder
<1>5. holder[p] = NoJob /\ holder' = [holder EXCEPT ![p] = j]
  <2>1. Holder(p) = NoJob /\ Holder(p)' = j
    BY <1>3 DEF Holder
  <2> QED
    BY <1>4, <2>1
<1>6. UNCHANGED doubts
  BY <1>1, <1>3, <1>4
<1>7. orders[j] = 0 /\ UNCHANGED orders
  BY <1>1
<1> QED
  BY <1>5, <1>6, <1>7 DEF Slots!Take, Slots!Taken

(* The workflow keeps its promise to the rest of the program.                *)
THEOREM SlotsKept == Spec => KeepsSlots
<1>1. Init => Slots!Init /\ KnownProducts
  <2> SUFFICES ASSUME Init PROVE Slots!Init /\ KnownProducts
    OBVIOUS
  <2>1. \A j \in Jobs : state[j] = "absent"
    BY DEF Init
  <2>2. \A p \in Products : Holding(p) = {} /\ Holder(p) = NoJob
    BY <2>1 DEF Holding, Holder, LiveStates, PreparingStates
  <2> QED
    BY <2>1, <2>2 DEF Slots!Init, KnownProducts
<1>2. Inv /\ KnownProducts /\ [Next]_vars => KnownProducts'
  BY NextKnown
<1>3. Inv /\ UserInv /\ OneLiveJob /\ KnownProducts /\ [Next]_vars =>
        [Slots!Next]_(Slots!slotVars)
  <2> SUFFICES ASSUME Inv, UserInv, OneLiveJob, KnownProducts, [Next]_vars
               PROVE  [Slots!Next]_(Slots!slotVars)
    OBVIOUS
  <2>1. LegalStep
    BY StepIsLegal DEF UserInv
  <2>2. CASE \E j \in Jobs, s \in States : Moves(j, s)
    BY <2>1, <2>2, MovesKeepSlots
  <2>3. CASE \E j \in Jobs, p \in Products : Appears(j, p)
    <3> PICK j \in Jobs, p \in Products : Appears(j, p)
      BY <2>3
    <3>1. Slots!Take(p, j)
      BY AppearsTakesSlot
    <3> QED
      BY <3>1 DEF Slots!Next
  <2>4. CASE RecordSubmission \/ Click \/ UNCHANGED <<state, row, recorded, placed>>
    <3>1. UNCHANGED <<state, row>>
      BY <2>4 DEF RecordSubmission, Click, database
    <3> QED
      BY <3>1, SlotsStay
  <2> QED
    BY <2>2, <2>3, <2>4, StepShape
<1> QED
  BY <1>1, <1>2, <1>3, Invariance, UserInvariance, OneLiveJobAtATime, PTL
     DEF Spec, KeepsSlots, Slots!Spec

=============================================================================
