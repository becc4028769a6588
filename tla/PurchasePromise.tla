-------------------------- MODULE PurchasePromise ---------------------------
(***************************************************************************)
(* The purchase workflow implements OrderSafety, and holds a product's     *)
(* slot until the order is settled, for any products, totals and number of *)
(* jobs.                                                                   *)
(*                                                                         *)
(* StepShape reduces the steps of the program to the four that the promise *)
(* can tell apart; it needs the invariant, because a task may move its job *)
(* only while nobody else has finished it.                                 *)
(***************************************************************************)
EXTENDS PurchaseSafety, PurchaseRefinement

(* A job that is not finished goes on, comes to rest, or stays. *)
Moves(j, s) ==
    /\ state[j] # "absent"
    /\ state[j] \in LiveStates \/ s = state[j]
    /\ state' = [state EXCEPT ![j] = s]
    /\ UNCHANGED <<row, recorded, placed>>

(* A job appears whose product has no other live job. *)
Appears(j, p) ==
    /\ state[j] = "absent" /\ ~Occupied(p)
    /\ state' = [state EXCEPT ![j] = "created"]
    /\ \E automatic, test \in BOOLEAN :
          row' = [row EXCEPT ![j] = [product |-> p, automatic |-> automatic, test |-> test]]
    /\ UNCHANGED <<recorded, placed>>

(* A running task's job is live. *)
LEMMA RunningIsLive ==
  ASSUME Inv, step # "idle"
  PROVE  job \in Jobs /\ state[job] \in LiveStates /\ state[job] # "absent"
<1>1. job \in Jobs /\ state[job] # "absent"
  BY Running
<1>2. step \in Steps
  BY DEF Inv, TypeOK, WorkerTypes
<1> QED
  BY <1>1, <1>2 DEF Inv, TaskIsCurrent, Steps, LiveStates

(* The worker: its task moves its own job, or leaves it where it is. *)
LEMMA WorkerShape ==
  ASSUME Inv, WorkerStep
  PROVE  \/ \E j \in Jobs, s \in States : Moves(j, s)
         \/ RecordSubmission
         \/ Click
         \/ UNCHANGED <<state, row, recorded, placed>>
<1> USE DEF database, amazon, Move
<1>1. CASE SkipTask \/ CheckRules \/ SubmitAutomatically \/ Recheck \/ PassTestMode
           \/ FindButton \/ RecordOrder
  BY <1>1 DEF SkipTask, CheckRules, SubmitAutomatically, Recheck, PassTestMode, FindButton,
     RecordOrder
<1>2. CASE TakeTask
  <2>1. /\ Head(queue).job \in Jobs /\ UNCHANGED <<row, recorded, placed>>
        /\ state[Head(queue).job] \in PreparingStates
    <3>1. queue # <<>> /\ Head(queue) \in Tasks /\ Queued(Head(queue).job)
      BY <1>2, QueueShrinks DEF TakeTask, Inv, TypeOK, WorkerTypes
    <3> QED
      BY <1>2, <3>1 DEF TakeTask, Tasks, Inv, TaskIsCurrent
  <2>2. UNCHANGED state \/ state' = [state EXCEPT ![Head(queue).job] = "product_check"]
    BY <1>2 DEF TakeTask
  <2>3. "product_check" \in States /\ PreparingStates \subseteq LiveStates
        /\ "absent" \notin PreparingStates
    BY DEF States, LiveStates, PreparingStates
  <2> QED
    BY <2>1, <2>2, <2>3 DEF Moves
<1>3. ASSUME step # "idle", NEW s \in States, state' = [state EXCEPT ![job] = s],
             UNCHANGED <<row, recorded, placed>>
      PROVE  \E j \in Jobs, t \in States : Moves(j, t)
  <2>1. Moves(job, s) /\ job \in Jobs
    BY <1>3, RunningIsLive DEF Moves
  <2> QED
    BY <1>3, <2>1
<1>4. CASE Inspect \/ PlanCart \/ PrepareCheckout \/ EnterFinalValidation \/ AwaitConfirmation
           \/ FinishTestRun \/ Block \/ StopForTestMode \/ BeginAttempt
  <2>1. /\ step # "idle" /\ UNCHANGED <<row, recorded, placed>>
        /\ \E s \in States : state' = [state EXCEPT ![job] = s]
    BY <1>4 DEF Inspect, PlanCart, PrepareCheckout, EnterFinalValidation, AwaitConfirmation,
       FinishTestRun, Block, StopForTestMode, BeginAttempt, States, LiveStates,
       PreparingStates, TerminalStates
  <2> QED
    BY <1>3, <2>1
<1>5. CASE ReadResponse \/ MarkUncertain \/ Confirm \/ CatchSubmitError
  <2>1. /\ step # "idle" /\ UNCHANGED <<row, recorded, placed>>
        /\ \E s \in States : state' = [state EXCEPT ![job] = s]
    BY <1>5 DEF ReadResponse, MarkUncertain, Confirm, CatchSubmitError, SubmitSteps, States,
       LiveStates, PreparingStates, TerminalStates
  <2> QED
    BY <1>3, <2>1
<1>6. CASE \/ \E e \in {"app", "needs_user"} : CatchPreparationError(e)
           \/ \E e \in {"unexpected", "cancelled"} : CatchUnexpected(e)
  <2>1. step # "idle" /\ UNCHANGED <<row, recorded, placed>>
    BY <1>6 DEF CatchPreparationError, CatchUnexpected, Raised, NavigatingSteps, CancelPoints
  <2>2. FailTo(job) \in States
    BY <2>1, RunningIsLive, FailToTypes DEF Inv
  <2>3. \E s \in States : state' = [state EXCEPT ![job] = s]
    BY <1>6, <2>2 DEF CatchPreparationError, CatchUnexpected, States, LiveStates,
       PreparingStates, TerminalStates
  <2> QED
    BY <1>3, <2>1, <2>3
<1>7. CASE \E e \in {"app", "needs_user", "unexpected", "cancelled"} : LeaveTask(e)
  BY <1>7 DEF LeaveTask
<1>8. CASE RecordSubmission \/ Click
  BY <1>8
<1> QED
  BY <1>1, <1>2, <1>4, <1>5, <1>6, <1>7, <1>8 DEF WorkerStep

(* Everyone: the shapes of a step. *)
LEMMA StepShape ==
  ASSUME Inv, [Next]_vars
  PROVE  \/ \E j \in Jobs, s \in States : Moves(j, s)
         \/ \E j \in Jobs, p \in Products : Appears(j, p)
         \/ RecordSubmission
         \/ Click
         \/ UNCHANGED <<state, row, recorded, placed>>
<1> USE DEF database, amazon, Move
<1>1. CASE WorkerStep
  BY <1>1, WorkerShape
<1>2. CASE \E p \in Products, automatic \in BOOLEAN : Start(p, automatic)
  <2>1. PICK p \in Products, automatic \in BOOLEAN : Start(p, automatic)
    BY <1>2
  <2>2. PICK j \in Jobs :
           /\ state[j] = "absent" /\ state' = [state EXCEPT ![j] = "created"]
           /\ row' = [row EXCEPT ![j] =
                        [product |-> p, automatic |-> automatic, test |-> testMode]]
    BY <2>1 DEF Start
  <2>3. testMode \in BOOLEAN /\ ~Occupied(p) /\ UNCHANGED <<recorded, placed>>
    BY <2>1 DEF Start, Inv, TypeOK, DatabaseTypes
  <2> QED
    BY <2>2, <2>3 DEF Appears
<1>3. CASE HandleSignal
  <2>1. UNCHANGED <<row, recorded, placed>>
    BY <1>3 DEF HandleSignal, OnReady, OnUncertain, OnFailed, OnCancelled
  <2>2. CASE UNCHANGED state
    BY <2>1, <2>2
  <2>3. CASE ~UNCHANGED state
    <3>1. /\ \E k \in {"failed", "cancelled"} : Receives(k) /\ signals' = Tail(signals)
          /\ \E s \in {FailTo(Received), CancelTo(Received)} :
                state' = [state EXCEPT ![Received] = s]
      BY <1>3, <2>3 DEF HandleSignal, OnReady, OnUncertain, OnFailed, OnCancelled, SettleAs
    <3>2. Received \in Jobs /\ Signalled(Received)
      BY <3>1, SignalsShrink DEF Inv
    <3>3. /\ state[Received] # "absent" /\ state[Received] \in States
          /\ FailTo(Received) \in States /\ CancelTo(Received) \in States
      BY <3>2, FailToTypes DEF Inv, NoStrangers, TypeOK, DatabaseTypes
    <3>4. \/ state[Received] \in LiveStates
          \/ FailTo(Received) = state[Received] /\ CancelTo(Received) = state[Received]
      BY <3>3 DEF States, FailTo, CancelTo
    <3> QED
      BY <2>1, <3>1, <3>2, <3>3, <3>4 DEF Moves
  <2> QED
    BY <2>2, <2>3
<1>4. CASE \E verdict \in {"placed", "not_placed"} : Resolve(verdict)
  <2>1. PICK verdict \in {"placed", "not_placed"} : Resolve(verdict)
    BY <1>4
  <2>2. Top.job \in Jobs /\ UNCHANGED <<row, recorded, placed>>
    BY <2>1, CloseTypes DEF Resolve, Answering, Inv, Dialogs
  <2>3. \/ UNCHANGED state
        \/ /\ state[Top.job] = "unknown"
           /\ \E s \in {"confirmed", "failed"} : state' = [state EXCEPT ![Top.job] = s]
    BY <2>1 DEF Resolve
  <2>4. {"confirmed", "failed"} \subseteq States /\ "unknown" \in LiveStates
    BY DEF States, LiveStates, TerminalStates
  <2> QED
    BY <2>2, <2>3, <2>4 DEF Moves
<1>5. CASE \E j \in Jobs : RecoverInterrupted(j)
  <2>1. PICK j \in Jobs : RecoverInterrupted(j)
    BY <1>5
  <2>2. \E s \in {"unknown", "failed"} : state' = [state EXCEPT ![j] = s]
    BY <2>1 DEF RecoverInterrupted
  <2>3. {"unknown", "failed"} \subseteq States /\ state[j] \in LiveStates
        /\ state[j] # "absent" /\ UNCHANGED <<row, recorded, placed>>
    BY <2>1 DEF RecoverInterrupted, Interrupted, States, LiveStates, PreparingStates,
       TerminalStates
  <2> QED
    BY <2>2, <2>3 DEF Moves
<1>6. CASE \/ FinishCall \/ Accept \/ Decline \/ DecideLater \/ SwitchTestMode
           \/ \E j \in Jobs : RequestCancel(j)
           \/ Shutdown \/ ProcessStops \/ Restart \/ PromptAtStartup \/ StartupDone
           \/ Reprice \/ OtherTask \/ UNCHANGED vars
  BY <1>6 DEF FinishCall, FinishCancel, RecordUserConfirmed, Accept, Decline, DecideLater,
     SwitchTestMode, RequestCancel, Shutdown, ProcessStops, Restart, PromptAtStartup,
     StartupDone, Reprice, OtherTask, vars
<1> QED
  BY <1>1, <1>2, <1>3, <1>4, <1>5, <1>6 DEF Next, UserStep, StartupStep

-----------------------------------------------------------------------------
(* The refinement. *)

LEMMA InitKeepsPromise == Init => Promise!Init
<1> SUFFICES ASSUME Init PROVE Promise!Init
  OBVIOUS
<1>1. /\ \A j \in Jobs : Phase(j) = "none" /\ row[j].product = NoProduct
      /\ placed = [j \in Jobs |-> 0]
  BY DEF Init, Phase, NoRow
<1> QED
  BY <1>1 DEF Promise!Init

(* Only the job that moves changes its phase. *)
LEMMA PhaseOfOne ==
  ASSUME NEW j \in Jobs, NEW t, \A i \in Jobs \ {j} : Phase(i)' = Phase(i), Phase(j)' = t
  PROVE  [i \in Jobs |-> Phase(i)]' = [[i \in Jobs |-> Phase(i)] EXCEPT ![j] = t]
  OBVIOUS

(* A live job that finishes is released or settled, as its record decides.  *)
LEMMA MovesKeepPromise ==
  ASSUME Inv, NEW j \in Jobs, NEW s \in States, Moves(j, s)
  PROVE  [Promise!Next]_Promise!vars
<1>1. /\ state'[j] = s /\ s # "absent" /\ state[j] \in States
      /\ \A i \in Jobs \ {j} : state'[i] = state[i]
      /\ UNCHANGED <<row, recorded, placed>>
  BY DEF Moves, Inv, TypeOK, DatabaseTypes, States, LiveStates, PreparingStates,
     TerminalStates
<1>2. \A i \in Jobs \ {j} : Phase(i)' = Phase(i)
  BY <1>1 DEF Phase
<1>3. UNCHANGED [i \in Jobs |-> row[i].product]
  BY <1>1
<1>4. CASE s = state[j] \/ s \in LiveStates
  <2>1. Phase(j)' = Phase(j)
    BY <1>1, <1>4 DEF Phase, Moves
  <2>2. UNCHANGED [i \in Jobs |-> Phase(i)]
    BY <1>2, <2>1
  <2> QED
    BY <1>1, <1>3, <2>2 DEF Promise!vars
<1>5. CASE state[j] \in LiveStates /\ s \notin LiveStates
  <2>1. Phase(j) = IF j \in recorded THEN "committed" ELSE "open"
    BY <1>5 DEF Phase, Moves
  <2>2. Phase(j)' = IF j \in recorded \/ s = "confirmed" THEN "settled" ELSE "released"
    BY <1>1, <1>5 DEF Phase
  <2>3. [i \in Jobs |-> Phase(i)]' = [[i \in Jobs |-> Phase(i)] EXCEPT ![j] = Phase(j)']
    BY <1>2, PhaseOfOne
  <2>4. Promise!Release(j) \/ Promise!Settle(j)
    BY <1>1, <1>3, <2>1, <2>2, <2>3
       DEF Promise!Release, Promise!Settle, Promise!Unfinished, Promise!Become
  <2> QED
    BY <2>4 DEF Promise!Next
<1> QED
  BY <1>4, <1>5 DEF Moves

(* The slot that start() finds free is free for the promise too.            *)
LEMMA AppearsKeepsPromise ==
  ASSUME Inv, NEW j \in Jobs, NEW p \in Products, Appears(j, p)
  PROVE  Promise!Open(j, p)
<1>1. /\ state'[j] = "created" /\ row'[j].product = p
      /\ \A i \in Jobs \ {j} : state'[i] = state[i] /\ row'[i] = row[i]
      /\ UNCHANGED <<recorded, placed>>
  BY DEF Appears, Inv, TypeOK, DatabaseTypes
<1>2. state[j] = "absent" /\ j \notin recorded
  BY DEF Appears, Inv, NoStrangers
<1>3. \A i \in Jobs \ {j} : Phase(i)' = Phase(i)
  BY <1>1 DEF Phase
<1>4. Phase(j) = "none" /\ Phase(j)' = "open"
  BY <1>1, <1>2 DEF Phase, LiveStates, PreparingStates
<1>5. [i \in Jobs |-> Phase(i)]' = [[i \in Jobs |-> Phase(i)] EXCEPT ![j] = "open"]
  BY <1>3, <1>4, PhaseOfOne
<1>6. [i \in Jobs |-> row[i].product]' = [[i \in Jobs |-> row[i].product] EXCEPT ![j] = p]
  BY <1>1
<1>7. \A i \in Jobs : row[i].product = p => Phase(i) \notin {"open", "committed"}
  BY DEF Appears, Occupied, Phase
<1> QED
  BY <1>1, <1>4, <1>5, <1>6, <1>7 DEF Promise!Open, Promise!Unfinished, Promise!Become

(* The record commits the job before the click can reach Amazon.            *)
LEMMA RecordKeepsPromise ==
  ASSUME Inv, RecordSubmission
  PROVE  Promise!Commit(job)
<1>1. /\ job \in Jobs /\ state[job] \in LiveStates /\ state[job] # "absent"
      /\ job \notin recorded /\ recorded' = recorded \cup {job}
      /\ UNCHANGED <<state, row, placed>>
  BY RunningIsLive DEF RecordSubmission, amazon
<1>2. \A i \in Jobs \ {job} : Phase(i)' = Phase(i)
  BY <1>1 DEF Phase
<1>3. Phase(job) = "open"
  BY <1>1 DEF Phase
<1>4. ASSUME NEW j \in Jobs, j = job PROVE Promise!Commit(j)
  <2>1. Phase(j)' = "committed"
    BY <1>1, <1>4 DEF Phase
  <2>2. [i \in Jobs |-> Phase(i)]' = [[i \in Jobs |-> Phase(i)] EXCEPT ![j] = "committed"]
    BY <1>2, <1>4, <2>1, PhaseOfOne
  <2>3. UNCHANGED [i \in Jobs |-> row[i].product]
    BY <1>1
  <2> QED
    BY <1>1, <1>3, <1>4, <2>2, <2>3 DEF Promise!Commit, Promise!Become
<1> QED
  BY <1>1, <1>4

(* The click finds its job committed and not yet ordered.                   *)
LEMMA ClickKeepsPromise ==
  ASSUME Inv, Click
  PROVE  [Promise!Next]_Promise!vars
<1>1. /\ job \in Jobs /\ state[job] \in LiveStates /\ state[job] # "absent"
      /\ UNCHANGED <<state, row, recorded>>
  BY RunningIsLive DEF Click, database
<1>2. job \in recorded /\ placed[job] = 0
  BY DEF Click, Inv, TaskIsCurrent, Steps, BeforeRecord, PrepareSteps, RecheckSteps,
     SubmitSteps
<1>3. Phase(job) = "committed"
  BY <1>1, <1>2 DEF Phase
<1>4. UNCHANGED <<[i \in Jobs |-> Phase(i)], [i \in Jobs |-> row[i].product]>>
  BY <1>1 DEF Phase
<1>5. PICK taken \in {0, 1} : placed' = [placed EXCEPT ![job] = @ + taken]
  BY DEF Click
<1>6. placed' = placed \/ placed' = [placed EXCEPT ![job] = 1]
  <2>1. placed \in [Jobs -> Nat] /\ placed' = [placed EXCEPT ![job] = 0 + taken]
    BY <1>1, <1>2, <1>5 DEF Inv, TypeOK, AmazonTypes
  <2>2. CASE taken = 0
    BY <1>2, <2>1, <2>2
  <2>3. CASE taken = 1
    BY <2>1, <2>3
  <2> QED
    BY <2>2, <2>3
<1>7. CASE placed' = placed
  BY <1>4, <1>7 DEF Promise!vars
<1>8. CASE placed' = [placed EXCEPT ![job] = 1]
  <2>1. Promise!TakeOrder(job)
    BY <1>1, <1>2, <1>3, <1>4, <1>8 DEF Promise!TakeOrder
  <2> QED
    BY <1>1, <2>1 DEF Promise!Next
<1> QED
  BY <1>6, <1>7, <1>8

LEMMA NextKeepsPromise == Inv /\ [Next]_vars => [Promise!Next]_Promise!vars
<1> SUFFICES ASSUME Inv, [Next]_vars PROVE [Promise!Next]_Promise!vars
  OBVIOUS
<1>1. CASE \E j \in Jobs, s \in States : Moves(j, s)
  BY <1>1, MovesKeepPromise
<1>2. CASE \E j \in Jobs, p \in Products : Appears(j, p)
  BY <1>2, AppearsKeepsPromise DEF Promise!Next
<1>3. CASE RecordSubmission
  <2>1. job \in Jobs
    BY <1>3, RunningIsLive DEF RecordSubmission
  <2> QED
    BY <1>3, <2>1, RecordKeepsPromise DEF Promise!Next
<1>4. CASE Click
  BY <1>4, ClickKeepsPromise
<1>5. CASE UNCHANGED <<state, row, recorded, placed>>
  <2>1. UNCHANGED [i \in Jobs |-> Phase(i)]
    BY <1>5 DEF Phase
  <2> QED
    BY <1>5, <2>1 DEF Promise!vars
<1> QED
  BY <1>1, <1>2, <1>3, <1>4, <1>5, StepShape

(* The workflow, crashes and restarts included, keeps its promise: one open *)
(* purchase of a product, one order for a committed one, and a committed    *)
(* one never released.                                                      *)
THEOREM PromiseKept == Spec => KeepsPromise
<1>1. Inv /\ [Next]_vars => [Promise!Next]_Promise!vars
  BY NextKeepsPromise
<1> QED
  BY InitKeepsPromise, Invariance, <1>1, PTL DEF Spec, KeepsPromise, Promise!Spec

-----------------------------------------------------------------------------
(* The slot of a product. *)

(* A product has one live job at most, as the unique index demands.         *)
OneLiveJob ==
    \A i, j \in Jobs :
        /\ state[i] \in LiveStates /\ state[j] \in LiveStates
        /\ row[i].product = row[j].product
        => i = j

LEMMA InitOneLiveJob == Init => OneLiveJob
  BY DEF Init, OneLiveJob, LiveStates, PreparingStates

LEMMA NextOneLiveJob == Inv /\ OneLiveJob /\ [Next]_vars => OneLiveJob'
<1> SUFFICES ASSUME Inv, OneLiveJob, [Next]_vars PROVE OneLiveJob'
  OBVIOUS
<1>1. ASSUME NEW j \in Jobs, NEW s \in States, Moves(j, s) PROVE OneLiveJob'
  <2>1. \A i \in Jobs : state'[i] \in LiveStates => state[i] \in LiveStates
    BY <1>1 DEF Moves, Inv, TypeOK, DatabaseTypes
  <2> QED
    BY <1>1, <2>1 DEF Moves, OneLiveJob
<1>2. ASSUME NEW j \in Jobs, NEW p \in Products, Appears(j, p) PROVE OneLiveJob'
  <2>1. /\ \A i \in Jobs \ {j} : state'[i] = state[i] /\ row'[i] = row[i]
        /\ row'[j].product = p
    BY <1>2 DEF Appears, Inv, TypeOK, DatabaseTypes
  <2>2. \A i \in Jobs \ {j} : state'[i] \in LiveStates => row'[i].product # p
    BY <1>2, <2>1 DEF Appears, Occupied
  <2> QED
    BY <2>1, <2>2 DEF OneLiveJob
<1>3. CASE RecordSubmission \/ Click \/ UNCHANGED <<state, row, recorded, placed>>
  BY <1>3 DEF RecordSubmission, Click, OneLiveJob, database
<1> QED
  BY <1>1, <1>2, <1>3, StepShape

(* A product never has two live jobs, whatever crashes and restarts: start   *)
(* asks live_job_for_product first, and no other step makes a job live.      *)
THEOREM OneLiveJobAtATime == Spec => []OneLiveJob
<1>1. Init => Inv /\ OneLiveJob
  BY InitInv, InitOneLiveJob
<1>2. (Inv /\ OneLiveJob) /\ [Next]_vars => (Inv /\ OneLiveJob)'
  BY NextInv, NextOneLiveJob
<1> QED
  BY <1>1, <1>2, PTL DEF Spec

(* While what became of an order is open, its product is ordered by nobody  *)
(* else: the click of another job finds the first one settled.              *)
LEMMA ClickAfterSettlement ==
  Inv /\ OneLiveJob /\ [Next]_vars =>
    [\A i, j \in Jobs :
        /\ i # j /\ row[i].product = row[j].product /\ row[i] # NoRow
        /\ i \in recorded /\ placed'[j] # placed[j]
        => state[i] = "confirmed" \/ answer[i] = "not_placed"]_vars
<1> SUFFICES ASSUME Inv, OneLiveJob, [Next]_vars, NEW i \in Jobs, NEW j \in Jobs,
                    i # j, row[i].product = row[j].product, i \in recorded,
                    placed'[j] # placed[j]
             PROVE  state[i] = "confirmed" \/ answer[i] = "not_placed"
  OBVIOUS
<1>1. Click
  <2>1. placed' # placed
    OBVIOUS
  <2> QED
    BY <2>1, StepShape DEF Moves, Appears, RecordSubmission, amazon
<1>2. j = job /\ state[job] \in LiveStates
  BY <1>1, RunningIsLive DEF Click, Inv, TypeOK, AmazonTypes
<1>3. state[i] \notin LiveStates
  BY <1>2 DEF OneLiveJob
<1> QED
  BY <1>3 DEF Inv, SubmissionNeverForgotten, OrderMayExist, LiveStates

THEOREM NoSecondOrder == Spec => SecondOrderOnlyWhenSettled
  BY Invariance, OneLiveJobAtATime, ClickAfterSettlement, PTL
     DEF Spec, SecondOrderOnlyWhenSettled

-----------------------------------------------------------------------------
(* The answer about an uncertain order. *)

(* Neither a task, nor a late report, nor a restart moves a job that is     *)
(* uncertain: only the user's answer does.                                  *)
LEMMA OnlyResolveMoves ==
  ASSUME Inv, [Next]_vars, NEW j \in Jobs, state[j] = "unknown", state'[j] # "unknown"
  PROVE  j = Top.job /\ \E verdict \in {"placed", "not_placed"} : Resolve(verdict)
<1> USE DEF database, Move
<1>0. state' # state
  OBVIOUS
<1>1. CASE WorkerStep
  <2>1. CASE step # "idle" /\ \A i \in Jobs \ {job} : state'[i] = state[i]
    <3>1. step \in Steps /\ j = job
      BY <2>1 DEF Inv, TypeOK, WorkerTypes
    <3> QED
      BY <3>1 DEF Inv, TaskIsCurrent, Steps, PreparingStates
  <2>2. CASE TakeTask
    <3>1. /\ queue # <<>> /\ Head(queue).job \in Jobs
          /\ state[Head(queue).job] \in PreparingStates
      <4>1. queue # <<>> /\ Head(queue) \in Tasks /\ Queued(Head(queue).job)
        BY <2>2, QueueShrinks DEF TakeTask, Inv, TypeOK, WorkerTypes
      <4> QED
        BY <4>1 DEF Tasks, Inv, TaskIsCurrent
    <3>2. \A i \in Jobs : state'[i] = state[i] \/ i = Head(queue).job
      BY <2>2, <3>1 DEF TakeTask, Inv, TypeOK, DatabaseTypes
    <3> QED
      BY <3>1, <3>2 DEF PreparingStates
  <2>3. \/ TakeTask
        \/ state' = state
        \/ step # "idle" /\ \E s : state' = [state EXCEPT ![job] = s]
    BY <1>1 DEF WorkerStep, SkipTask, CheckRules, SubmitAutomatically, Recheck, PassTestMode,
       FindButton, RecordSubmission, Click, RecordOrder, Inspect, PlanCart, PrepareCheckout,
       EnterFinalValidation, AwaitConfirmation, FinishTestRun, Block, StopForTestMode,
       BeginAttempt, ReadResponse, MarkUncertain, Confirm, CatchSubmitError, SubmitSteps,
       CatchPreparationError, CatchUnexpected, LeaveTask, Raised, NavigatingSteps,
       CancelPoints
  <2>4. (\E s : state' = [state EXCEPT ![job] = s])
           => \A i \in Jobs \ {job} : state'[i] = state[i]
    BY DEF Inv, TypeOK, DatabaseTypes
  <2> QED
    BY <1>0, <2>1, <2>2, <2>3, <2>4
<1>2. CASE HandleSignal
  <2>1. Received \in Jobs => j # Received
    BY <1>0, <1>2 DEF HandleSignal, OnReady, OnUncertain, OnFailed, OnCancelled, SettleAs,
       FailTo, CancelTo, OrderMayExist, TerminalStates, Inv, TypeOK, DatabaseTypes
  <2>2. \A i \in Jobs : state'[i] = state[i] \/ i = Received
    BY <1>2 DEF HandleSignal, OnReady, OnUncertain, OnFailed, OnCancelled, SettleAs, Inv,
       TypeOK, DatabaseTypes
  <2> QED
    BY <2>1, <2>2
<1>3. ASSUME NEW i \in Jobs, RecoverInterrupted(i) PROVE FALSE
  <2>1. i # j /\ \A k \in Jobs \ {i} : state'[k] = state[k]
    BY <1>3 DEF RecoverInterrupted, Interrupted, PreparingStates, Inv, TypeOK, DatabaseTypes
  <2> QED
    BY <2>1
<1>4. ASSUME NEW p \in Products, NEW automatic \in BOOLEAN, Start(p, automatic) PROVE FALSE
  <2>1. PICK i \in Jobs : state[i] = "absent" /\ state' = [state EXCEPT ![i] = "created"]
    BY <1>4 DEF Start
  <2> QED
    BY <2>1 DEF Inv, TypeOK, DatabaseTypes
<1>5. ASSUME NEW verdict \in {"placed", "not_placed"}, Resolve(verdict) PROVE j = Top.job
  BY <1>0, <1>5, CloseTypes DEF Resolve, Answering, Inv, TypeOK, DatabaseTypes, Dialogs
<1>6. CASE \/ FinishCall \/ Accept \/ Decline \/ DecideLater \/ SwitchTestMode
           \/ \E i \in Jobs : RequestCancel(i)
           \/ Shutdown \/ ProcessStops \/ Restart \/ PromptAtStartup \/ StartupDone
           \/ Reprice \/ OtherTask \/ UNCHANGED vars
  BY <1>0, <1>6 DEF FinishCall, FinishCancel, RecordUserConfirmed, Accept, Decline,
     DecideLater, SwitchTestMode, RequestCancel, Shutdown, ProcessStops, Restart,
     PromptAtStartup, StartupDone, Reprice, OtherTask, vars
<1> QED
  BY <1>1, <1>2, <1>3, <1>4, <1>5, <1>6 DEF Next, UserStep, StartupStep

LEMMA AnswerDecides ==
  Inv /\ [Next]_vars =>
    [\A j \in Jobs :
        state[j] = "unknown" /\ state'[j] # "unknown"
        => /\ dialogs # <<>> /\ Top = [kind |-> "uncertain", job |-> j]
           /\ state'[j] = IF answer'[j] = "placed" THEN "confirmed" ELSE "failed"]_vars
<1> SUFFICES ASSUME Inv, [Next]_vars, NEW j \in Jobs,
                    state[j] = "unknown", state'[j] # "unknown"
             PROVE  /\ dialogs # <<>> /\ Top = [kind |-> "uncertain", job |-> j]
                    /\ state'[j] = IF answer'[j] = "placed" THEN "confirmed" ELSE "failed"
  OBVIOUS
<1>1. PICK verdict \in {"placed", "not_placed"} : Resolve(verdict) /\ j = Top.job
  BY OnlyResolveMoves
<1>2. dialogs # <<>> /\ Top \in Dialogs /\ Top.kind = "uncertain"
  BY <1>1, CloseTypes DEF Resolve, Answering, Inv
<1>3. Top = [kind |-> "uncertain", job |-> j]
  BY <1>1, <1>2 DEF Dialogs
<1>4. /\ answer'[j] = verdict
      /\ state'[j] = IF verdict = "placed" THEN "confirmed" ELSE "failed"
  BY <1>1 DEF Resolve, Move, Inv, TypeOK, DatabaseTypes
<1> QED
  BY <1>2, <1>3, <1>4

THEOREM UserResolves == Spec => OnlyTheUserResolves
  BY Invariance, AnswerDecides, PTL DEF Spec, OnlyTheUserResolves
=============================================================================
