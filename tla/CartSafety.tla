------------------------------ MODULE CartSafety ------------------------------
(***************************************************************************)
(* Cart isolation keeps its promises for any number of lines, jobs and     *)
(* moves, whatever the user does to the cart meanwhile: the inductive      *)
(* invariant CartInv, conjunct by conjunct, and what follows from it.      *)
(***************************************************************************)
EXTENDS CartInvariant, TLAPS

USE JobsAssumption, MovesAssumption, NoAsinAssumption
    DEF Jobs, NoJob, amazon, database, worker, Goto, NotCancelled, RestoreCalled

(* What WorkerStep and the actions of the world have in common.              *)
LEMMA RunningJob == ASSUME TypeOK, pc # "idle" PROVE job \in Jobs
  BY DEF TypeOK

LEMMA NoJournalType == NoJournal \in Journals
  BY DEF Journals, NoJournal

-----------------------------------------------------------------------------
(* Types.                                                                    *)

(* The worker between two tasks.                                             *)
LEMMA IdleTypes ==
  ASSUME NoTask
  PROVE  /\ job = NoJob /\ task = "none" /\ pc = "idle" /\ pick = NoAsin
         /\ journal \in Journals /\ tries \in 0 .. MaxMoves
         /\ wanted \subseteq Asins /\ cancelled \in BOOLEAN
<1>1. 0 \in 0 .. MaxMoves
  OBVIOUS
<1>2. job = NoJob /\ task = "none" /\ pc = "idle" /\ pick = NoAsin
  BY DEF NoTask
<1>3. journal \in Journals
  BY NoJournalType DEF NoTask
<1>4. tries \in 0 .. MaxMoves
  BY <1>1 DEF NoTask
<1>5. wanted \subseteq Asins
  BY DEF NoTask
<1>6. cancelled \in BOOLEAN
  BY DEF NoTask
<1> QED
  BY <1>2, <1>3, <1>4, <1>5, <1>6

LEMMA InitTypes == Init => TypeOK
  BY IdleTypes, NoJournalType DEF Init, TypeOK

LEMMA EndTypes ==
  ASSUME EndTask
  PROVE  /\ job' = NoJob /\ task' = "none" /\ pc' = "idle" /\ pick' = NoAsin
         /\ journal' \in Journals /\ tries' \in 0 .. MaxMoves
         /\ wanted' \subseteq Asins /\ cancelled' \in BOOLEAN
<1>1. 0 \in 0 .. MaxMoves
  OBVIOUS
<1>2. job' = NoJob /\ task' = "none" /\ pc' = "idle" /\ pick' = NoAsin
  BY DEF EndTask
<1>3. journal' \in Journals
  BY NoJournalType DEF EndTask
<1>4. tries' \in 0 .. MaxMoves
  BY <1>1 DEF EndTask
<1>5. wanted' \subseteq Asins
  BY DEF EndTask
<1>6. cancelled' \in BOOLEAN
  BY DEF EndTask
<1> QED
  BY <1>2, <1>3, <1>4, <1>5, <1>6

LEMMA OverTypes ==
  ASSUME TypeOK, Over, pc # "idle"
  PROVE  phase' \in [Jobs -> {"absent", "running", "awaiting", "confirmed", "over"}]
  BY RunningJob DEF TypeOK, Over

(* The steps that end a task.                                                *)
LEMMA LastStepTypes ==
  ASSUME TypeOK,
         \/ PlanBlocks \/ AwaitConfirmation \/ LeaveTask \/ NothingToRestore
         \/ RestoreRaises \/ RestoreEnds
  PROVE  TypeOK'
<1> USE DEF TypeOK
<1>1. CASE PlanBlocks
  BY <1>1, EndTypes, OverTypes DEF PlanBlocks
<1>2. CASE AwaitConfirmation
  BY <1>2, RunningJob, EndTypes DEF AwaitConfirmation
<1>3. CASE LeaveTask
  BY <1>3, EndTypes, OverTypes DEF LeaveTask
<1>4. CASE NothingToRestore
  BY <1>4, EndTypes, OverTypes DEF NothingToRestore
<1>5. CASE RestoreRaises
  BY <1>5, EndTypes, OverTypes, RunningJob DEF RestoreRaises, Steps
<1>6. CASE RestoreEnds
  <2>1. stored' \in [Jobs -> Journals]
    BY <1>6, RunningJob DEF RestoreEnds, RestoreResult, Journals
  <2> QED
    BY <1>6, <2>1, EndTypes, OverTypes DEF RestoreEnds
<1> QED
  BY <1>1, <1>2, <1>3, <1>4, <1>5, <1>6

(* The steps by which a running task goes on.                                *)
LEMMA NextStepTypes ==
  ASSUME TypeOK, Begun, Isolating, Isolated, Restoring,
         \/ Plan \/ StartBuyNow \/ AsideRecord \/ AsideClick \/ AsideTooMany \/ AsideDone
         \/ Persist \/ AddToCart \/ VerifyCart \/ BlockCart \/ Proceed \/ SubmitAutomatically
         \/ Recheck \/ Block \/ PlaceOrder \/ Confirming \/ Fail
         \/ RestoreBegins \/ RestoreOne
  PROVE  TypeOK'
<1>1. job \in Jobs /\ target[job] \in Asins
  BY RunningJob DEF TypeOK, Begun, Steps, Plan, StartBuyNow, AsideRecord, AsideClick,
     AsideTooMany, AsideDone, Persist, AddToCart, VerifyCart, BlockCart, Proceed,
     SubmitAutomatically, Recheck, Block, PlaceOrder, Confirming, Fail, RestoreBegins,
     RestoreOne
<1> USE <1>1 DEF TypeOK, Steps
<1>2. CASE Plan \/ AsideTooMany \/ AsideDone \/ VerifyCart \/ BlockCart \/ Proceed
  BY <1>2 DEF Plan, AsideTooMany, AsideDone, VerifyCart, BlockCart, Proceed
<1>3. CASE SubmitAutomatically \/ Recheck \/ Block \/ Confirming \/ Fail
  BY <1>3 DEF SubmitAutomatically, Recheck, Block, Confirming, Fail
<1>4. CASE StartBuyNow
  BY <1>4 DEF StartBuyNow
<1>5. CASE AsideRecord
  <2>1. journal' \in Journals /\ pick' \in Asins \cup {NoAsin}
    BY <1>5 DEF AsideRecord, Journals
  <2> QED
    BY <1>5, <2>1 DEF AsideRecord
<1>6. CASE AsideClick
  <2>1. tries' \in 0 .. MaxMoves
    BY <1>6 DEF AsideClick, Isolating, RoomToMove
  <2>2. away' \in [Jobs -> SUBSET Asins] /\ cart' \subseteq Asins /\ saved' \subseteq Asins
    BY <1>6 DEF AsideClick
  <2> QED
    BY <1>6, <2>1, <2>2 DEF AsideClick
<1>7. CASE Persist
  BY <1>7 DEF Persist
<1>8. CASE AddToCart
  BY <1>8 DEF AddToCart
<1>9. CASE PlaceOrder
  BY <1>9 DEF PlaceOrder
<1>10. CASE RestoreBegins
  BY <1>10 DEF RestoreBegins, Journals
<1>11. CASE RestoreOne
  BY <1>11 DEF RestoreOne
<1> QED
  BY <1>2, <1>3, <1>4, <1>5, <1>6, <1>7, <1>8, <1>9, <1>10, <1>11

(* Everything that is not a step of a running task.                          *)
LEMMA OutsideTypes ==
  ASSUME TypeOK,
         \/ Prepare \/ Confirm \/ DropConfirmed \/ Submit \/ RestoreAtStartup \/ Cancel
         \/ Stop \/ Restart \/ OtherTask \/ Shop \/ UNCHANGED vars
  PROVE  TypeOK'
<1> USE DEF TypeOK
<1>1. CASE Prepare
  BY <1>1, NoJournalType DEF Prepare, Begin, Steps
<1>2. CASE Confirm \/ DropConfirmed \/ Cancel
  BY <1>2 DEF Confirm, DropConfirmed, Cancel
<1>3. CASE Submit
  BY <1>3 DEF Submit, Begin, Steps
<1>4. CASE RestoreAtStartup
  BY <1>4 DEF RestoreAtStartup, Begin, Steps
<1>5. CASE Stop
  BY <1>5, EndTypes DEF Stop
<1>6. CASE Restart \/ OtherTask
  BY <1>6 DEF Restart, OtherTask
<1>7. CASE Shop
  BY <1>7 DEF Shop
<1>8. CASE UNCHANGED vars
  BY <1>8 DEF vars
<1> QED
  BY <1>1, <1>2, <1>3, <1>4, <1>5, <1>6, <1>7, <1>8

LEMMA TypeStep == CartInv /\ [Next]_vars => TypeOK'
  BY LastStepTypes, NextStepTypes, OutsideTypes DEF CartInv, Next, WorkerStep

-----------------------------------------------------------------------------
(* What a step does to the variables that the other conjuncts speak of: the  *)
(* world's steps leave the journals alone, and a step of a task touches the  *)
(* rows of its own job only.                                                 *)

LEMMA TaskStep ==
  ASSUME CartInv, WorkerStep
  PROVE  /\ job \in Jobs /\ phase[job] # "absent" /\ target[job] \in Asins
         /\ UNCHANGED <<target, restores, alive>>
         /\ \A j \in Jobs \ {job} : /\ phase'[j] = phase[j] /\ stored'[j] = stored[j]
                                    /\ bought'[j] = bought[j] /\ away'[j] \subseteq away[j]
         /\ job' = job \/ EndTask
<1> USE DEF WorkerStep, Plan, PlanBlocks, StartBuyNow,
        AsideRecord, AsideClick, AsideTooMany, AsideDone, Persist, AddToCart, VerifyCart,
        BlockCart, Proceed, AwaitConfirmation, SubmitAutomatically, Recheck, Block, PlaceOrder,
        Confirming, Fail, LeaveTask, NothingToRestore, RestoreRaises, RestoreBegins, RestoreOne,
        RestoreEnds
<1>1. job \in Jobs /\ phase[job] # "absent" /\ target[job] \in Asins
  BY RunningJob DEF CartInv, TypeOK, Begun, Steps
<1>2. UNCHANGED <<target, restores, alive>> /\ (job' = job \/ EndTask)
  OBVIOUS
<1>3. \A j \in Jobs \ {job} : phase'[j] = phase[j]
  BY <1>1 DEF CartInv, TypeOK, Over
<1>4. \A j \in Jobs \ {job} : stored'[j] = stored[j]
  BY <1>1 DEF CartInv, TypeOK
<1>5. \A j \in Jobs \ {job} : bought'[j] = bought[j]
  BY <1>1 DEF CartInv, TypeOK
<1>6. \A j \in Jobs \ {job} : away'[j] \subseteq away[j]
  BY <1>1 DEF CartInv, TypeOK
<1> QED
  BY <1>1, <1>2, <1>3, <1>4, <1>5, <1>6

(* A job does not become one that has not begun.                             *)
LEMMA RunningPhase == ASSUME CartInv, WorkerStep PROVE phase'[job] # "absent"
<1>1. job \in Jobs /\ phase[job] # "absent"
  BY TaskStep
<1> QED
  BY <1>1 DEF CartInv, TypeOK, Over, WorkerStep, Plan, PlanBlocks, StartBuyNow,
     AsideRecord, AsideClick, AsideTooMany, AsideDone, Persist, AddToCart, VerifyCart,
     BlockCart, Proceed, AwaitConfirmation, SubmitAutomatically, Recheck, Block, PlaceOrder,
     Confirming, Fail, LeaveTask, NothingToRestore, RestoreRaises, RestoreBegins, RestoreOne,
     RestoreEnds

LEMMA BegunStep == CartInv /\ TypeOK' /\ [Next]_vars => Begun'
<1> SUFFICES ASSUME CartInv, TypeOK', [Next]_vars PROVE Begun'
  OBVIOUS
<1> USE DEF CartInv, TypeOK, Begun
<1>1. CASE WorkerStep
  BY <1>1, TaskStep, EndTypes, RunningPhase
<1>2. CASE Prepare
  BY <1>2 DEF Prepare, Begin
<1>3. CASE Confirm \/ DropConfirmed
  BY <1>3 DEF Confirm, DropConfirmed
<1>4. CASE Submit
  BY <1>4 DEF Submit, Begin
<1>5. CASE RestoreAtStartup
  BY <1>5 DEF RestoreAtStartup, Begin, Waiting, NoJournal
<1>6. CASE Stop
  BY <1>6 DEF Stop, EndTask, Live
<1>7. CASE Cancel \/ Restart \/ OtherTask \/ Shop \/ UNCHANGED vars
  BY <1>7 DEF Cancel, Restart, OtherTask, Shop, vars
<1> QED
  BY <1>1, <1>2, <1>3, <1>4, <1>5, <1>6, <1>7 DEF Next

LEMMA IsolatingStep == CartInv /\ TypeOK' /\ [Next]_vars => Isolating'
<1> SUFFICES ASSUME CartInv, TypeOK', [Next]_vars PROVE Isolating'
  OBVIOUS
<1> USE DEF CartInv, TypeOK, Isolating
<1>1. CASE Prepare
  BY <1>1 DEF Prepare, Begin, Begun, NoJournal
<1>2. CASE AsideRecord
  BY <1>2 DEF AsideRecord, Journals, RoomToMove
<1>3. CASE WorkerStep /\ ~AsideRecord
  BY <1>3, TaskStep DEF EndTask, WorkerStep, Plan, PlanBlocks, StartBuyNow,
     AsideClick, AsideTooMany, AsideDone, Persist, AddToCart, VerifyCart,
     BlockCart, Proceed, AwaitConfirmation, SubmitAutomatically, Recheck, Block, PlaceOrder,
     Confirming, Fail, LeaveTask, NothingToRestore, RestoreRaises, RestoreBegins, RestoreOne,
     RestoreEnds
<1>4. CASE Submit \/ RestoreAtStartup \/ Stop
  BY <1>4 DEF Submit, RestoreAtStartup, Stop, Begin, EndTask
<1>5. CASE Confirm \/ DropConfirmed \/ Cancel \/ Restart \/ OtherTask \/ Shop
           \/ UNCHANGED vars
  BY <1>5 DEF Confirm, DropConfirmed, Cancel, Restart, OtherTask, Shop, RoomToMove, vars
<1> QED
  BY <1>1, <1>2, <1>3, <1>4, <1>5 DEF Next

LEMMA IsolatedStep == CartInv /\ TypeOK' /\ [Next]_vars => Isolated'
<1> SUFFICES ASSUME CartInv, TypeOK', [Next]_vars PROVE Isolated'
  OBVIOUS
<1> USE DEF CartInv, TypeOK, Isolating, Isolated
<1>1. CASE Plan
  BY <1>1 DEF Plan
<1>2. CASE Persist
  BY <1>2 DEF Persist
<1>3. CASE WorkerStep /\ ~Plan /\ ~Persist
  BY <1>3, TaskStep DEF EndTask, WorkerStep, PlanBlocks, StartBuyNow,
     AsideRecord, AsideClick, AsideTooMany, AsideDone, AddToCart, VerifyCart,
     BlockCart, Proceed, AwaitConfirmation, SubmitAutomatically, Recheck, Block, PlaceOrder,
     Confirming, Fail, LeaveTask, NothingToRestore, RestoreRaises, RestoreBegins, RestoreOne,
     RestoreEnds
<1>4. CASE Submit
  BY <1>4 DEF Submit, Begin
<1>5. CASE Prepare \/ RestoreAtStartup \/ Stop
  BY <1>5 DEF Prepare, RestoreAtStartup, Stop, Begin, EndTask
<1>6. CASE Confirm \/ DropConfirmed \/ Cancel \/ Restart \/ OtherTask \/ Shop
           \/ UNCHANGED vars
  BY <1>6 DEF Confirm, DropConfirmed, Cancel, Restart, OtherTask, Shop, vars
<1> QED
  BY <1>1, <1>2, <1>3, <1>4, <1>5, <1>6 DEF Next

LEMMA RecheckedStep == CartInv /\ TypeOK' /\ [Next]_vars => Rechecked'
<1> SUFFICES ASSUME CartInv, TypeOK', [Next]_vars PROVE Rechecked'
  OBVIOUS
<1> USE DEF CartInv, TypeOK, Rechecked
<1>1. CASE Recheck
  BY <1>1 DEF Recheck, OnlyItem
<1>2. CASE WorkerStep /\ ~Recheck
  BY <1>2 DEF EndTask, WorkerStep, Plan, PlanBlocks, StartBuyNow,
     AsideRecord, AsideClick, AsideTooMany, AsideDone, Persist, AddToCart, VerifyCart,
     BlockCart, Proceed, AwaitConfirmation, SubmitAutomatically, Block, PlaceOrder,
     Confirming, Fail, LeaveTask, NothingToRestore, RestoreRaises, RestoreBegins, RestoreOne,
     RestoreEnds
<1>3. CASE Prepare \/ Submit \/ RestoreAtStartup \/ Stop
  BY <1>3 DEF Prepare, Submit, RestoreAtStartup, Stop, Begin, EndTask
<1>4. CASE Confirm \/ DropConfirmed \/ Cancel \/ Restart \/ OtherTask \/ Shop
           \/ UNCHANGED vars
  BY <1>4 DEF Confirm, DropConfirmed, Cancel, Restart, OtherTask, Shop, vars
<1> QED
  BY <1>1, <1>2, <1>3, <1>4 DEF Next

LEMMA RestoringStep == CartInv /\ TypeOK' /\ [Next]_vars => Restoring'
<1> SUFFICES ASSUME CartInv, TypeOK', [Next]_vars PROVE Restoring'
  OBVIOUS
<1> USE DEF CartInv, TypeOK, Restoring
<1>1. CASE RestoreAtStartup
  BY <1>1 DEF RestoreAtStartup, Begin, Waiting
<1>2. CASE RestoreBegins
  <2>1. away[job] \subseteq journal.aside /\ job \in Jobs
    BY <1>2, RunningJob DEF RestoreBegins, SetAsideIsOnRecord
  <2> QED
    BY <1>2, <2>1 DEF RestoreBegins
<1>3. CASE RestoreOne
  BY <1>3, RunningJob DEF RestoreOne
<1>4. CASE AsideClick
  BY <1>4 DEF AsideClick, Isolating
<1>5. CASE WorkerStep /\ ~RestoreBegins /\ ~RestoreOne /\ ~AsideClick
  BY <1>5 DEF Isolating, RestoreEnds, EndTask, WorkerStep, Plan, PlanBlocks, StartBuyNow,
     AsideRecord, AsideTooMany, AsideDone, Persist, AddToCart, VerifyCart,
     BlockCart, Proceed, AwaitConfirmation, SubmitAutomatically, Recheck, Block, PlaceOrder,
     Confirming, Fail, LeaveTask, NothingToRestore, RestoreRaises
<1>6. CASE Prepare \/ Submit \/ Stop
  BY <1>6 DEF Prepare, Submit, Stop, Begin, EndTask
<1>7. CASE Shop
  BY <1>7, RunningJob DEF Shop
<1>8. CASE Confirm \/ DropConfirmed \/ Cancel \/ Restart \/ OtherTask \/ UNCHANGED vars
  BY <1>8 DEF Confirm, DropConfirmed, Cancel, Restart, OtherTask, vars
<1> QED
  BY <1>1, <1>2, <1>3, <1>4, <1>5, <1>6, <1>7, <1>8 DEF Next

LEMMA WaitingStep == CartInv /\ TypeOK' /\ [Next]_vars => Waiting'
<1> SUFFICES ASSUME CartInv, TypeOK', [Next]_vars PROVE Waiting'
  OBVIOUS
<1> USE DEF CartInv, TypeOK, Waiting
<1>1. CASE WorkerStep
  <2>1. \A j \in Jobs \ {job} : away'[j] \subseteq away[j] /\ stored'[j] = stored[j]
                               /\ phase'[j] = phase[j]
    BY <1>1, TaskStep
  <2>2. UNCHANGED restores /\ job \in Jobs
    BY <1>1, TaskStep
  <2>3. stored'[job].aside = stored[job].aside \/ Persist
    BY <1>1, <2>2 DEF Journals, RestoreResult, Restoring, AsideClick, RestoreBegins,
       RestoreOne, RestoreEnds, EndTask, WorkerStep, Plan, PlanBlocks, StartBuyNow,
     AsideRecord, AsideTooMany, AsideDone, Persist, AddToCart, VerifyCart,
     BlockCart, Proceed, AwaitConfirmation, SubmitAutomatically, Recheck, Block, PlaceOrder,
     Confirming, Fail, LeaveTask, NothingToRestore, RestoreRaises
  <2>4. job \in restores => stored'[job].aside # {}
    BY <1>1, <2>2, <2>3 DEF Persist, Isolating, NoJournal
  <2>5. ASSUME job' # job, phase'[job] \in {"awaiting", "confirmed"}
        PROVE  away'[job] \subseteq stored'[job].aside
    <3>1. CASE AwaitConfirmation
      <4>1. away[job] \subseteq journal.aside /\ stored[job] = journal
        BY <3>1, <2>2 DEF AwaitConfirmation, SetAsideIsOnRecord, Isolated
      <4> QED
        BY <3>1, <4>1 DEF AwaitConfirmation
    <3>2. CASE RestoreEnds \/ NothingToRestore \/ PlanBlocks \/ LeaveTask \/ RestoreRaises
      <4>1. phase[job] = phase'[job] /\ task = "restore" /\ stored[job] = journal
        BY <3>2, <2>2, <2>5 DEF RestoreEnds, NothingToRestore, PlanBlocks, LeaveTask,
           RestoreRaises, Over, Restoring
      <4>2. away[job] \subseteq journal.aside
        BY <2>2 DEF SetAsideIsOnRecord
      <4>3. away'[job] = away[job] /\ ~Persist
        BY <3>2 DEF RestoreEnds, NothingToRestore, PlanBlocks, LeaveTask, RestoreRaises, Persist
      <4> QED
        BY <2>3, <4>1, <4>2, <4>3
    <3> QED
      BY <1>1, <2>5, <3>1, <3>2 DEF WorkerStep, Plan, StartBuyNow,
         AsideRecord, AsideClick, AsideTooMany, AsideDone, Persist, AddToCart, VerifyCart,
         BlockCart, Proceed, SubmitAutomatically, Recheck, Block, PlaceOrder,
         Confirming, Fail, RestoreBegins, RestoreOne
  <2>6. ASSUME NEW j \in Jobs \ {job}, phase'[j] \in {"awaiting", "confirmed"}
        PROVE  away'[j] \subseteq stored'[j].aside
    BY <2>1, <2>6
  <2>7. \A j \in restores' : stored'[j].aside # {}
    BY <2>1, <2>2, <2>4
  <2> QED
    BY <2>5, <2>6, <2>7
<1>2. CASE Prepare \/ Submit \/ RestoreAtStartup
  <2>1. job = NoJob /\ restores' \subseteq restores /\ UNCHANGED <<stored, away>>
    BY <1>2 DEF Prepare, Submit, RestoreAtStartup, Begin
  <2>2. \A j \in Jobs : j # NoJob
    OBVIOUS
  <2>3. \A j \in Jobs : phase'[j] \in {"awaiting", "confirmed"} => phase'[j] = phase[j]
    BY <1>2 DEF Prepare, Submit, RestoreAtStartup
  <2>4. \A j \in Jobs : phase[j] \in {"awaiting", "confirmed"} =>
                           away[j] \subseteq stored[j].aside
    BY <2>1, <2>2
  <2> QED
    BY <2>1, <2>3, <2>4
<1>3. CASE Confirm \/ DropConfirmed
  BY <1>3 DEF Confirm, DropConfirmed
<1>4. CASE Stop
  BY <1>4 DEF Stop, Live
<1>5. CASE Restart
  BY <1>5 DEF Restart, PendingRestore
<1>6. CASE Shop
  BY <1>6 DEF Shop
<1>7. CASE Cancel \/ OtherTask \/ UNCHANGED vars
  BY <1>7 DEF Cancel, OtherTask, vars
<1> QED
  BY <1>1, <1>2, <1>3, <1>4, <1>5, <1>6, <1>7 DEF Next

(* What is bought changes in PlaceOrder only, which finds on the page what   *)
(* the last check saw there.                                                 *)
LEMMA OrderedStep == CartInv /\ TypeOK' /\ [Next]_vars => OnlyTheItemIsOrdered'
<1> SUFFICES ASSUME CartInv, TypeOK', [Next]_vars PROVE OnlyTheItemIsOrdered'
  OBVIOUS
<1> USE DEF CartInv, TypeOK, OnlyTheItemIsOrdered
<1>1. CASE PlaceOrder
  BY <1>1, RunningJob DEF PlaceOrder, Rechecked
<1>2. CASE WorkerStep /\ ~PlaceOrder
  BY <1>2 DEF WorkerStep, Plan, PlanBlocks, StartBuyNow,
     AsideRecord, AsideClick, AsideTooMany, AsideDone, Persist, AddToCart, VerifyCart,
     BlockCart, Proceed, AwaitConfirmation, SubmitAutomatically, Recheck, Block,
     Confirming, Fail, LeaveTask, NothingToRestore, RestoreRaises, RestoreBegins, RestoreOne,
     RestoreEnds
<1>3. CASE Prepare
  BY <1>3 DEF Prepare, Begun
<1>4. CASE UNCHANGED <<bought, target>>
  BY <1>4
<1> QED
  BY <1>1, <1>2, <1>3, <1>4 DEF Next, Confirm, DropConfirmed, Submit, RestoreAtStartup, Cancel,
     Stop, Restart, OtherTask, Shop, vars

(* The journal in memory names what is away.                                 *)
LEMMA AsideStep ==
  ASSUME CartInv, TypeOK', WorkerStep, job' = job
  PROVE  /\ away'[job] \subseteq journal'.aside
         /\ stored'[job].aside # {} =>
                /\ away'[job] \subseteq stored'[job].aside
                /\ stored'[job].restored => away'[job] = {}
<1> USE DEF CartInv, TypeOK
<1>1. job \in Jobs
  BY TaskStep
<1>2. away[job] \subseteq journal.aside
  BY <1>1 DEF SetAsideIsOnRecord
<1>3. stored[job].aside # {} =>
          /\ away[job] \subseteq stored[job].aside
          /\ stored[job].restored => away[job] = {}
  BY <1>1 DEF SetAsideIsOnRecord
<1>4. CASE AsideRecord
  <2>1. journal.aside \subseteq journal'.aside /\ UNCHANGED <<away, stored>>
    BY <1>4 DEF AsideRecord, Journals
  <2> QED
    BY <1>2, <1>3, <2>1
<1>5. CASE AsideClick
  <2>1. stored'[job].aside = {} /\ UNCHANGED journal
    BY <1>5 DEF AsideClick, Isolating, NoJournal
  <2>2. away'[job] \subseteq away[job] \cup {pick}
    BY <1>1, <1>5 DEF AsideClick, Row
  <2> QED
    BY <1>2, <1>5, <2>1, <2>2 DEF AsideClick, Isolating
<1>6. CASE Persist
  BY <1>1, <1>2, <1>6 DEF Persist, Isolating
<1>7. CASE RestoreOne
  BY <1>1, <1>2, <1>3, <1>7 DEF RestoreOne
<1>8. CASE ~AsideRecord /\ ~AsideClick /\ ~Persist /\ ~RestoreOne
  <2>1. UNCHANGED <<away, stored, journal>>
    BY <1>1, <1>8 DEF EndTask, WorkerStep, Plan, PlanBlocks, StartBuyNow, AsideTooMany,
       AsideDone, AddToCart, VerifyCart, BlockCart, Proceed, AwaitConfirmation,
       SubmitAutomatically, Recheck, Block, PlaceOrder, Confirming, Fail, LeaveTask,
       NothingToRestore, RestoreRaises, RestoreBegins, RestoreEnds
  <2> QED
    BY <1>2, <1>3, <2>1
<1> QED
  BY <1>4, <1>5, <1>6, <1>7, <1>8

(* What a task leaves on record when it ends.                                *)
LEMMA AsideLastStep ==
  ASSUME CartInv, TypeOK', WorkerStep, job' # job, stored'[job].aside # {}
  PROVE  /\ away'[job] \subseteq stored'[job].aside
         /\ stored'[job].restored => away'[job] = {}
<1> USE DEF CartInv, TypeOK
<1>1. job \in Jobs
  BY TaskStep
<1>2. CASE RestoreEnds
  <2>1. CASE task = "restore"
    <3>1. stored'[job] = [journal EXCEPT !.restored = (wanted = {})] /\ UNCHANGED away
      BY <1>1, <1>2, <2>1 DEF RestoreEnds, RestoreResult
    <3>2. stored'[job].aside = journal.aside
      BY <3>1 DEF Journals
    <3>3. stored'[job].restored => wanted = {}
      BY <3>1 DEF Journals
    <3>4. away[job] \subseteq journal.aside /\ away[job] \subseteq wanted
      BY <1>1, <1>2 DEF RestoreEnds, Restoring, SetAsideIsOnRecord
    <3> QED
      BY <3>1, <3>2, <3>3, <3>4
  <2>2. CASE task # "restore"
    BY <1>1, <1>2, <2>2 DEF RestoreEnds, SetAsideIsOnRecord
  <2> QED
    BY <2>1, <2>2
<1>3. CASE ~RestoreEnds
  <2>1. UNCHANGED <<away, stored>>
    BY <1>1, <1>3 DEF WorkerStep, Plan, PlanBlocks, StartBuyNow, AsideRecord, AsideClick,
       AsideTooMany, AsideDone, Persist, AddToCart, VerifyCart, BlockCart, Proceed,
       AwaitConfirmation, SubmitAutomatically, Recheck, Block, PlaceOrder, Confirming, Fail,
       LeaveTask, NothingToRestore, RestoreRaises, RestoreBegins, RestoreOne
  <2> QED
    BY <1>1, <2>1 DEF SetAsideIsOnRecord
<1> QED
  BY <1>2, <1>3

LEMMA RecordStep == CartInv /\ TypeOK' /\ [Next]_vars => SetAsideIsOnRecord'
<1> SUFFICES ASSUME CartInv, TypeOK', [Next]_vars PROVE SetAsideIsOnRecord'
  OBVIOUS
<1> USE DEF CartInv, TypeOK, SetAsideIsOnRecord
<1>1. CASE WorkerStep
  <2>1. \A j \in Jobs \ {job} : away'[j] \subseteq away[j] /\ stored'[j] = stored[j]
    BY <1>1, TaskStep
  <2>2. job \in Jobs /\ (job' = job \/ job' = NoJob)
    BY <1>1, TaskStep, EndTypes
  <2>3. \A j \in Jobs \ {job} : job' # j
    BY <2>2
  <2>4. job' = job => away'[job] \subseteq journal'.aside
    BY <1>1, AsideStep
  <2>5. stored'[job].aside # {} =>
            /\ away'[job] \subseteq stored'[job].aside
            /\ stored'[job].restored => away'[job] = {}
    BY <1>1, AsideStep, AsideLastStep
  <2> QED
    BY <2>1, <2>2, <2>3, <2>4, <2>5
<1>2. CASE Prepare
  <2> PICK j \in Jobs, a \in Asins : phase[j] = "absent" /\ Begin(j, "prepare", "plan", NoJournal)
    BY <1>2 DEF Prepare
  <2>1. job' = j /\ away[j] = {} /\ UNCHANGED <<away, stored>>
    BY <1>2 DEF Prepare, Begin, Begun
  <2> QED
    BY <2>1
<1>3. CASE Submit
  <2> PICK j \in Jobs : phase[j] = "confirmed" /\ Begin(j, "submit", "recheck", stored[j])
    BY <1>3 DEF Submit
  <2>1. job = NoJob /\ job' = j /\ journal' = stored[j] /\ UNCHANGED <<away, stored>>
    BY <1>3 DEF Submit, Begin
  <2>2. away[j] \subseteq stored[j].aside
    BY <2>1 DEF Begin, Waiting
  <2> QED
    BY <2>1, <2>2
<1>4. CASE RestoreAtStartup
  <2> PICK j \in restores : Begin(j, "restore", "undo", stored[j])
    BY <1>4 DEF RestoreAtStartup
  <2>1. job = NoJob /\ job' = j /\ journal' = stored[j] /\ UNCHANGED <<away, stored>>
    BY <1>4 DEF RestoreAtStartup, Begin
  <2>2. away[j] \subseteq stored[j].aside
    BY <2>1 DEF Begin, Waiting
  <2> QED
    BY <2>1, <2>2
<1>5. CASE Stop
  BY <1>5, EndTypes DEF Stop
<1>6. CASE Shop
  BY <1>6 DEF Shop
<1>7. CASE Confirm \/ DropConfirmed \/ Cancel \/ Restart \/ OtherTask \/ UNCHANGED vars
  BY <1>7 DEF Confirm, DropConfirmed, Cancel, Restart, OtherTask, vars
<1> QED
  BY <1>1, <1>2, <1>3, <1>4, <1>5, <1>6, <1>7 DEF Next

-----------------------------------------------------------------------------
(* Theorems.                                                                 *)

LEMMA InitInv == Init => CartInv
<1> SUFFICES ASSUME Init PROVE CartInv
  OBVIOUS
<1>1. TypeOK
  BY InitTypes
<1>2. Begun /\ OnlyTheItemIsOrdered /\ SetAsideIsOnRecord
  BY DEF Init, NoTask, Begun, OnlyTheItemIsOrdered, SetAsideIsOnRecord, NoJournal
<1>3. Isolating /\ Isolated /\ Rechecked /\ Restoring /\ Waiting
  BY DEF Init, NoTask, Isolating, Isolated, Rechecked, Restoring, Waiting, NoJournal
<1> QED
  BY <1>1, <1>2, <1>3 DEF CartInv

LEMMA NextInv == CartInv /\ [Next]_vars => CartInv'
<1> SUFFICES ASSUME CartInv, [Next]_vars PROVE CartInv'
  OBVIOUS
<1>1. TypeOK'
  BY TypeStep
<1>2. Begun' /\ Isolating' /\ Isolated' /\ Rechecked' /\ Restoring' /\ Waiting'
  BY <1>1, BegunStep, IsolatingStep, IsolatedStep, RecheckedStep, RestoringStep, WaitingStep
<1>3. OnlyTheItemIsOrdered' /\ SetAsideIsOnRecord'
  BY <1>1, OrderedStep, RecordStep
<1> QED
  BY <1>1, <1>2, <1>3 DEF CartInv

(* CartInv holds in every reachable state: the journals, in memory and in the *)
(* database, say at each step of a task what its code takes for granted.     *)
THEOREM Invariance == Spec => []CartInv
  BY InitInv, NextInv, PTL DEF Spec

(* The variables of the cart, the database and the worker keep their types.   *)
THEOREM TypeCorrect == Spec => []TypeOK
<1>1. CartInv => TypeOK
  BY DEF CartInv
<1> QED
  BY <1>1, Invariance, PTL

(* However many jobs share the browser and whatever the user does to the     *)
(* cart, an order of submit_order holds no line but the one its job was for. *)
THEOREM OrdersAreExact == Spec => []OnlyTheItemIsOrdered
<1>1. CartInv => OnlyTheItemIsOrdered
  BY DEF CartInv
<1> QED
  BY <1>1, Invariance, PTL

(* A line that set_aside_foreign_items took out of the cart, and nobody has  *)
(* put back, is named by the journal of the running task, and by the one in  *)
(* the database once there is one; neither says restored too early.          *)
THEOREM AsideIsOnRecord == Spec => []SetAsideIsOnRecord
<1>1. CartInv => SetAsideIsOnRecord
  BY DEF CartInv
<1> QED
  BY <1>1, Invariance, PTL

(* A preparation that leaves lines set aside hands a review to the user, or  *)
(* ends in a call of restore_cart.                                           *)
THEOREM PreparationsPutBack == Spec => PreparationPutsBack
<1>1. ASSUME CartInv, [Next]_vars, NEW j \in Jobs,
             job = j, task = "prepare", job' # j, alive', away'[j] # {}
      PROVE  phase'[j] = "awaiting" \/ RestoreCalled \/ pc = "restoring"
  <2> USE <1>1 DEF CartInv, TypeOK
  <2>1. CASE PlanBlocks
    <3>1. away[job] \subseteq {}
      BY <2>1 DEF PlanBlocks, Isolating, SetAsideIsOnRecord, NoJournal
    <3> QED
      BY <2>1, <3>1 DEF PlanBlocks
  <2>2. CASE AwaitConfirmation
    BY <2>2 DEF AwaitConfirmation
  <2>3. CASE WorkerStep /\ ~PlanBlocks /\ ~AwaitConfirmation
    BY <2>3 DEF WorkerStep, Plan, StartBuyNow,
     AsideRecord, AsideClick, AsideTooMany, AsideDone, Persist, AddToCart, VerifyCart,
     BlockCart, Proceed, SubmitAutomatically, Recheck, Block, PlaceOrder,
     Confirming, Fail, LeaveTask, NothingToRestore, RestoreRaises, RestoreBegins, RestoreOne,
     RestoreEnds
  <2>4. CASE Prepare \/ Submit \/ RestoreAtStartup
    <3>1. job = NoJob
      BY <2>4 DEF Prepare, Submit, RestoreAtStartup, Begin
    <3> QED
      BY <3>1
  <2>5. CASE Stop
    BY <2>5 DEF Stop
  <2>6. CASE Confirm \/ DropConfirmed \/ Cancel \/ Restart \/ OtherTask \/ Shop
             \/ UNCHANGED vars
    BY <2>6 DEF Confirm, DropConfirmed, Cancel, Restart, OtherTask, Shop, vars
  <2> QED
    BY <2>1, <2>2, <2>3, <2>4, <2>5, <2>6 DEF Next
<1>2. CartInv /\ [Next]_vars =>
          [\A j \in Jobs :
             job = j /\ task = "prepare" /\ job' # j /\ alive' /\ away'[j] # {} =>
                 phase'[j] = "awaiting" \/ RestoreCalled \/ pc = "restoring"]_vars
  BY <1>1
<1> QED
  BY <1>2, Invariance, PTL DEF Spec, PreparationPutsBack
=============================================================================
