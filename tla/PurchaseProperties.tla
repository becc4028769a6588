------------------------- MODULE PurchaseProperties -------------------------
(***************************************************************************)
(* What the purchase workflow must keep true, whoever moves next and       *)
(* wherever the process stops.                                             *)
(***************************************************************************)
EXTENDS PurchaseService

(* A job is clicked through at most once, and never before the database    *)
(* says so: mark_submitted precedes the click, and no restart, retry or    *)
(* second answer reaches the click again.                                  *)
OneOrderPerJob ==
    \A j \in Jobs : placed[j] <= 1 /\ (placed[j] = 1 => j \in recorded)

(* Once a submission is recorded the job says an order may exist until the *)
(* user says there is none: it is never failed, cancelled, blocked or left *)
(* in a state that is quietly retried.                                     *)
SubmissionNeverForgotten ==
    \A j \in recorded :
        \/ state[j] \in OrderMayExist
        \/ state[j] = "failed" /\ answer[j] = "not_placed"

(* One product is never ordered by two jobs while what became of the first *)
(* order is open: the slot is held until it is confirmed or answered.      *)
SecondOrderOnlyWhenSettled ==
    [][\A i, j \in Jobs :
          /\ i # j /\ row[i].product = row[j].product /\ row[i] # NoRow
          /\ i \in recorded /\ placed'[j] # placed[j]
          => state[i] = "confirmed" \/ answer[i] = "not_placed"]_vars

(* Whatever was reviewed is what is ordered: the submission is recorded    *)
(* only with this job's checkout on the page, at the total its review      *)
(* showed, even though the browser serves other tasks in between.          *)
OrderMatchesReview ==
    [][\A j \in Jobs :
          j \in recorded' \ recorded
          => page.product = row[j].product /\ total = review[j]]_vars

(* The job's state only moves along the table, so transition() never       *)
(* raises IllegalTransition at a handler that would leave a job stuck.     *)
LegalMoves ==
    [][\A j \in Jobs :
          IF state[j] = "absent" THEN state'[j] \in {"absent", "created"}
          ELSE CanMove(state[j], state'[j])]_vars

(* An uncertain job leaves "unknown" only by the answer given to a dialog  *)
(* that asked about it, and what the answer was decides where it goes.     *)
OnlyTheUserResolves ==
    [][\A j \in Jobs :
          state[j] = "unknown" /\ state'[j] # "unknown"
          => /\ dialogs # <<>> /\ Top = [kind |-> "uncertain", job |-> j]
             /\ state'[j] = IF answer'[j] = "placed" THEN "confirmed" ELSE "failed"]_vars

(* A purchase the program itself confirmed is in the order history by then *)
(* - a stop between the two writes cannot leave it out.                    *)
ConfirmedIsInHistory ==
    \A j \in Jobs : state[j] = "confirmed" => j \in ordered \/ answer[j] = "placed"

(* A preparation that stopped to ask for the user keeps saying so: the     *)
(* worker's report of the same error does not turn it into a failure.      *)
NeedsUserIsKept ==
    [][\A j \in Jobs :
          state[j] = "needs_user" /\ signals # <<>> /\ Head(signals) = Signal("failed", j)
          => state'[j] = "needs_user"]_vars

(* The question about one uncertain order is never on its way or open      *)
(* twice, although up to three handlers see the same failure.              *)
Asked(j) ==
    ({"signal"} \X {i \in 1 .. Len(signals) : signals[i] = Signal("uncertain", j)})
    \cup ({"dialog"} \X {i \in 1 .. Len(dialogs) : dialogs[i] = [kind |-> "uncertain", job |-> j]})

AskedOnce == \A j \in Jobs : \A a, b \in Asked(j) : a = b

(* A purchase that has work to come: its task's, or that of its state.     *)
OnItsWay(j) ==
    \/ HasTask(j)
    \/ state[j] \in PreparingStates \ {"awaiting_confirmation"}
    \/ state[j] \in {"submitting", "confirming"}

(* The signals by which a task gives its job up. *)
GivenUp(j) ==
    \E i \in 1 .. Len(signals) :
        signals[i].job = j /\ signals[i].kind \in {"failed", "cancelled"}

Shown(k, j) == \E i \in 1 .. Len(dialogs) : dialogs[i] = [kind |-> k, job |-> j]

(* While the program runs somebody is about to move every purchase on its  *)
(* way: its task, queued or running, or the window, which has still to     *)
(* handle how the task ended.  And a review that can be approved is in     *)
(* front of the user, on its way there, or being taken back.  No exception *)
(* that passes three handlers, no cancelled task and no restart loses one. *)
WorkIsCarriedOn ==
    alive = "up" =>
        \A j \in Jobs :
            /\ OnItsWay(j) => HasTask(j) \/ GivenUp(j)
            /\ j \in pending =>
                  \/ \E i \in 1 .. Len(signals) : signals[i] = Signal("ready", j)
                  \/ Shown("confirm", j)
                  \/ act = [op |-> "stop", job |-> j]

(* While the program runs, a purchase on its way or queued for submission  *)
(* comes to rest: it finishes, it needs the user, or a dialog asks about   *)
(* it.  No exception, cancellation or lost report leaves it holding its    *)
(* product's slot with nobody told.                                        *)
AtRest(j) ==
    \/ state[j] \in TerminalStates \cup {"needs_user"}
    \/ Shown("confirm", j) \/ Shown("uncertain", j)

EventuallyRests ==
    \A j \in Jobs : alive = "up" /\ OnItsWay(j) ~> alive # "up" \/ AtRest(j)

-----------------------------------------------------------------------------
(* What the documentation says of the program and the code does not do.    *)

(* cancel(): "Stop a purchase that has not been submitted" - a review the   *)
(* user has turned down is not waiting for confirmation any more.          *)
DeclineStopsThePurchase ==
    \A j \in Jobs :
        state[j] = "awaiting_confirmation" /\ alive = "up" /\ act = NoAct
        => \/ Shown("confirm", j) \/ HasTask(j)
           \/ \E i \in 1 .. Len(signals) : signals[i].job = j

(* "Bring unresolved purchases to the user's attention at startup."        *)
UnresolvedAskedAtStartup ==
    [][alive = "recovering" /\ alive' = "up"
       => \A j \in Jobs : state[j] = "unknown" => j \in {again[i] : i \in 1 .. Len(again)}]_vars

(* "asking twice must not raise the question with the user twice"          *)
AskedOnlyWhileUncertain ==
    \A j \in Jobs : Shown("uncertain", j) => state[j] = "unknown"

(* OperationCancelled "is never reported as a failure".                     *)
CancellationIsNoFailure ==
    [][\A j \in Jobs :
          job = j /\ job' = NoJob /\ alive' = "up"
          /\ signals' = Append(signals, Signal("cancelled", j))
          => state'[j] # "failed"]_vars
=============================================================================
