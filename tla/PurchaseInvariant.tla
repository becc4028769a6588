------------------------- MODULE PurchaseInvariant --------------------------
(***************************************************************************)
(* Why the purchase workflow is safe: the strengthening of the safety      *)
(* properties that every step preserves.  Nothing in the code locks a job. *)
(* What keeps the GUI thread from moving a job while the worker acts on it *)
(* is that a job has one task at most, and no report of an earlier one     *)
(* still to be handled.                                                    *)
(***************************************************************************)
EXTENDS PurchaseProperties

Queued(j) == \E i \in 1 .. Len(queue) : queue[i].job = j

(* A signal about the job is still to be handled. *)
Signalled(j) == \E i \in 1 .. Len(signals) : signals[i].job = j

(* A job is in the hands of one party at a time: it is queued once, or     *)
(* running, or under review, or given up.  A second confirmation, a late   *)
(* failure report or a cancelled task never meets a task of the same job.  *)
OneHolder ==
    /\ \A i, k \in 1 .. Len(queue) : queue[i].job = queue[k].job => i = k
    /\ \A j \in Jobs :
        /\ Queued(j) => job # j
        /\ j \in pending => ~HasTask(j)
        /\ GivenUp(j) => ~HasTask(j) /\ j \notin pending

(* Nothing refers to a job that does not exist. *)
NoStrangers ==
    \A j \in Jobs :
        state[j] = "absent"
        => ~HasTask(j) /\ j \notin pending /\ j \notin recorded /\ ~Signalled(j)

(* What a queued or running task may take for granted, at each step. *)
BeforeRecord == PrepareSteps \cup RecheckSteps \cup {"press", "record"}

TaskIsCurrent ==
    /\ \A j \in Jobs : Queued(j) => state[j] \in PreparingStates /\ j \notin recorded
    /\ step \in PrepareSteps \cup RecheckSteps => state[job] \in PreparingStates
    /\ step \in SubmitSteps => state[job] = "submitting"
    /\ step \in OutcomeSteps => state[job] = "confirming"
    /\ step \in BeforeRecord => job \notin recorded
    /\ step \in Steps \ BeforeRecord => job \in recorded
    /\ step = "click" => placed[job] = 0

(* After a stop there is nothing left of what was in memory. *)
FreshStart ==
    alive \in {"down", "recovering"}
    => job = NoJob /\ queue = <<>> /\ pending = {} /\ signals = <<>>

Inv ==
    /\ TypeOK
    /\ OneHolder
    /\ NoStrangers
    /\ TaskIsCurrent
    /\ FreshStart
    /\ OneOrderPerJob
    /\ SubmissionNeverForgotten

-----------------------------------------------------------------------------
(* Why the user sees the right thing: what else every step preserves.      *)

(* Where in the table a job stands when its task takes its next step. *)
StepStates ==
    /\ \A i \in 1 .. Len(queue) :
          state[queue[i].job] = IF queue[i].submit THEN "awaiting_confirmation" ELSE "created"
    /\ step = "inspect" => state[job] = "product_check"
    /\ step \in {"rules", "cart"} => state[job] = "rule_validation"
    /\ step = "checkout" => state[job] = "cart_preparation"
    /\ step = "final" => state[job] = "checkout"
    /\ step = "decide" => state[job] = "final_validation"
    /\ step \in RecheckSteps => state[job] \in SubmitEntryStates

(* From the recheck to the record the browser shows the item, and what was *)
(* approved is what was reviewed; only the price on the page may move.     *)
ReviewIsOnPage ==
    step \in {"live", "begin", "press", "record"}
    => page.product = row[job].product /\ total = review[job]

(* An order is written down before its job is confirmed. *)
HistoryFirst == step = "settle" => job \in ordered

(* A task reports its end once, and not what it has decided itself. *)
Final(s) == s.kind \in {"failed", "cancelled"}

OneReport ==
    /\ \A i, k \in 1 .. Len(signals) :
          Final(signals[i]) /\ Final(signals[k]) /\ signals[i].job = signals[k].job => i = k
    /\ \A i \in 1 .. Len(signals) :
          signals[i].kind = "failed" /\ state[signals[i].job] = "needs_user"
          => signals[i].job \in reported

(* A question is about a job that will not become uncertain again, and those *)
(* of the start are not on their way as well.                                *)
Undecided == {"unknown"} \cup TerminalStates

QuestionsAreOld ==
    /\ \A j \in Jobs : Asked(j) # {} => state[j] \in Undecided
    /\ \A j \in {asks[i] : i \in 1 .. Len(asks)} \cup {again[i] : i \in 1 .. Len(again)} :
          /\ state[j] \in Undecided
          /\ \A i \in 1 .. Len(signals) : signals[i] # Signal("uncertain", j)

UserInv ==
    /\ StepStates
    /\ ReviewIsOnPage
    /\ HistoryFirst
    /\ ConfirmedIsInHistory
    /\ OneReport
    /\ QuestionsAreOld
    /\ AskedOnce

-----------------------------------------------------------------------------
(* Why nothing is left lying: what a report says already decided is, and   *)
(* only a review that waits for its user can be approved.                  *)

CarryInv ==
    /\ \A j \in reported : state[j] \in {"needs_user", "unknown"} \cup TerminalStates
    /\ \A j \in pending : state[j] = "awaiting_confirmation"
    /\ WorkIsCarriedOn
=============================================================================
