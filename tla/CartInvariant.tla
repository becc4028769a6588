----------------------------- MODULE CartInvariant -----------------------------
(***************************************************************************)
(* The inductive invariant of cart isolation: what each step of a task     *)
(* takes for granted of the journals, and what a job that has no task has  *)
(* left behind in the database.                                            *)
(***************************************************************************)
EXTENDS CartIsolation

(* A job that has not begun has left no trace, and a job that has, knows     *)
(* what it buys.                                                             *)
Begun ==
    \A j \in Jobs :
        IF phase[j] = "absent"
        THEN bought[j] = {} /\ stored[j] = NoJournal /\ away[j] = {} /\ job # j
        ELSE target[j] \in Asins

(* Until the journal is persisted the database has none, and the line that   *)
(* is about to be clicked is in the one in memory.                           *)
Isolating ==
    pc \in {"plan", "aside", "click", "persist"} =>
        /\ task = "prepare"
        /\ stored[job] = NoJournal /\ ~journal.restored
        /\ pc = "plan" => journal = NoJournal
        /\ pc = "click" => RoomToMove /\ pick \in journal.aside

(* From then on the two are the same, whichever task goes on with the job.   *)
Isolated ==
    pc \in {"buy", "add", "verify", "proceed", "final", "recheck", "order", "confirming"} =>
        task # "restore" /\ stored[job] = journal

(* What was rechecked is still on the page when it is ordered.               *)
Rechecked == pc = "order" => checkout = {target[job]}

(* A restore at startup works on the journal of the database; and a restore  *)
(* looks for every line that is still away.                                  *)
Restoring ==
    /\ task = "restore" => stored[job] = journal /\ journal.aside # {}
    /\ pc = "restoring" => away[job] \subseteq wanted

(* A review that waits for the user, and a restore that waits for its turn,  *)
(* have their lines on record in the database.                               *)
Waiting ==
    /\ \A j \in Jobs : phase[j] \in {"awaiting", "confirmed"} /\ job # j =>
                           away[j] \subseteq stored[j].aside
    /\ \A j \in restores : stored[j].aside # {}

CartInv ==
    /\ TypeOK
    /\ Begun /\ Isolating /\ Isolated /\ Rechecked /\ Restoring /\ Waiting
    /\ OnlyTheItemIsOrdered /\ SetAsideIsOnRecord
=============================================================================
