------------------------- MODULE PurchaseRefinement -------------------------
(***************************************************************************)
(* The purchase workflow keeps two promises.  Towards Amazon, OrderSafety: *)
(* a job that holds its product's slot is open, and committed from the     *)
(* moment its submission is recorded in the database, not from the click.  *)
(* Towards the rest of the program, PurchaseSlots.                         *)
(***************************************************************************)
EXTENDS PurchaseService

Phase(j) ==
    IF state[j] = "absent" THEN "none"
    ELSE IF state[j] \in LiveStates THEN IF j \in recorded THEN "committed" ELSE "open"
    ELSE IF j \in recorded \/ state[j] = "confirmed" THEN "settled" ELSE "released"

Promise == INSTANCE OrderSafety WITH
    phase <- [j \in Jobs |-> Phase(j)],
    product <- [j \in Jobs |-> row[j].product]

(* Every step of the workflow, a crash and a restart included, is a step of *)
(* OrderSafety or leaves the promise's state alone.                         *)
KeepsPromise == Promise!Spec

(* The job that holds a product's slot. *)
Holding(p) == {j \in Jobs : row[j].product = p /\ state[j] \in LiveStates}
Holder(p) == IF Holding(p) = {} THEN NoJob ELSE CHOOSE j \in Holding(p) : TRUE

Slots == INSTANCE PurchaseSlots WITH
    Buyers <- Jobs,
    Forgettable <- {},
    Nobody <- NoJob,
    holder <- [p \in Products |-> Holder(p)],
    doubts <- {p \in Products : \E j \in Holding(p) : state[j] = "unknown"},
    orders <- [j \in Jobs |-> IF state[j] = "confirmed" THEN 1 ELSE 0]

(* The workflow keeps its promise to the other parts of the program: a slot *)
(* is taken when it is empty only, is given up by its own holder's end, and *)
(* a doubt about it outlasts every crash and restart (the index             *)
(* idx_purchase_jobs_single_inflight_product, transition,                   *)
(* recover_interrupted).                                                    *)
KeepsSlots == Slots!Spec
=============================================================================
