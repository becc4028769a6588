-------------------------- MODULE WatchRefinement ---------------------------
(***************************************************************************)
(* What the watch list sees of the purchases is what the workflow promises *)
(* (PurchaseSlots): a watch holds the slot of its product, and the orders  *)
(* counted for a watch are those of the slots it held.  Those of the user  *)
(* are counted for nobody.                                                 *)
(***************************************************************************)
EXTENDS WatchMonitor

Slots == INSTANCE PurchaseSlots WITH
    Buyers <- Watches \union {"user"},
    Forgettable <- Watches,
    Nobody <- "nobody",
    holder <- [p \in Products |-> taken[p].by],
    doubts <- {p \in Products : taken[p].doubt},
    orders <- [b \in Watches \union {"user"} |-> IF b \in Watches THEN bought[b] ELSE 0]

(* No watch takes a product that another or the user is buying, none buys   *)
(* again, no order is counted for a watch that did not hold its product,    *)
(* and a doubt outlasts every restart (start, _start_automatic_purchase,    *)
(* recover_interrupted and resolve_unknown, as the watch list meets them).  *)
WatchKeepsSlots == Slots!Spec
=============================================================================
