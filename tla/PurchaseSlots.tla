---------------------------- MODULE PurchaseSlots ----------------------------
(***************************************************************************)
(* What the purchase workflow promises to the other parts of the program,  *)
(* which see a purchase as the slot of its product only: whoever buys a    *)
(* product has its slot, until an order is confirmed or ruled out.         *)
(*                                                                         *)
(* A product is in doubt when Amazon may have taken an order of it.  No    *)
(* doubt passes by itself, nor by a restart: it ends by an order that is   *)
(* counted, or by a release of that slot alone.                            *)
(***************************************************************************)
EXTENDS Naturals

CONSTANTS Products,
          Buyers,        \* who may hold a slot
          Forgettable,   \* the buyers that may be removed and begin again
          Nobody

VARIABLES holder,        \* who buys each product
          doubts,        \* the products of which an order may have been taken
          orders         \* the confirmed orders of each buyer

slotVars == <<holder, doubts, orders>>

Init ==
    /\ holder = [p \in Products |-> Nobody]
    /\ doubts = {}
    /\ orders = [b \in Buyers |-> 0]

Taken(p) == holder[p] # Nobody

(* A buyer who has an order does not buy again. *)
Take(p, b) ==
    /\ ~Taken(p) /\ orders[b] = 0
    /\ holder' = [holder EXCEPT ![p] = b]
    /\ UNCHANGED <<doubts, orders>>

Doubt(p) ==
    /\ Taken(p)
    /\ doubts' = doubts \union {p}
    /\ UNCHANGED <<holder, orders>>

GiveUp(p) ==
    /\ Taken(p)
    /\ holder' = [holder EXCEPT ![p] = Nobody]
    /\ doubts' = doubts \ {p}

(* The order is confirmed, by Amazon or by the user. *)
Order(p) ==
    /\ GiveUp(p) /\ orders[holder[p]] = 0
    /\ orders' = [orders EXCEPT ![holder[p]] = 1]

(* Nothing was ordered, or nobody is left to count it for. *)
Release(p) == GiveUp(p) /\ UNCHANGED orders

(* The buyer is removed, with what it has bought. *)
Forget(b) ==
    /\ orders' = [orders EXCEPT ![b] = 0]
    /\ UNCHANGED <<holder, doubts>>

(* A restart: purchases under way are ended, or are in doubt from then on.  *)
UnderWay == {p \in Products : Taken(p)} \ doubts

Recover(ended, doubted) ==
    /\ holder' = [p \in Products |-> IF p \in ended THEN Nobody ELSE holder[p]]
    /\ doubts' = doubts \union doubted
    /\ UNCHANGED orders

Next ==
    \/ \E ended \in SUBSET UnderWay : \E doubted \in SUBSET (UnderWay \ ended) :
          Recover(ended, doubted)
    \/ \E p \in Products :
          \/ Doubt(p) \/ Order(p) \/ Release(p)
          \/ \E b \in Buyers : Take(p, b)
    \/ \E b \in Forgettable : Forget(b)

Spec == Init /\ [][Next]_slotVars
=============================================================================
