---------------------------- MODULE OrderSafety -----------------------------
(***************************************************************************)
(* What the purchase workflow promises the person whose money it spends.   *)
(*                                                                         *)
(* A purchase of a product opens when no other purchase of that product is *)
(* open.  It may be released, which means nothing was ordered; or it is    *)
(* committed, which means an order may exist, and only then may Amazon     *)
(* take one order for it.  A committed purchase is never released: it is   *)
(* settled, by Amazon's confirmation or by the user's word.                *)
(***************************************************************************)
EXTENDS Naturals

CONSTANTS Products, NoProduct, Jobs

VARIABLES phase,   \* how far a purchase is
          product, \* what it buys, once it is open
          placed   \* the orders Amazon has taken for it

vars == <<phase, product, placed>>

Phases == {"none", "open", "committed", "released", "settled"}

Unfinished(j) == phase[j] \in {"open", "committed"}

Init ==
    /\ phase = [j \in Jobs |-> "none"]
    /\ product = [j \in Jobs |-> NoProduct]
    /\ placed = [j \in Jobs |-> 0]

Become(j, p) == phase' = [phase EXCEPT ![j] = p]

Open(j, p) ==
    /\ phase[j] = "none"
    /\ \A i \in Jobs : product[i] = p => ~Unfinished(i)
    /\ Become(j, "open")
    /\ product' = [product EXCEPT ![j] = p]
    /\ UNCHANGED placed

Release(j) ==
    /\ phase[j] = "open" /\ Become(j, "released")
    /\ UNCHANGED <<product, placed>>

Commit(j) ==
    /\ phase[j] = "open" /\ Become(j, "committed")
    /\ UNCHANGED <<product, placed>>

TakeOrder(j) ==
    /\ phase[j] = "committed" /\ placed[j] = 0
    /\ placed' = [placed EXCEPT ![j] = 1]
    /\ UNCHANGED <<phase, product>>

(* The user may also claim an order for a purchase that never committed.    *)
Settle(j) ==
    /\ Unfinished(j) /\ Become(j, "settled")
    /\ UNCHANGED <<product, placed>>

Next ==
    \E j \in Jobs :
        \/ \E p \in Products : Open(j, p)
        \/ Release(j) \/ Commit(j) \/ TakeOrder(j) \/ Settle(j)

Spec == Init /\ [][Next]_vars
=============================================================================
