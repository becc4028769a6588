---------------------------- MODULE PagesInvariant ----------------------------
(***************************************************************************)
(* The inductive invariants of the two pages.  The product page: the rules *)
(* are those suggested from what was shown, and a report that passes is    *)
(* one of an offer that is no worse.  The order page: what was approved is *)
(* a known amount within the limit, the order costs that from the second   *)
(* look at its total on, unless it changes after it, and an answer is      *)
(* about the order that was placed.                                        *)
(***************************************************************************)
EXTENDS Inspection, CheckoutPage

InspectionInv ==
    /\ offer \in Facts
    /\ shown # None => /\ rules.maxItemPrice = shown.price /\ shown.price.cents \in Int
                      /\ rules.expectedSeller = shown.seller
    /\ report # None => shown # None
    /\ WhatPassesIsWhatWasShown

Affordable(money) == money \in Dollars /\ AtMost(money, OrderRules.maxOrderTotal)

CheckoutInv ==
    /\ order \in Orders
    /\ approved # NoMoney => Affordable(approved)
    /\ submission.step # "none" =>
          approved # NoMoney /\ (submission.moved \/ order.total = approved)
    /\ submission.step = "none" => ~submission.moved
    /\ submission = [step |-> submission.step, moved |-> submission.moved]
    /\ placed # NoOrder => submission.step = "recorded" /\ placed.total = order.total
    /\ answer.verified => placed # NoOrder
    /\ AnswerIsAboutTheOrder

\* No order costs more than the rules of its purchase allow, unless it changed
\* after its total was read for the second time.
ChargedIsAffordable == placed # NoOrder /\ ~submission.moved => AtMost(placed.total, OrderRules.maxOrderTotal)

===============================================================================
