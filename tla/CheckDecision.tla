---------------------------- MODULE CheckDecision ----------------------------
(***************************************************************************)
(* What one watch check means (app/monitoring/watcher.py): the new status  *)
(* of the watch, what to tell the user, and whether to ask for an          *)
(* automatic purchase.  Amounts of money are records of cents and currency *)
(* or NoMoney, for one that was not set or could not be read.              *)
(***************************************************************************)
EXTENDS Money

\* An unreadable price is no bargain, and neither is one in another currency.
TargetMet(price, target) ==
    \/ target = NoMoney
    \/ /\ price # NoMoney
       /\ price.currency = target.currency
       /\ price.cents <= target.cents

StatusAfter(inStock, price, target) ==
    IF ~inStock THEN "out_of_stock"
    ELSE IF target = NoMoney THEN "watching"
    ELSE IF TargetMet(price, target) THEN "target_reached"
    ELSE "waiting_for_price"

TriggersMet(watch, inStock, price) ==
    /\ watch.triggerInStock => inStock
    /\ watch.triggerTargetPrice => TargetMet(price, watch.target)

ShouldBuy(watch, inStock, price, passed) ==
    /\ watch.action = "buy"
    /\ TriggersMet(watch, inStock, price)
    /\ passed
    /\ inStock

\* previous is what the last observation of the product said of its stock:
\* in, out, or unknown when it could not be read; never, without one.
BackInStock_UnknownIsOut(inStock, previous) == inStock /\ previous \in {"out", "unknown"}
BackInStock(inStock, previous) == inStock /\ previous = "out"

\* A seller that could not be read counts as another one.
SellerChanged(expected, seller) == expected # "none" /\ seller # expected

Notifications(watch, inStock, price, previous, seller) ==
    {kind \in {"seller_changed", "back_in_stock", "target_price_reached"} :
        CASE kind = "seller_changed" -> SellerChanged(watch.seller, seller)
          [] kind = "back_in_stock" -> BackInStock(inStock, previous)
          [] OTHER -> /\ inStock /\ watch.target # NoMoney
                      /\ TargetMet(price, watch.target)
                      /\ watch.action = "notify"}

=============================================================================
