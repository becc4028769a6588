------------------------------ MODULE Inspection ------------------------------
(***************************************************************************)
(* From a pasted link to a rule set, and from there to the next look at    *)
(* the page (app/purchasing/product_service.py, amazon_adapter's           *)
(* inspect_product, check_product of the guard).  The market moves between *)
(* the two looks, and each look may miss parts of the page.                *)
(***************************************************************************)
EXTENDS ProductPage

CONSTANTS Asin,             \* the item the user asks for
          Facts,            \* what the offer can be
          ShownFacts,       \* and what it can be when the user looks at it
          Missable,         \* parts of the page whose markup may have changed
          Render(_, _),     \* the page of an offer, without the missed parts
          DefaultRules      \* the settings' seller, condition and quantity

VARIABLES offer,            \* the offer on the market now
          shown,            \* the snapshot the user was shown
          rules,            \* the rules suggested from it
          report            \* the guard's report of the second look

inspectionVars == <<offer, shown, rules, report>>

None == [none |-> TRUE]
AllowancePercent == 20

-----------------------------------------------------------------------------
(* The suggested rules.                                                    *)

\* Postage that the page names: "free ..." is none, whatever amount follows.
ShippingFromEstimate(estimate) ==
    IF estimate = NoText THEN NoMoney ELSE IF estimate.free THEN NoMoney ELSE estimate.cost

\* Rounded up, so that the allowance is never a cent short.
SuggestOrderTotal(price, quantity, shipping) ==
    IF price = NoMoney \/ price.cents <= 0 THEN NoMoney
    ELSE LET line == price.cents * Max({1, quantity})
             padded == (line * (100 + AllowancePercent) + 99) \div 100
         IN  Amount(padded + (IF shipping # NoMoney /\ shipping.currency = price.currency
                              THEN shipping.cents ELSE 0), price.currency)

\* The item limit is the price that was shown; the other expectations are what
\* was read.
SuggestRules_PaddedPrice(snapshot, defaults) ==
    [defaults EXCEPT !.asin = snapshot.asin,
                     !.maxItemPrice = SuggestOrderTotal(snapshot.price, 1, NoMoney),
                     !.maxOrderTotal = SuggestOrderTotal(snapshot.price, defaults.quantity,
                                           ShippingFromEstimate(snapshot.delivery)),
                     !.variation = snapshot.variation,
                     !.expectedSeller = snapshot.seller,
                     !.shipsFrom = snapshot.shipsFrom,
                     !.brand = snapshot.brand]

SuggestRules(snapshot, defaults) ==
    [defaults EXCEPT !.asin = snapshot.asin,
                     !.maxItemPrice = snapshot.price,
                     !.maxOrderTotal = SuggestOrderTotal(snapshot.price, defaults.quantity,
                                           ShippingFromEstimate(snapshot.delivery)),
                     !.variation = snapshot.variation,
                     !.expectedSeller = snapshot.seller,
                     !.shipsFrom = snapshot.shipsFrom,
                     !.brand = snapshot.brand]

-----------------------------------------------------------------------------
(* Amazon's page of an offer.  Any part of it may be missing, but no text  *)
(* on it says what is not so; a text may say more, such as another price.  *)
(* An offer is told by the box when the box, once the blocks of other      *)
(* offers are taken out, has one of the phrases the program looks for if   *)
(* the item is not new.  Amazon need not do that: the selected offer may   *)
(* itself stand in the block of the used row, or be worded otherwise.      *)

Said(chain) == {chain[i].text : i \in DOMAIN chain} \ {NoText}

SaysPrice(page, price) ==
    /\ \A text \in Said(page.price) :
          /\ Len(text) \in Nat /\ DOMAIN text = 1 .. Len(text)
          /\ \A p \in ExtractPrices(text, "USD") : p.cents \in Nat
          /\ ExtractPrices(text, "USD") # {} => price \in ExtractPrices(text, "USD")
    /\ \A text \in Said(page.whole) :
          text.digits.v = price.cents \div 100 /\ (~text.open => price.cents % 100 = 0)
    /\ \A text \in Said(page.fraction) :
          LET digits == text.digits
          IN  /\ digits.v \in Nat /\ digits.n \in Nat
              /\ digits.n = 0 => digits.v = 0
              /\ digits.n = 1 => digits.v * 10 = price.cents % 100
              /\ digits.n = 2 => digits.v = price.cents % 100

SaysSeller(page, seller) ==
    \A text \in Said(page.seller) \ NotASeller : SoldBy[text] = seller

\* The caption of the selected offer and the label are right where they are
\* found, and the box of an offer that is told by it names a used condition.
SaysCondition(page, condition, told) ==
    /\ \A caption \in {Attribute(page.activeOffer)} \ {NoText} :
          /\ "used phrase" \in caption =>
                /\ caption \cap Conditions \subseteq {condition}
                /\ caption \cap Conditions = {} => condition = "used"
          /\ "new phrase" \in caption /\ "used phrase" \notin caption => condition = "new"
    /\ \A text \in Said(page.condition) : text \cap Conditions \subseteq {condition}
    /\ Attribute(page.buyBox) # NoText /\ told = "box" /\ condition # "new"
          => "used phrase" \in WithoutAlternatives(page)

SaysRecurring(page, recurring) ==
    recurring => /\ page.oneTime # "active" /\ page.oneTimeRadio # "checked"
                 /\ "subscription" \in page.words
                 /\ \A box \in Said(page.buyBox) : "subscription" \in UNION box

SaysStock(page, inStock) ==
    ~inStock => /\ ~HasBuyControl(page)
                /\ \A text \in Said(page.availability) : "in" \in text => "out" \in text

Says(page, f) ==
    /\ SaysPrice(page, f.price) /\ SaysSeller(page, f.seller) /\ SaysCondition(page, f.condition, f.told)
    /\ SaysRecurring(page, f.recurring) /\ SaysStock(page, f.inStock)

Chains == {"price", "whole", "fraction", "availability", "seller", "condition", "buyBox"}

ASSUME FactsAssumption ==
    ShownFacts \subseteq Facts /\ \A f \in Facts : f.price \in [cents : Nat, currency : {"USD"}]
ASSUME RulesAssumption ==
    {"asin", "maxItemPrice", "maxOrderTotal", "variation", "expectedSeller", "shipsFrom", "brand"}
        \subseteq DOMAIN DefaultRules
ASSUME NoTextAssumption == Norm[NoText] = NoText
ASSUME PageAssumption ==
    \A f \in Facts : \A missed \in SUBSET Missable :
        LET page == Render(f, missed)
        IN  Says(page, f) /\ \A key \in Chains : DOMAIN page[key] \subseteq Nat

-----------------------------------------------------------------------------
InspectionIdle == offer = None /\ shown = None /\ rules = None /\ report = None

InspectionInit ==
    /\ offer \in ShownFacts
    /\ shown = None /\ rules = None /\ report = None

\* A link that names no item is refused before the browser is asked.
Inspect ==
    /\ shown = None /\ offer # None
    /\ \E missed \in SUBSET Missable : shown' = Parse(Render(offer, missed), Asin)
    /\ rules' = SuggestRules(shown', DefaultRules)
    /\ UNCHANGED <<offer, report>>

\* The market: another price, another seller, another condition.
MarketMoves ==
    /\ shown # None /\ report = None
    /\ \E f \in Facts : f # offer /\ offer' = f
    /\ UNCHANGED <<shown, rules, report>>

\* The look before the purchase, judged by the rules as they were suggested.
CheckAgain ==
    /\ shown # None /\ report = None
    /\ \E missed \in SUBSET Missable :
          report' = CheckProduct(rules, Parse(Render(offer, missed), Asin))
    /\ UNCHANGED <<offer, shown, rules>>

InspectionNext == Inspect \/ MarketMoves \/ CheckAgain

InspectionSpec == InspectionInit /\ [][InspectionNext]_inspectionVars

-----------------------------------------------------------------------------
\* What passes the check of the product page is what the user was shown, or
\* better: the market may have moved, and any part of either page may have
\* been missed, but an offer that costs more per item, has another seller, a
\* recurring delivery that the rules forbid, or no stock does not pass; nor does
\* one in another condition than was asked for, as long as the box tells of it.
\* When only the used row does, or wording the program does not know, and both
\* the caption of the selected offer and the label are missed, the offer is read
\* as new and passes (check_product, suggest_rules, ProductParser.parse,
\* _buy_box_text_without_alternatives).
WhatPassesIsWhatWasShown ==
    report # None /\ Passed(report) =>
        /\ shown.price # NoMoney => AtMost(offer.price, shown.price)
        /\ SellerAllowed(rules, offer.seller)
        /\ shown.seller # NoText => Norm[offer.seller] = Norm[shown.seller]
        /\ offer.told = "box" => ConditionAllowed(rules.conditionPolicy, offer.condition)
        /\ offer.recurring => rules.allowSubscription
        /\ offer.inStock

=============================================================================
