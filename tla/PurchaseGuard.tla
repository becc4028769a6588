---------------------------- MODULE PurchaseGuard ----------------------------
(***************************************************************************)
(* The gate every purchase must pass (app/purchasing/purchase_guard.py,    *)
(* with the value objects of models.py and validation.py): a function from *)
(* the rules and what was read to one outcome per check.  An outcome is    *)
(* "pass", "skipped", "not_applicable", or the error code it fails with.   *)
(*                                                                         *)
(* A text is a value of the caller's choosing, NoText when it is absent or *)
(* empty; Norm and Code say which texts normalise_label and the spelling   *)
(* of an item code make equal.  Amounts are records or NoMoney, quantities *)
(* numbers or NoQuantity, an unanswered yes or no is "unknown".            *)
(***************************************************************************)
EXTENDS Money

CONSTANTS NoText,
          Norm,             \* normalise_label, on the texts in use
          Code,             \* strip().upper(), on the item codes in use
          NonAscii,         \* texts with a character outside ASCII
          AmazonRetail,     \* AMAZON_RETAIL_SELLERS, normalised
          Storefront        \* a brand's own storefront names, normalised

NoQuantity == -1

Fine == {"pass", "skipped", "not_applicable"}
Blocks(outcome) == outcome \notin Fine

-----------------------------------------------------------------------------
(* Sellers, conditions, variations.                                        *)

\* Glyphs outside ASCII may normalise to "amazon.com": they are refused first.
IsAmazonRetail(seller) == seller \notin NonAscii /\ Norm[seller] \in AmazonRetail

SellerAllowed(rules, seller) ==
    \/ rules.sellerPolicy = "any"
    \/ /\ Norm[seller] # NoText
       /\ \/ IsAmazonRetail(seller)
          \/ /\ rules.sellerPolicy = "amazon_or_manufacturer"
             /\ Norm[rules.brand] # NoText
             /\ Norm[seller] \in {Norm[rules.brand]} \union Storefront[Norm[rules.brand]]
          \/ /\ rules.sellerPolicy = "approved_list"
             /\ Norm[seller] \in {Norm[s] : s \in rules.approvedSellers} \ {NoText}

ConditionAllowed(policy, condition) ==
    \/ condition = "new"
    \/ policy = "allow_used" /\ condition \in {"used", "open_box"}
    \/ policy = "allow_refurbished" /\ condition \in {"refurbished", "renewed"}

\* The dimensions of a variation are a set of pairs of normalised texts; two
\* variations match when nothing but blank entries tells them apart.
Fingerprint(variation) == {d \in variation : d[1] # NoText /\ d[2] # NoText}

-----------------------------------------------------------------------------
(* The product page.                                                       *)

CheckAsin(rules, product) ==
    IF product.asin # NoText /\ Code[product.asin] = Code[rules.asin] THEN "pass" ELSE "asin_mismatch"

CheckVariation(rules, product) ==
    IF rules.variation = {} THEN IF product.variation = {} THEN "not_applicable" ELSE "skipped"
    ELSE IF Fingerprint(rules.variation) = Fingerprint(product.variation) THEN "pass"
    ELSE "variation_changed"

CheckAvailability(product) ==
    IF product.availability = "in_stock" THEN "pass" ELSE "product_unavailable"

CheckCondition(rules, product) ==
    IF ConditionAllowed(rules.conditionPolicy, product.condition)
    THEN "pass" ELSE "condition_not_allowed"

CheckSeller(rules, product) ==
    IF SellerAllowed(rules, product.seller) THEN "pass" ELSE "seller_not_allowed"

CheckSellerChanged(rules, product) ==
    IF rules.expectedSeller = NoText THEN "skipped"
    ELSE IF Norm[product.seller] # NoText /\ Norm[product.seller] = Norm[rules.expectedSeller] THEN "pass"
    ELSE "seller_changed"

CheckShipsFrom(rules, product) ==
    IF rules.shipsFrom = NoText THEN "skipped"
    ELSE IF Norm[product.shipsFrom] = Norm[rules.shipsFrom] THEN "pass"
    ELSE "seller_changed"

CheckQuantity(rules, product) ==
    IF /\ rules.quantity >= 1
       /\ product.maxQuantity # NoQuantity => rules.quantity <= product.maxQuantity
    THEN "pass" ELSE "quantity_unavailable"

CheckPrime(rules, product) ==
    IF ~rules.requirePrime THEN "not_applicable"
    ELSE IF product.prime = "yes" THEN "pass"
    ELSE "unexpected_page"

CheckSubscription(rules, recurring) ==
    IF rules.allowSubscription THEN "not_applicable"
    ELSE IF recurring THEN "subscription_detected"
    ELSE "pass"

CheckItemPriceKnown(product) == IF product.price = NoMoney THEN "price_unavailable" ELSE "pass"

CheckMaxItemPrice(rules, product) ==
    IF rules.maxItemPrice = NoMoney THEN "skipped"
    ELSE IF product.price = NoMoney \/ product.price.currency # rules.maxItemPrice.currency THEN "price_unavailable"
    ELSE IF product.price.cents > rules.maxItemPrice.cents THEN "price_above_limit"
    ELSE "pass"

CheckProduct(rules, product) ==
    [asin |-> CheckAsin(rules, product),
     variation |-> CheckVariation(rules, product),
     availability |-> CheckAvailability(product),
     quantity |-> CheckQuantity(rules, product),
     condition |-> CheckCondition(rules, product),
     seller |-> CheckSeller(rules, product),
     seller_changed |-> CheckSellerChanged(rules, product),
     ships_from |-> CheckShipsFrom(rules, product),
     prime |-> CheckPrime(rules, product),
     subscription |-> CheckSubscription(rules, product.subscription),
     item_price |-> CheckItemPriceKnown(product),
     max_item_price |-> CheckMaxItemPrice(rules, product)]

-----------------------------------------------------------------------------
(* The cart.  A line is [asin, title, quantity, unitPrice, seller]; lines  *)
(* are a function from their places on the page.                           *)

Empty(lines) == DOMAIN lines = {}

IsItem(asin, line) == line.asin # NoText /\ Code[line.asin] = Code[asin]
LinesFor(lines, asin) == RestrictValues(lines, LAMBDA line : IsItem(asin, line))
ForeignLines(lines, asin) == RestrictValues(lines, LAMBDA line : ~IsItem(asin, line))

Units(lines) ==
    MapThenSumSet(LAMBDA i : IF lines[i].quantity = NoQuantity THEN 0 ELSE lines[i].quantity, DOMAIN lines)
QuantityHidden(lines) == \E line \in Range(lines) : line.quantity = NoQuantity

CheckCartContents(rules, lines) ==
    IF ~Empty(ForeignLines(lines, rules.asin)) THEN "unexpected_cart_items"
    ELSE IF Empty(LinesFor(lines, rules.asin)) THEN "add_to_cart_failed"
    ELSE "pass"

CheckCartQuantity(rules, lines) ==
    LET matching == LinesFor(lines, rules.asin)
    IN  IF Empty(matching) THEN "not_applicable"
        ELSE IF QuantityHidden(matching) THEN "unexpected_page"
        ELSE IF Units(matching) # rules.quantity THEN "quantity_unavailable"
        ELSE "pass"

CheckCart(rules, product, lines) ==
    CheckProduct(rules, product) @@
    [cart_contents |-> CheckCartContents(rules, lines),
     cart_quantity |-> CheckCartQuantity(rules, lines)]

-----------------------------------------------------------------------------
(* The order page.                                                         *)

\* One line, without an item code, under exactly the product's title or the
\* brand followed by it.  BrandedTitle is that second form.
BrandedTitle(product) == <<Norm[product.brand], Norm[product.title]>>

IdentifiedByTitle(checkout, product) ==
    \E i \in DOMAIN checkout.lines :
        LET line == checkout.lines[i]
        IN  /\ DOMAIN checkout.lines = {i}
            /\ line.asin = NoText
            /\ Norm[product.title] # NoText /\ Norm[line.title] # NoText
            /\ \/ Norm[line.title] = Norm[product.title]
               \/ Norm[product.brand] # NoText /\ Norm[line.title] = BrandedTitle(product)

\* The lines that are the item, by code or by name.
TargetLines(rules, checkout, product) ==
    LET matching == LinesFor(checkout.lines, rules.asin)
    IN  IF ~Empty(matching) THEN matching
        ELSE IF IdentifiedByTitle(checkout, product) THEN checkout.lines
        ELSE <<>>

CheckAsinInCheckout(rules, checkout, product) ==
    IF Empty(checkout.lines) THEN "checkout_changed"
    ELSE IF ~Empty(TargetLines(rules, checkout, product)) THEN "pass"
    ELSE "asin_mismatch"

\* Silence about the seller is weak evidence of Amazon: skipped, not passed.
CheckCheckoutSeller(rules, target) ==
    LET sellers == {line.seller : line \in Range(target)} \ {NoText}
    IN  IF sellers = {} THEN IF rules.sellerPolicy = "any" THEN "not_applicable" ELSE "skipped"
        ELSE IF \E s \in sellers : ~SellerAllowed(rules, s) THEN "seller_not_allowed"
        ELSE IF rules.expectedSeller # NoText /\ \E s \in sellers : Norm[s] # Norm[rules.expectedSeller]
        THEN "seller_changed"
        ELSE "pass"

\* A quantity the page does not print must be what the item subtotal says.
QuantityFromSubtotal(rules, checkout, target) ==
    /\ checkout.itemSubtotal # NoMoney
    /\ \E i \in DOMAIN target :
       LET unit == target[i].unitPrice
       IN  /\ DOMAIN target = {i} /\ DOMAIN checkout.lines = {i}
           /\ unit # NoMoney /\ unit.cents > 0
           /\ unit.currency = checkout.itemSubtotal.currency
           /\ unit.cents * rules.quantity = checkout.itemSubtotal.cents

CheckQuantityInCheckout(rules, checkout, target) ==
    IF Empty(target) THEN "not_applicable"
    ELSE IF QuantityHidden(target)
    THEN IF QuantityFromSubtotal(rules, checkout, target) THEN "pass" ELSE "checkout_changed"
    ELSE IF Units(target) # rules.quantity THEN "quantity_unavailable"
    ELSE "pass"

\* The highest price in figures; its currency is the one that is compared.
CheckItemPriceInCheckout(rules, target) ==
    LET prices == {line.unitPrice : line \in Range(target)} \ {NoMoney}
        highest == CHOOSE p \in prices : \A q \in prices : q.cents <= p.cents
    IN  IF rules.maxItemPrice = NoMoney THEN "skipped"
        ELSE IF prices = {} THEN "checkout_changed"
        ELSE IF highest.currency # rules.maxItemPrice.currency THEN "price_above_limit"
        ELSE IF highest.cents > rules.maxItemPrice.cents THEN "price_above_limit"
        ELSE "pass"

CheckAddons(rules, checkout) ==
    IF checkout.addons = {} \/ rules.allowAddons THEN "pass" ELSE "unexpected_addons"

\* The lines of the order that the item was not identified by; no setting
\* allows one.
CheckForeignLines(rules, checkout, target) ==
    IF IF ~Empty(target) THEN DOMAIN target = DOMAIN checkout.lines
                         ELSE Empty(ForeignLines(checkout.lines, rules.asin))
    THEN "pass" ELSE "unexpected_cart_items"

CheckOrderTotalKnown(checkout) == IF checkout.orderTotal = NoMoney THEN "checkout_changed" ELSE "pass"

\* No limit is not "no limit": without one nothing bounds the charge.
CheckMaxOrderTotal(rules, checkout) ==
    LET limit == rules.maxOrderTotal
        total == checkout.orderTotal
    IN  IF limit = NoMoney THEN "total_above_limit"
        ELSE IF total = NoMoney \/ total.currency # limit.currency THEN "checkout_changed"
        ELSE IF total.cents > limit.cents THEN "total_above_limit"
        ELSE "pass"

MatchesLabel(actual, required, expected) ==
    /\ actual # NoText
    /\ required /\ expected # NoText => Norm[actual] = Norm[expected]

CheckAddress(rules, checkout) ==
    IF MatchesLabel(checkout.address, rules.requireAddressMatch, rules.expectedAddress)
    THEN "pass" ELSE "address_problem"

CheckPayment(rules, checkout) ==
    IF MatchesLabel(checkout.payment, rules.requirePaymentMatch, rules.expectedPayment)
    THEN "pass" ELSE "payment_method_problem"

CheckPlaceOrderControl(checkout) == IF checkout.button THEN "pass" ELSE "checkout_changed"

CheckFinal(rules, product, checkout) ==
    LET target == TargetLines(rules, checkout, product)
    IN  [asin |-> CheckAsinInCheckout(rules, checkout, product),
         variation |-> CheckVariation(rules, product),
         quantity |-> CheckQuantityInCheckout(rules, checkout, target),
         condition |-> CheckCondition(rules, product),
         seller |-> CheckSeller(rules, product),
         seller_changed |-> CheckSellerChanged(rules, product),
         checkout_seller |-> CheckCheckoutSeller(rules, target),
         subscription |-> CheckSubscription(rules, checkout.subscription),
         max_item_price |-> CheckItemPriceInCheckout(rules, target),
         cart_contents |-> CheckForeignLines(rules, checkout, target),
         addons |-> CheckAddons(rules, checkout),
         order_total |-> CheckOrderTotalKnown(checkout),
         max_order_total |-> CheckMaxOrderTotal(rules, checkout),
         address |-> CheckAddress(rules, checkout),
         payment |-> CheckPayment(rules, checkout),
         place_order_control |-> CheckPlaceOrderControl(checkout)]

VerifyTotalUnchanged(approved, current) ==
    IF approved # NoMoney /\ current # NoMoney /\ approved = current
    THEN "pass" ELSE "checkout_total_changed"

-----------------------------------------------------------------------------
(* The report: a function from check names to outcomes.                    *)

CheckOrder ==
    <<"asin", "variation", "availability", "quantity", "condition", "seller", "seller_changed",
      "checkout_seller", "ships_from", "prime", "subscription", "item_price", "max_item_price",
      "cart_contents", "cart_quantity", "addons", "order_total", "max_order_total", "address",
      "payment", "place_order_control">>

Passed(report) == \A check \in DOMAIN report : ~Blocks(report[check])

\* The code of the first blocking failure in the order of display.
BlockedCode(report) ==
    LET failing == SelectSeq(CheckOrder, LAMBDA c : c \in DOMAIN report /\ Blocks(report[c]))
    IN  IF failing = <<>> THEN "none" ELSE report[Head(failing)]

=============================================================================
