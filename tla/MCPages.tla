-------------------------------- MODULE MCPages --------------------------------
(***************************************************************************)
(* Offers and orders, and the pages Amazon shows of them: an item that     *)
(* looks like another, add-ons and subscriptions next to it, two prices in *)
(* one text, and parts of a page that the program fails to find.           *)
(***************************************************************************)
EXTENDS Inspection, CheckoutPage

USD(c) == Amount(c, "USD")
Price(cents) == <<[kind |-> "symbol", currency |-> "USD"],
                  [kind |-> "number", number |-> [groups |-> <<[v |-> cents \div 100, n |-> 2],
                                                               [v |-> cents % 100, n |-> 2]>>,
                                                  seps |-> <<".">>]]>>

Texts == {NoText, "Drill", "Drill Pro", "words", "Amazon.com", "Other", "Home", "Office", "Visa", "Ship to", "amazon.com"}
NormOf == [t \in Texts |-> IF t = "Amazon.com" THEN "amazon.com" ELSE t]
CodeOf == [t \in {"item", "lookalike"} |-> t]

-----------------------------------------------------------------------------
(* The product page.                                                       *)

Strict(t) == <<[text |-> t, loose |-> FALSE]>>
Unless(cond, chain) == IF cond THEN <<>> ELSE chain

\* Amazon's wording of an offer: what the selectors look for, where it stands.
\* The box of a new item advertises a used one; a used item may be told of in
\* the row that is otherwise an advertisement.
CaptionOf(f) ==
    IF f.condition = "new" THEN {"new", "new phrase"}
    ELSE {f.condition} \union IF f.told = "nowhere" THEN {} ELSE {"used phrase"}
OwnPart(f) ==
    (IF f.condition # "new" /\ f.told = "box" THEN {"used phrase"} ELSE {})
    \union IF f.recurring THEN {"subscription"} ELSE {}
UsedRow == {"used", "used phrase"}
BoxOf(f) == {OwnPart(f)} \union IF f.condition = "new" \/ f.told = "row" THEN {UsedRow} ELSE {}
OfferPage(f, missed) ==
    [asinInput |-> Unless("asin" \in missed, Strict(Asin)), canonical |-> <<>>,
     address |-> [host |-> "amazon", code |-> Asin],
     price |-> Unless("price" \in missed, Strict(Price(f.price.cents))),
     whole |-> Unless("whole" \in missed, Strict([digits |-> [v |-> f.price.cents \div 100, n |-> 2], open |-> TRUE])),
     fraction |-> Unless("fraction" \in missed, Strict([digits |-> [v |-> f.price.cents % 100, n |-> 2]])),
     listPrice |-> <<>>,
     outOfStockMarker |-> ~f.inStock /\ "availability" \notin missed,
     availability |-> Unless("availability" \in missed, Strict({IF f.inStock THEN "in" ELSE "out"})),
     addToCart |-> f.inStock, buyNow |-> f.inStock,
     seller |-> Unless("seller" \in missed, Strict("Learn more") \o Strict(f.seller)),
     activeOffer |-> Unless("active" \in missed, Strict(CaptionOf(f))),
     condition |-> Unless("label" \in missed, Strict({f.condition})),
     buyBox |-> Unless("box" \in missed, Strict(BoxOf(f))),
     alternatives |-> IF "blocks" \in missed THEN {} ELSE BoxOf(f) \cap {UsedRow},
     words |-> IF f.recurring THEN {"subscription"} ELSE {},
     oneTime |-> IF f.recurring THEN "inactive" ELSE "absent", oneTimeRadio |-> "unchecked",
     subscriptionRow |-> f.recurring /\ "row" \notin missed,
     primeBadge |-> <<>>, quantities |-> {}, legacyTwister |-> <<>>, inlineTwister |-> <<>>,
     twisterText |-> FALSE, title |-> <<>>, brand |-> <<>>, shipsFrom |-> <<>>, delivery |-> <<>>]

OfferParts == {"price", "whole", "fraction", "availability", "seller", "active", "label", "box", "blocks", "row"}
Sellers == {"Amazon.com", "Other"}
Prices == {Amount(1050, "USD"), Amount(1075, "USD")}
Offers == [price : Prices, seller : Sellers, condition : {"new", "used", "renewed"},
           recurring : BOOLEAN, inStock : {TRUE}, told : {"box"}]
          \union [price : Prices, seller : Sellers, condition : {"new"}, recurring : {FALSE}, inStock : {FALSE}, told : {"box"}]
          \union {[price |-> Amount(1050, "USD"), seller |-> "Amazon.com", condition |-> c, recurring |-> FALSE,
                   inStock |-> TRUE, told |-> where] : c \in {"used", "collectible"}, where \in {"row", "nowhere"}}
FirstOffers == {f \in Offers : f.inStock /\ f.price.cents = 1050 /\ f.seller = "Amazon.com"
                               /\ f.condition = "new" /\ ~f.recurring}
SoldByOf == [t \in Sellers |-> t]
DefaultTerms == [asin |-> NoText, variation |-> {}, sellerPolicy |-> "amazon_only", brand |-> NoText, approvedSellers |-> {},
    conditionPolicy |-> "new_only", expectedSeller |-> NoText, shipsFrom |-> NoText, quantity |-> 1, requirePrime |-> FALSE,
    allowSubscription |-> FALSE, maxItemPrice |-> NoMoney, maxOrderTotal |-> NoMoney]

-----------------------------------------------------------------------------
(* The checkout page.                                                      *)

Both(a, b) == Price(a) \o <<[kind |-> "word"]>> \o Price(b)
OrderSet == {[item |-> i, quantity |-> q, unitPrice |-> USD(1000), extra |-> e, recurring |-> FALSE, address |-> a,
              total |-> USD(q * 1000 + 100), declined |-> FALSE] :
               i \in {"item", "lookalike"}, q \in 1 .. 2, e \in BOOLEAN, a \in {"Home", "Office"}}
            \union {[item |-> "item", quantity |-> q, unitPrice |-> USD(1000), extra |-> FALSE, recurring |-> TRUE, address |-> "Home",
              total |-> USD(q * 1000 + 100), declined |-> FALSE] : q \in 1 .. 2}
            \union {[item |-> "item", quantity |-> q, unitPrice |-> USD(1500), extra |-> FALSE, recurring |-> FALSE, address |-> "Home",
              total |-> USD(t), declined |-> FALSE] : q \in 1..2, t \in {1600, 2100, 3100}}
TitleOf(i) == IF i = "item" THEN "Drill" ELSE "Drill Pro"
RowOf(i, o, missed) ==
    [asin |-> NoText, innerAsin |-> IF "asin" \in missed THEN NoText ELSE i,
     control |-> NoQuantity, wording |-> IF "quantity" \in missed THEN NoQuantity ELSE o.quantity,
     prices |-> IF "price" \in missed THEN <<>> ELSE <<Both(1, o.unitPrice.cents)>>,
     title |-> IF "title" \in missed THEN NoText ELSE TitleOf(i), text |-> "words",
     seller |-> NoText, soldBy |-> NoText]
DocOf(o, missed) ==
    [rows |-> <<[key |-> "items", text |-> Price(o.quantity * o.unitPrice.cents)]>>
              \o (IF "total" \in missed THEN <<>> ELSE <<[key |-> "total", text |-> Both(5, o.total.cents)], [key |-> "total", text |-> Price(1)]>>),
     lines |-> IF "lines" \in missed THEN <<>>
               ELSE <<RowOf(o.item, o, missed)>> \o (IF o.extra THEN <<RowOf("lookalike", o, missed)>> ELSE <<>>),
     address |-> <<"Ship to">> \o (IF "address" \in missed THEN <<>> ELSE <<o.address>>),
     payment |-> <<"Visa">>, subscription |-> o.recurring /\ "subscription" \notin missed, button |-> "button" \notin missed]
Blank == [rows |-> <<>>, lines |-> <<>>, address |-> <<>>, payment |-> <<>>, subscription |-> FALSE, button |-> FALSE]
OrderPage(o, missed) ==
    IF "window" \in missed THEN [frame |-> "ready", window |-> Blank, modal |-> DocOf(o, missed)]
    ELSE [frame |-> "absent", window |-> DocOf(o, missed), modal |-> Blank]
OrderParts == {"asin", "quantity", "price", "title", "lines", "total", "address", "subscription", "button", "window"}
OrderTerms == [asin |-> "item", variation |-> {}, sellerPolicy |-> "amazon_only", brand |-> NoText, approvedSellers |-> {},
    conditionPolicy |-> "new_only", expectedSeller |-> NoText, shipsFrom |-> NoText, quantity |-> 1, requirePrime |-> FALSE,
    allowSubscription |-> FALSE, maxItemPrice |-> USD(1000), maxOrderTotal |-> USD(3200), allowAddons |-> FALSE,
    requireAddressMatch |-> TRUE, expectedAddress |-> "Home", requirePaymentMatch |-> TRUE, expectedPayment |-> "Visa"]
OrderedProduct == [asin |-> "item", title |-> "Drill", brand |-> NoText, variation |-> {}, condition |-> "new", seller |-> "Amazon.com"]
OldOrders == { <<[number |-> "old1", total |-> USD(500)], [number |-> "old2", total |-> USD(1100)]>>,
         <<[number |-> "old1", total |-> USD(500)], [number |-> "old3", total |-> NoMoney]>>,
         <<[number |-> "old1", total |-> USD(500)]>>, <<>> }

=============================================================================
