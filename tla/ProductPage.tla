------------------------------ MODULE ProductPage ------------------------------
(***************************************************************************)
(* From a product page to the snapshot the guard judges                    *)
(* (app/automation/product_parser.py, page_reader.py, selectors.py).       *)
(*                                                                         *)
(* A chain of selectors is what its candidates matched on this page, the   *)
(* most specific first: [text, loose] each, text = NoText when the element *)
(* could not be read.  A wording is the set of the phrases in it that the  *)
(* code looks for; what the buy box says is in parts, a set of wordings, so *)
(* that one of them can be taken out.                                      *)
(***************************************************************************)
EXTENDS PurchaseGuard

CONSTANTS NotASeller,       \* labels of controls, and texts over 80 characters
          SoldBy            \* the seller a "sold by" sentence names, else the text

Conditions == {"new", "used", "open_box", "refurbished", "renewed", "collectible"}

-----------------------------------------------------------------------------
(* Reading a chain: the first match, or the first that can be used.        *)

Exists(chain) == chain # <<>>

Accepted(chain, refused) == {i \in DOMAIN chain : chain[i].text # NoText /\ chain[i].text \notin refused}
Text(chain, refused) ==
    IF Accepted(chain, refused) = {} THEN NoText ELSE chain[Min(Accepted(chain, refused))].text
AnyText(chain) == Text(chain, {})
Loose(chain) == chain[Min(Accepted(chain, {}))].loose

\* An attribute is asked of the first match only.
Attribute(chain) == IF Exists(chain) THEN chain[1].text ELSE NoText

-----------------------------------------------------------------------------
(* Which item.  A reference is what a link or a typed code contains.       *)

\* An item number on another shop's host is not an item.
ExtractAsin(ref) ==
    IF ref = NoText THEN NoText ELSE IF ref.host = "other" THEN NoText ELSE ref.code

\* The page's form, its canonical link, its address; and when none of them has
\* a code, the one that was asked for.
ReadAsin(page, expected) ==
    LET own == <<Attribute(page.asinInput), ExtractAsin(Attribute(page.canonical)), ExtractAsin(page.address)>>
        known == SelectSeq(own, LAMBDA code : code # NoText)
    IN  IF known = <<>> THEN expected ELSE Head(known)

-----------------------------------------------------------------------------
(* The price.                                                              *)

\* The strict parser, unless the candidate is loose; the ceiling parser when
\* that gives none; the split markup when the text gives none.
ReadPrice(page) ==
    LET text == AnyText(page.price)
        strict == IF Loose(page.price) THEN NoMoney ELSE ParseMoney(text, "USD")
        price == IF text = NoText THEN NoMoney
                 ELSE IF strict # NoMoney THEN strict
                 ELSE ParseMoneyCeiling(text, "USD")
    IN  IF price # NoMoney THEN price
        ELSE IF AnyText(page.whole) = NoText THEN NoMoney
        ELSE LET whole == AnyText(page.whole)
                 fraction == AnyText(page.fraction)
             IN  ParseSplitPrice(whole.digits, whole.open,
                     IF fraction = NoText THEN [v |-> 0, n |-> 0] ELSE fraction.digits, "USD")

\* A list price is one above the price; it is shown and never judged.
ReadListPrice(page, price) ==
    LET listed == IF AnyText(page.listPrice) = NoText THEN NoMoney
                  ELSE ParseMoneyCeiling(AnyText(page.listPrice), "USD")
    IN  IF price = NoMoney \/ (listed # NoMoney /\ AtMost(price, listed) /\ listed # price)
        THEN listed ELSE NoMoney

-----------------------------------------------------------------------------
(* Availability, seller, condition.                                        *)

HasBuyControl(page) == page.addToCart \/ page.buyNow

ReadAvailability(page) ==
    LET wording == IF AnyText(page.availability) = NoText THEN {} ELSE AnyText(page.availability)
    IN  IF page.outOfStockMarker THEN "out_of_stock"
        ELSE IF "preorder" \in wording THEN "preorder"
        ELSE IF "out" \in wording THEN "out_of_stock"
        ELSE IF "in" \in wording THEN "in_stock"
        ELSE IF HasBuyControl(page) THEN "in_stock" ELSE "unknown"

ReadSeller(page) ==
    LET text == Text(page.seller, NotASeller)
    IN  IF text = NoText THEN NoText ELSE SoldBy[text]

\* The caption of the selected offer: used phrases first, because "Used - Like
\* New" has both.
ActiveCondition(page) ==
    LET caption == Attribute(page.activeOffer)
    IN  IF caption = NoText THEN "unknown"
        ELSE IF "used phrase" \in caption
        THEN IF caption \cap Conditions = {} THEN "used" ELSE CHOOSE c \in caption \cap Conditions : TRUE
        ELSE IF "new phrase" \in caption THEN "new"
        ELSE "unknown"

LabelledCondition(page) ==
    LET text == AnyText(page.condition)
    IN  IF text = NoText \/ text \cap Conditions = {} THEN "unknown"
        ELSE CHOOSE c \in text \cap Conditions : TRUE

\* The box without the parts that stand in a block of another offer, as the
\* program knows such blocks: every part of the box that reads like one of them.
WithoutAlternatives(page) == UNION (Attribute(page.buyBox) \ page.alternatives)

\* A box that names no used condition, once the other offers are taken out of
\* it, sells a new item - if it sells anything.
ReadCondition_NoUsedWording(page) ==
    IF ActiveCondition(page) # "unknown" THEN ActiveCondition(page)
    ELSE IF LabelledCondition(page) # "unknown" THEN LabelledCondition(page)
    ELSE IF HasBuyControl(page) THEN "new" ELSE "unknown"

ReadCondition(page) ==
    IF ActiveCondition(page) # "unknown" THEN ActiveCondition(page)
    ELSE IF LabelledCondition(page) # "unknown" THEN LabelledCondition(page)
    ELSE IF Attribute(page.buyBox) = NoText THEN "unknown"
    ELSE IF "used phrase" \in WithoutAlternatives(page) THEN "unknown"
    ELSE IF HasBuyControl(page) THEN "new" ELSE "unknown"

-----------------------------------------------------------------------------
(* Recurring deliveries, Prime, quantity, variation.                       *)

OneTimeIsSelected(page) == page.oneTime # "absent" /\ (page.oneTime = "active" \/ page.oneTimeRadio = "checked")

\* When the box cannot be read the words of the whole page count.
OffersSubscription(page) ==
    "subscription" \in (IF AnyText(page.buyBox) = NoText THEN page.words ELSE UNION AnyText(page.buyBox))

ReadSubscriptionPreselected(page) ==
    /\ page.subscriptionRow \/ OffersSubscription(page)
    /\ ~OneTimeIsSelected(page)

\* A badge outside the box and the delivery block proves nothing.
ReadPrime(page) ==
    IF Exists(page.primeBadge) THEN IF page.primeBadge[1].loose THEN "unknown" ELSE "yes"
    ELSE IF "prime" \in page.words THEN "unknown"
    ELSE "no"

ReadMaxQuantity(page) == IF page.quantities = {} THEN NoQuantity ELSE Max(page.quantities)

\* Rows that name a known dimension and a value; the first of a name counts.
\* The newer markup is read only when the older one has none.
Dimensions(rows) ==
    {<<rows[i].label, rows[i].value>> :
        i \in {i \in DOMAIN rows : /\ rows[i].known /\ rows[i].value # NoText
                                   /\ \A j \in 1 .. i - 1 : rows[j].value # NoText /\ rows[j].known
                                                            => rows[j].label # rows[i].label}}

ReadVariation(page) ==
    IF Dimensions(page.legacyTwister) # {} THEN Dimensions(page.legacyTwister)
    ELSE Dimensions(page.inlineTwister)

HasVariationPicker(page) == page.legacyTwister # <<>> \/ page.inlineTwister # <<>> \/ page.twisterText

-----------------------------------------------------------------------------
Parse(page, expected) ==
    LET price == ReadPrice(page)
    IN  [asin |-> ReadAsin(page, expected),
         title |-> AnyText(page.title),
         brand |-> AnyText(page.brand),
         price |-> price,
         listPrice |-> ReadListPrice(page, price),
         availability |-> ReadAvailability(page),
         seller |-> ReadSeller(page),
         shipsFrom |-> AnyText(page.shipsFrom),
         condition |-> ReadCondition(page),
         variation |-> ReadVariation(page),
         variationPicker |-> HasVariationPicker(page),
         maxQuantity |-> ReadMaxQuantity(page),
         delivery |-> AnyText(page.delivery),
         prime |-> ReadPrime(page),
         subscription |-> ReadSubscriptionPreselected(page)]

=============================================================================
