----------------------------- MODULE CheckoutPage -----------------------------
(***************************************************************************)
(* The order page and the answer to an order (app/automation/              *)
(* checkout_manager.py), with the final check of the guard.  The order on  *)
(* Amazon's side may change at any time; a page shows it, in the window or *)
(* in the Buy Now frame, and any part of what it shows may not be read.    *)
(*                                                                         *)
(* A page is [frame, window, modal]; a document is its summary rows, its   *)
(* lines, and what it says of address, payment, subscription and button.   *)
(***************************************************************************)
EXTENDS PurchaseGuard

CONSTANTS Orders,           \* what the order may come to be
          Display(_, _),    \* the page of an order without the missed parts
          Unreadable,       \* parts of the page whose markup may have changed
          OrderRules,       \* the rules of the purchase
          OrderProduct,     \* the snapshot of its product page
          Headings,         \* texts that head an answer and are none
          AddonTitles,      \* titles with the wording of an add-on
          Histories         \* the older orders, newest first, as their cards read

VARIABLES order,            \* the order Amazon would take now
          approved,         \* the total that passed the final check, or NoMoney
          submission,       \* how far submit has come, and whether the order changed in it
          placed,           \* the order Amazon took, or NoOrder
          answer            \* what the program concludes, or NoAnswer

checkoutVars == <<order, approved, submission, placed, answer>>

NoOrder == [none |-> TRUE]
Dollars == [cents : Nat, currency : {"USD"}]

\* What the code takes for granted of Amazon, where it compares cents only (the
\* history): one currency.
ASSUME OrderPageAssumption ==
    \A o \in Orders :
        {"total", "declined"} \subseteq DOMAIN o /\ {o.total, o.unitPrice} \subseteq Dollars /\ o.quantity \in Nat
ASSUME HistoriesAssumption ==
    \A older \in Histories :
        /\ Len(older) \in Nat /\ older = [i \in 1 .. Len(older) |-> older[i]]
        /\ \A i \in 1 .. Len(older) : older[i].total \in Dollars \union {NoMoney}
ASSUME LimitAssumption ==
    {OrderRules.maxOrderTotal.cents, OrderRules.maxItemPrice.cents, OrderRules.quantity} \subseteq Int
NoAnswer == [verified |-> FALSE, number |-> "none"]
Unsure(number) == [verified |-> FALSE, number |-> number]

LineBound == 40
MaxCards == 10

-----------------------------------------------------------------------------
(* The documents.                                                          *)

\* Everything is read in the Buy Now frame once its panel is there; a frame
\* whose panel never appears counts as none.
Document(page) == IF page.frame = "ready" THEN page.modal ELSE page.window

\* The button of the frame, else one of the window, a visible one first.
PlaceOrderFound(page) == (page.frame = "ready" /\ page.modal.button) \/ page.window.button

-----------------------------------------------------------------------------
(* The summary: rows are told by their label, and all their prices are     *)
(* read.                                                                   *)

HighestOf(prices) == CHOOSE p \in prices : \A q \in prices : q.cents <= p.cents

RowsOf(doc, key) ==
    {doc.rows[i].text : i \in {i \in DOMAIN doc.rows : i <= LineBound /\ doc.rows[i].key = key}}

PricesOf(doc, key) == UNION {ExtractPrices(text, "USD") : text \in RowsOf(doc, key)}

\* Of several prices in a row, and of several rows of a label, the largest.
SummaryValue(doc, key) ==
    IF PricesOf(doc, key) = {} THEN NoMoney ELSE HighestOf(PricesOf(doc, key))

-----------------------------------------------------------------------------
(* The lines.                                                              *)

FirstOf(values, none) ==
    LET known == {i \in DOMAIN values : values[i] # none}
    IN  IF known = {} THEN none ELSE values[Min(known)]

\* On the row or inside it.
RowAsin(row) == FirstOf(<<row.asin, row.innerAsin>>, NoText)

\* A form control, else the wording; never a made-up 1.
LineQuantity_Fabricated(row) == FirstOf(<<row.control, row.wording, 1>>, NoQuantity)
LineQuantity(row) == FirstOf(<<row.control, row.wording>>, NoQuantity)

\* The first element with a price, and all the prices in it.
LinePrice(row) ==
    FirstOf([i \in DOMAIN row.prices |-> ParseMoneyCeiling(row.prices[i], "USD")], NoMoney)

LineOf(row) ==
    [asin |-> RowAsin(row),
     title |-> FirstOf(<<row.title, row.text>>, NoText),
     quantity |-> LineQuantity(row),
     unitPrice |-> LinePrice(row),
     seller |-> FirstOf(<<row.seller, row.soldBy>>, NoText)]

ReadLines(doc) ==
    LET filled == {i \in DOMAIN doc.lines : doc.lines[i].text # NoText \/ RowAsin(doc.lines[i]) # NoText}
    IN  [i \in {i \in filled : i <= LineBound} |-> LineOf(doc.lines[i])]

DetectAddons(lines) == {line.title : line \in Range(lines)} \cap AddonTitles

\* The first candidate with an answer rather than the heading above one.
Answer(chain) == FirstOf([i \in DOMAIN chain |-> IF chain[i] \in Headings THEN NoText ELSE chain[i]], NoText)

ReadCheckout(page) ==
    LET doc == Document(page)
        lines == ReadLines(doc)
    IN  [lines |-> lines,
         itemSubtotal |-> SummaryValue(doc, "items"),
         orderTotal |-> SummaryValue(doc, "total"),
         address |-> Answer(doc.address),
         payment |-> Answer(doc.payment),
         addons |-> DetectAddons(lines),
         subscription |-> doc.subscription,
         button |-> PlaceOrderFound(page)]

-----------------------------------------------------------------------------
(* Amazon's page of an order.  Its rows are all there or not at all, any   *)
(* other part may be missing, the mark of a subscription among them, and   *)
(* nothing on it says what is not so: no price stands beside another that  *)
(* is above it, and no other item has just the title of the one wanted.    *)

ShowsHighest(prices, price) ==
    prices # {} => price \in prices /\ \A p \in prices \ {price} : p.cents \in 0 .. (price.cents - 1)

ShowsItem(row, o) ==
    /\ {row.asin, row.innerAsin} \subseteq {NoText, o.item}
    /\ \A title \in {row.title, row.text} :
          Norm[title] # NoText /\ Norm[title] \in {Norm[OrderProduct.title], BrandedTitle(OrderProduct)}
              => Code[o.item] = Code[OrderRules.asin]
    /\ {row.control, row.wording} \subseteq {NoQuantity, o.quantity}
    /\ DOMAIN row.prices \subseteq Nat
    /\ \A i \in DOMAIN row.prices : ShowsHighest(ExtractPrices(row.prices[i], "USD"), o.unitPrice)

ShowsOrder(doc, o) ==
    /\ DOMAIN doc.lines \in {{}, IF o.extra THEN {1, 2} ELSE {1}}
    /\ \A i \in DOMAIN doc.lines : doc.lines[i].text # NoText
    /\ 1 \in DOMAIN doc.lines => ShowsItem(doc.lines[1], o)
    /\ 2 \in DOMAIN doc.lines => ~IsItem(OrderRules.asin, LineOf(doc.lines[2]))
    /\ ShowsHighest(PricesOf(doc, "items"), Amount(o.quantity * o.unitPrice.cents, "USD"))
    /\ ShowsHighest(PricesOf(doc, "total"), o.total)
    /\ DOMAIN doc.address \subseteq Nat /\ Range(doc.address) \subseteq {NoText, o.address} \union Headings

ASSUME DisplayAssumption ==
    \A o \in Orders : \A missed \in SUBSET Unreadable : ShowsOrder(Document(Display(o, missed)), o)

-----------------------------------------------------------------------------
(* The confirmation page and the list of past orders.                      *)

\* A marker, the wording or the address of the page; any of them will do.
ReadConfirmation(response) ==
    [verified |-> response.marker \/ response.wording \/ response.thankYou,
     number |-> FirstOf(<<response.purchaseId, response.number>>, "none")]

\* Without cards the text of the page may name an order, and proves nothing.
\* A card is passed over without a number, or when both totals are known and
\* differ; the first that is not is taken for the order.
VerifyViaOrdersPage_AnyTotal(history, expected) ==
    LET cards == SelectSeq(history.cards, LAMBDA card : card.number # "none")
    IN  IF cards = <<>> THEN Unsure(history.body) ELSE [verified |-> TRUE, number |-> Head(cards).number]

VerifyViaOrdersPage(history, expected) ==
    LET cards == history.cards
        found == {i \in 1 .. Min({Len(cards), MaxCards}) :
                     /\ cards[i].number # "none"
                     /\ expected # NoMoney /\ cards[i].total # NoMoney => cards[i].total.cents = expected.cents}
    IN  IF cards = <<>> THEN Unsure(history.body)
        ELSE IF found = {} THEN NoAnswer
        ELSE [verified |-> TRUE, number |-> cards[Min(found)].number]

-----------------------------------------------------------------------------
(* Approval, submission, answer.                                           *)

Unsubmitted ==
    /\ approved = NoMoney /\ placed = NoOrder /\ answer = NoAnswer
    /\ submission = [step |-> "none", moved |-> FALSE]

CheckoutIdle == order = NoOrder /\ Unsubmitted

CheckoutInit == order \in Orders /\ Unsubmitted

OrderChanges ==
    /\ order # NoOrder /\ placed = NoOrder
    /\ \E o \in Orders : o # order /\ order' = o
    /\ submission' = [submission EXCEPT !.moved = submission.step # "none"]
    /\ UNCHANGED <<approved, placed, answer>>

\* The final check: what it approves is the total that was read.
Approve ==
    /\ order # NoOrder /\ approved = NoMoney
    /\ \E missed \in SUBSET Unreadable :
          LET checkout == ReadCheckout(Display(order, missed))
          IN  /\ Passed(CheckFinal(OrderRules, OrderProduct, checkout))
              /\ approved' = checkout.orderTotal
    /\ UNCHANGED <<order, submission, placed, answer>>

\* submit, first step: the total is read again and must be the approved one.
RecheckTotal_Unchecked ==
    /\ approved # NoMoney /\ submission.step = "none"
    /\ submission' = [submission EXCEPT !.step = "checked"]
    /\ UNCHANGED <<order, approved, placed, answer>>

RecheckTotal ==
    /\ approved # NoMoney /\ submission.step = "none"
    /\ \E missed \in SUBSET Unreadable :
          VerifyTotalUnchanged(approved, ReadCheckout(Display(order, missed)).orderTotal) = "pass"
    /\ submission' = [submission EXCEPT !.step = "checked"]
    /\ UNCHANGED <<order, approved, placed, answer>>

\* Then the button is looked for; when it cannot be found, nothing is ordered.
FindOrderButton ==
    /\ submission.step = "checked"
    /\ \E missed \in SUBSET Unreadable : PlaceOrderFound(Display(order, missed))
    /\ submission' = [submission EXCEPT !.step = "found"]
    /\ UNCHANGED <<order, approved, placed, answer>>

\* The submission is recorded before the click.
RecordSubmit ==
    /\ submission.step = "found"
    /\ submission' = [submission EXCEPT !.step = "recorded"]
    /\ UNCHANGED <<order, approved, placed, answer>>

\* Amazon takes the order as it is now.  It may decline it, and a click may come
\* to nothing, which is the same to what follows.
Click ==
    /\ submission.step = "recorded" /\ placed = NoOrder
    /\ placed' \in {order, [order EXCEPT !.declined = TRUE]}
    /\ UNCHANGED <<order, approved, submission, answer>>

\* The page after the click confirms an order only when there is one, and may
\* not be recognised; then the past orders are searched, the newest first, and
\* the list may not have the new order yet.
ReadAnswer ==
    /\ placed # NoOrder /\ answer = NoAnswer
    /\ \/ /\ ~placed.declined
          /\ \E found \in {"new", "none"} :
                answer' = ReadConfirmation([marker |-> TRUE, wording |-> FALSE, thankYou |-> FALSE,
                                            purchaseId |-> "none", number |-> found])
       \/ \E older \in Histories, total \in {placed.total, NoMoney}, number \in {"new", "none"} :
             \E newest \in {<<>>, <<[number |-> number, total |-> total]>>} :
                /\ placed.declined => newest = <<>>
                /\ answer' = VerifyViaOrdersPage([cards |-> newest \o older, body |-> "none"], approved)
    /\ UNCHANGED <<order, approved, submission, placed>>

CheckoutNext ==
    OrderChanges \/ Approve \/ RecheckTotal \/ FindOrderButton \/ RecordSubmit \/ Click \/ ReadAnswer

CheckoutSpec == CheckoutInit /\ [][CheckoutNext]_checkoutVars

-----------------------------------------------------------------------------
\* An order that passed the final check is the order that was asked for, even
\* when parts of the page were not read: every line is the item in the number
\* wanted and at no more than the limit, and the address is the one that is
\* required.  The total that is approved is what would be charged.  Whether the
\* order recurs cannot be told here: a mark that is missed reads as none.
PassedOrderIsTheOrder ==
    [][approved = NoMoney /\ approved' # NoMoney =>
        /\ Code[order.item] = Code[OrderRules.asin] /\ ~order.extra
        /\ order.quantity = OrderRules.quantity
        /\ OrderRules.maxItemPrice # NoMoney => AtMost(order.unitPrice, OrderRules.maxItemPrice)
        /\ approved' = order.total /\ AtMost(order.total, OrderRules.maxOrderTotal)
        /\ OrderRules.requireAddressMatch /\ OrderRules.expectedAddress # NoText
              => Norm[order.address] = Norm[OrderRules.expectedAddress]]_checkoutVars

\* What is charged is what was approved, although the order may have changed
\* since the final check and the page may be read worse the second time - unless
\* it changes once more after its total was read again, while the button is
\* looked for, the submission recorded and the button clicked (submit).
ChargedIsApproved == placed # NoOrder /\ ~submission.moved => placed.total = approved

\* The answer is about this order, or about one that cannot be told from it: an
\* order of another total is never claimed for it, and the number of an order
\* that Amazon declined is never made up.
AnswerIsAboutTheOrder ==
    answer.verified =>
        \/ ~placed.declined /\ answer.number \in {"new", "none"}
        \/ \E older \in Histories : \E card \in Range(older) :
              card.number = answer.number /\ card.total \in {approved, NoMoney}

=============================================================================
