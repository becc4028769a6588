----------------------------- MODULE PagesSafety -----------------------------
(***************************************************************************)
(* What the guard lets pass, whatever could not be read; that a product    *)
(* that passes is what the user was shown, and an order that passes what   *)
(* was asked for; and that what is charged and answered is what was        *)
(* approved: for any offers, orders and order histories, and any pages on  *)
(* which parts may be missing but nothing is said that is not so (Says,    *)
(* ShowsOrder).                                                            *)
(*                                                                         *)
(* What a text of the page says enters through those assumptions; what is  *)
(* proved is that no chain of fallbacks, and no part that is missing, ever *)
(* turns true texts into a false reading that passes.                      *)
(***************************************************************************)
EXTENDS PagesInvariant, FiniteSetTheorems, SequenceTheorems, WellFoundedInduction, TLAPS

-----------------------------------------------------------------------------
(* Least numbers and highest prices.                                         *)

(* A set of numbers has a least one.                                         *)
LEMMA LeastNatural ==
  ASSUME NEW S \in SUBSET Nat, S # {}
  PROVE  \E n \in S : \A m \in S : n <= m
<1> DEFINE T == {1 .. n : n \in S}
           R == StrictSubsetOrdering(Nat)
<1>1. T \subseteq FiniteSubsetsOf(Nat)
  BY FS_Interval DEF FiniteSubsetsOf
<1>2. \E t \in T : \A u \in T : ~ (<<u, t>> \in R)
  <2>1. T # {}
    OBVIOUS
  <2>2. IsWellFoundedOn(R, FiniteSubsetsOf(Nat))
    BY FS_StrictSubsetOrderingWellFounded
  <2> HIDE DEF T, R
  <2> QED
    BY <1>1, <2>1, <2>2, WFMin
<1>3. PICK n \in S : \A m \in S : ~ (<<1 .. m, 1 .. n>> \in R)
  BY <1>2
<1>4. ASSUME NEW m \in S, m < n
      PROVE  FALSE
  <2>1. 1 .. m \subseteq 1 .. n /\ n \in 1 .. n /\ n \notin 1 .. m
    BY <1>4
  <2>2. <<1 .. m, 1 .. n>> \in R
    BY <2>1 DEF StrictSubsetOrdering
  <2> QED
    BY <2>2, <1>3
<1> QED
  BY <1>4

LEMMA LeastOf ==
  ASSUME NEW S \in SUBSET Nat, S # {}
  PROVE  Min(S) \in S /\ \A i \in S : Min(S) <= i
<1>1. \E n \in S : \A m \in S : n <= m
  BY LeastNatural
<1> QED
  BY <1>1 DEF Min

(* A finite set of prices has a highest one: the one that fewest are above.  *)
LEMMA HighestExists ==
  ASSUME NEW Prices, IsFiniteSet(Prices), Prices # {}, \A p \in Prices : p.cents \in Int
  PROVE  \E p \in Prices : \A q \in Prices : q.cents <= p.cents
<1> DEFINE Above(p) == {q \in Prices : q.cents > p.cents}
           Counts == {Cardinality(Above(p)) : p \in Prices}
<1>1. \A p \in Prices : IsFiniteSet(Above(p)) /\ Cardinality(Above(p)) \in Nat
  <2>1. TAKE p \in Prices
  <2>2. IsFiniteSet(Above(p))
    <3>1. Above(p) \subseteq Prices
      OBVIOUS
    <3> HIDE DEF Above
    <3> QED
      BY <3>1, FS_Subset
  <2> HIDE DEF Above
  <2> QED
    BY <2>2, FS_CardinalityType
<1>2. \E n \in Counts : \A m \in Counts : n <= m
  <2>1. Counts \in SUBSET Nat /\ Counts # {}
    <3> HIDE DEF Above
    <3> QED
      BY <1>1
  <2> HIDE DEF Counts
  <2> QED
    BY <2>1, LeastNatural
<1>3. PICK p \in Prices : \A q \in Prices : Cardinality(Above(p)) <= Cardinality(Above(q))
  <2> HIDE DEF Above
  <2> QED
    BY <1>2
<1>4. ASSUME NEW q \in Prices, ~ (q.cents <= p.cents)
      PROVE  FALSE
  <2>1. Above(q) \subseteq Above(p) /\ q \in Above(p) /\ q \notin Above(q)
    BY <1>4
  <2>2. Above(q) # Above(p)
    BY <2>1
  <2> HIDE DEF Above
  <2>3. Cardinality(Above(q)) < Cardinality(Above(p))
    BY <1>1, <2>1, <2>2, FS_Subset
  <2> QED
    BY <1>1, <1>3, <2>3
<1> QED
  BY <1>4

-----------------------------------------------------------------------------
(* What the guard lets pass.                                                 *)

(* A price that passes is known, and is in figures at most the limit.        *)
LEMMA HighestIsWithinLimit ==
  ASSUME NEW terms, NEW target, IsFiniteSet(DOMAIN target),
         \A line \in Range(target) : line.unitPrice.cents \in Int,
         terms.maxItemPrice.cents \in Int,
         terms.maxItemPrice # NoMoney,
         ~Blocks(CheckItemPriceInCheckout(terms, target))
  PROVE  /\ \E line \in Range(target) :
               line.unitPrice # NoMoney /\ line.unitPrice.currency = terms.maxItemPrice.currency
         /\ \A line \in Range(target) :
               line.unitPrice # NoMoney => line.unitPrice.cents <= terms.maxItemPrice.cents
<1> DEFINE prices == {line.unitPrice : line \in Range(target)} \ {NoMoney}
           highest == CHOOSE p \in prices : \A q \in prices : q.cents <= p.cents
<1>1. Range(target) = {target[i] : i \in DOMAIN target}
  BY DEF Range
<1>2. IsFiniteSet(prices)
  <2> DEFINE priced == {i \in DOMAIN target : target[i].unitPrice # NoMoney}
             f == [i \in priced |-> target[i].unitPrice]
  <2>1. IsFiniteSet(priced)
    BY FS_Subset
  <2>2. f \in Surjection(priced, prices)
    BY <1>1 DEF Surjection
  <2> HIDE DEF priced, f
  <2> QED
    BY <2>1, <2>2, FS_Surjection
<1>3. /\ prices # {} /\ ~ (highest.cents > terms.maxItemPrice.cents)
      /\ highest.currency = terms.maxItemPrice.currency
  BY DEF CheckItemPriceInCheckout, Blocks, Fine
<1>4. \A p \in prices : p.cents \in Int
  BY <1>1
<1>5. highest \in prices /\ \A q \in prices : q.cents <= highest.cents
  <2> HIDE DEF prices
  <2>1. \E p \in prices : \A q \in prices : q.cents <= p.cents
    BY <1>2, <1>3, <1>4, HighestExists
  <2> QED
    BY <2>1
<1>6. \A q \in prices : q.cents <= terms.maxItemPrice.cents
  <2> HIDE DEF prices, highest
  <2> QED
    BY <1>3, <1>4, <1>5
<1> QED
  BY <1>3, <1>5, <1>6

(* A snapshot that passes has no unread part that the rules speak of: the    *)
(* item and its state are known, the seller too unless any may sell, and so  *)
(* is the price, which is within the limit.                                  *)
THEOREM UnreadProductIsRefused ==
  ASSUME NEW terms, NEW product, Passed(CheckProduct(terms, product)),
         product.price.cents \in Int, terms.maxItemPrice.cents \in Int
  PROVE  /\ product.asin # NoText /\ Code[product.asin] = Code[terms.asin]
         /\ product.availability = "in_stock"
         /\ product.condition # "unknown"
         /\ terms.sellerPolicy # "any" => Norm[product.seller] # NoText
         /\ terms.expectedSeller # NoText => Norm[product.seller] = Norm[terms.expectedSeller]
         /\ terms.requirePrime => product.prime = "yes"
         /\ product.subscription => terms.allowSubscription
         /\ product.price # NoMoney
         /\ terms.maxItemPrice # NoMoney => AtMost(product.price, terms.maxItemPrice)
<1> DEFINE checks == CheckProduct(terms, product)
<1>1. /\ ~Blocks(checks.asin) /\ ~Blocks(checks.availability) /\ ~Blocks(checks.condition)
      /\ ~Blocks(checks.seller) /\ ~Blocks(checks.seller_changed) /\ ~Blocks(checks.prime)
      /\ ~Blocks(checks.subscription) /\ ~Blocks(checks.item_price) /\ ~Blocks(checks.max_item_price)
  BY DEF Passed, CheckProduct
<1>2. product.asin # NoText /\ Code[product.asin] = Code[terms.asin]
  BY <1>1 DEF CheckProduct, CheckAsin, Blocks, Fine
<1>3. product.availability = "in_stock"
  BY <1>1 DEF CheckProduct, CheckAvailability, Blocks, Fine
<1>4. product.condition # "unknown"
  BY <1>1 DEF CheckProduct, CheckCondition, ConditionAllowed, Blocks, Fine
<1>5. terms.sellerPolicy # "any" => Norm[product.seller] # NoText
  BY <1>1 DEF CheckProduct, CheckSeller, SellerAllowed, Blocks, Fine
<1>6. terms.expectedSeller # NoText => Norm[product.seller] = Norm[terms.expectedSeller]
  BY <1>1 DEF CheckProduct, CheckSellerChanged, Blocks, Fine
<1>7. terms.requirePrime => product.prime = "yes"
  BY <1>1 DEF CheckProduct, CheckPrime, Blocks, Fine
<1>8. product.subscription => terms.allowSubscription
  BY <1>1 DEF CheckProduct, CheckSubscription, Blocks, Fine
<1>9. /\ product.price # NoMoney
      /\ terms.maxItemPrice # NoMoney => AtMost(product.price, terms.maxItemPrice)
  BY <1>1 DEF CheckProduct, CheckItemPriceKnown, CheckMaxItemPrice, AtMost, Blocks, Fine
<1> QED
  BY <1>2, <1>3, <1>4, <1>5, <1>6, <1>7, <1>8, <1>9

(* An order total that passes is known, and within the limit that must be    *)
(* there.                                                                    *)
LEMMA TotalIsWithinLimit ==
  ASSUME NEW terms, NEW product, NEW checkout, Passed(CheckFinal(terms, product, checkout)),
         checkout.orderTotal.cents \in Int, terms.maxOrderTotal.cents \in Int
  PROVE  checkout.orderTotal # NoMoney /\ AtMost(checkout.orderTotal, terms.maxOrderTotal)
<1>1. ~Blocks(CheckOrderTotalKnown(checkout)) /\ ~Blocks(CheckMaxOrderTotal(terms, checkout))
  BY DEF Passed, CheckFinal
<1> QED
  BY <1>1 DEF CheckOrderTotalKnown, CheckMaxOrderTotal, AtMost, Blocks, Fine

(* The lines taken for the item are lines of the order.                      *)
LEMMA TargetIsOfTheOrder ==
  ASSUME NEW terms, NEW checkout, NEW product, ~Empty(TargetLines(terms, checkout, product))
  PROVE  LET target == TargetLines(terms, checkout, product)
         IN  /\ DOMAIN target \subseteq DOMAIN checkout.lines
             /\ \A i \in DOMAIN target : target[i] = checkout.lines[i]
<1> DEFINE matching == LinesFor(checkout.lines, terms.asin)
<1>1. DOMAIN matching \subseteq DOMAIN checkout.lines /\ \A i \in DOMAIN matching : matching[i] = checkout.lines[i]
  BY DEF LinesFor, RestrictValues, Restrict
<1>2. Empty(<<>>)
  BY DEF Empty
<1> HIDE DEF matching
<1> QED
  BY <1>1, <1>2 DEF TargetLines, matching

(* What passes is an order all of whose lines were taken for the item.       *)
LEMMA TargetIsTheOrder ==
  ASSUME NEW terms, NEW product, NEW checkout, Passed(CheckFinal(terms, product, checkout))
  PROVE  LET target == TargetLines(terms, checkout, product)
         IN  ~Empty(target) /\ DOMAIN target = DOMAIN checkout.lines
<1> DEFINE target == TargetLines(terms, checkout, product)
<1>1. ~Blocks(CheckAsinInCheckout(terms, checkout, product)) /\ ~Blocks(CheckForeignLines(terms, checkout, target))
  BY DEF Passed, CheckFinal
<1>2. ~Empty(target)
  BY <1>1 DEF CheckAsinInCheckout, Blocks, Fine
<1> HIDE DEF target
<1>3. DOMAIN target = DOMAIN checkout.lines
  BY <1>1, <1>2 DEF CheckForeignLines, Blocks, Fine
<1> QED
  BY <1>2, <1>3 DEF target

(* They were told by the item code, each of them, or the only one by title.  *)
LEMMA TargetIsNamed ==
  ASSUME NEW terms, NEW checkout, NEW product,
         ~Empty(TargetLines(terms, checkout, product)),
         DOMAIN TargetLines(terms, checkout, product) = DOMAIN checkout.lines
  PROVE  \/ \A i \in DOMAIN checkout.lines : IsItem(terms.asin, checkout.lines[i])
         \/ IdentifiedByTitle(checkout, product)
<1> DEFINE matching == LinesFor(checkout.lines, terms.asin)
<1>1. \A i \in DOMAIN matching : IsItem(terms.asin, checkout.lines[i])
  BY DEF LinesFor, RestrictValues, Restrict
<1>2. Empty(<<>>)
  BY DEF Empty
<1> HIDE DEF matching
<1> QED
  BY <1>1, <1>2 DEF TargetLines, matching

(* What passes the final check: the order holds the lines that were taken    *)
(* for the item and no other, in the number wanted as the lines or the       *)
(* subtotal say; a price that was read is within the limit, and one was; no  *)
(* seller that was read is a wrong one; nothing recurs or comes on top that  *)
(* the rules forbid; and the total, the address, the payment and the button  *)
(* were read, whatever else was not.                                         *)
THEOREM UnreadOrderIsRefused ==
  ASSUME NEW terms, NEW product, NEW checkout, Passed(CheckFinal(terms, product, checkout)),
         IsFiniteSet(DOMAIN checkout.lines),
         \A i \in DOMAIN checkout.lines : checkout.lines[i].unitPrice.cents \in Int,
         checkout.orderTotal.cents \in Int,
         terms.maxOrderTotal.cents \in Int, terms.maxItemPrice.cents \in Int
  PROVE  LET target == TargetLines(terms, checkout, product)
         IN  /\ ~Empty(target) /\ DOMAIN target = DOMAIN checkout.lines
             /\ IF QuantityHidden(target) THEN QuantityFromSubtotal(terms, checkout, target)
                                          ELSE Units(target) = terms.quantity
             /\ terms.maxItemPrice # NoMoney =>
                   /\ \E line \in Range(target) :
                         line.unitPrice # NoMoney /\ line.unitPrice.currency = terms.maxItemPrice.currency
                   /\ \A line \in Range(target) :
                         line.unitPrice # NoMoney => line.unitPrice.cents <= terms.maxItemPrice.cents
             /\ \A line \in Range(target) : line.seller # NoText => SellerAllowed(terms, line.seller)
             /\ checkout.subscription => terms.allowSubscription
             /\ terms.allowAddons \/ checkout.addons = {}
             /\ checkout.orderTotal # NoMoney /\ AtMost(checkout.orderTotal, terms.maxOrderTotal)
             /\ MatchesLabel(checkout.address, terms.requireAddressMatch, terms.expectedAddress)
             /\ MatchesLabel(checkout.payment, terms.requirePaymentMatch, terms.expectedPayment)
             /\ checkout.button
<1> DEFINE target == TargetLines(terms, checkout, product)
<1>1. /\ ~Blocks(CheckAsinInCheckout(terms, checkout, product))
      /\ ~Blocks(CheckQuantityInCheckout(terms, checkout, target))
      /\ ~Blocks(CheckCheckoutSeller(terms, target))
      /\ ~Blocks(CheckSubscription(terms, checkout.subscription))
      /\ ~Blocks(CheckItemPriceInCheckout(terms, target))
      /\ ~Blocks(CheckForeignLines(terms, checkout, target))
      /\ ~Blocks(CheckAddons(terms, checkout))
      /\ ~Blocks(CheckAddress(terms, checkout))
      /\ ~Blocks(CheckPayment(terms, checkout))
      /\ ~Blocks(CheckPlaceOrderControl(checkout))
  BY DEF Passed, CheckFinal
<1>2. ~Empty(target) /\ DOMAIN target = DOMAIN checkout.lines
  BY TargetIsTheOrder
<1>3. IsFiniteSet(DOMAIN target) /\ \A line \in Range(target) : line.unitPrice.cents \in Int
  BY <1>2, TargetIsOfTheOrder, FS_Subset DEF Range
<1> HIDE DEF target
<1>4. IF QuantityHidden(target) THEN QuantityFromSubtotal(terms, checkout, target)
                                ELSE Units(target) = terms.quantity
  BY <1>1, <1>2 DEF CheckQuantityInCheckout, Blocks, Fine
<1>5. terms.maxItemPrice # NoMoney =>
         /\ \E line \in Range(target) :
               line.unitPrice # NoMoney /\ line.unitPrice.currency = terms.maxItemPrice.currency
         /\ \A line \in Range(target) :
               line.unitPrice # NoMoney => line.unitPrice.cents <= terms.maxItemPrice.cents
  BY <1>1, <1>3, HighestIsWithinLimit
<1>6. \A line \in Range(target) : line.seller # NoText => SellerAllowed(terms, line.seller)
  BY <1>1 DEF CheckCheckoutSeller, Blocks, Fine
<1>7. /\ checkout.subscription => terms.allowSubscription
      /\ terms.allowAddons \/ checkout.addons = {}
  BY <1>1 DEF CheckSubscription, CheckAddons, Blocks, Fine
<1>8. /\ MatchesLabel(checkout.address, terms.requireAddressMatch, terms.expectedAddress)
      /\ MatchesLabel(checkout.payment, terms.requirePaymentMatch, terms.expectedPayment)
      /\ checkout.button
  BY <1>1 DEF CheckAddress, CheckPayment, CheckPlaceOrderControl, Blocks, Fine
<1>9. checkout.orderTotal # NoMoney /\ AtMost(checkout.orderTotal, terms.maxOrderTotal)
  BY TotalIsWithinLimit
<1> QED
  BY <1>2, <1>3, <1>4, <1>5, <1>6, <1>7, <1>8, <1>9 DEF target

-----------------------------------------------------------------------------
(* Reading the product page.                                                 *)

(* What is read off a chain is a text of it that was not refused, if any.    *)
LEMMA TextIsSaid ==
  ASSUME NEW chain, DOMAIN chain \subseteq Nat, NEW refused
  PROVE  Text(chain, refused) \in (Said(chain) \ refused) \union {NoText}
<1> DEFINE accepted == Accepted(chain, refused)
<1>1. CASE accepted = {}
  BY <1>1 DEF Text
<1>2. CASE accepted # {}
  <2>1. accepted \in SUBSET Nat
    BY DEF Accepted
  <2>2. Min(accepted) \in accepted
    <3> HIDE DEF accepted
    <3> QED
      BY <1>2, <2>1, LeastOf
  <2>3. Text(chain, refused) = chain[Min(accepted)].text
    BY <1>2 DEF Text
  <2>4. \A i \in accepted : chain[i].text \in Said(chain) \ refused
    BY DEF Accepted, Said
  <2> QED
    BY <2>2, <2>3, <2>4
<1> QED
  BY <1>1, <1>2

LEMMA AnyTextIsSaid ==
  ASSUME NEW chain, DOMAIN chain \subseteq Nat
  PROVE  AnyText(chain) \in Said(chain) \union {NoText}
BY TextIsSaid DEF AnyText

(* A text holds finitely many prices.                                        *)
LEMMA PricesAreFinite ==
  ASSUME NEW text, Len(text) \in Nat, DOMAIN text = 1 .. Len(text)
  PROVE  IsFiniteSet(ExtractPrices(text, "USD"))
<1> DEFINE f == [i \in Trailing(text) |->
                   FromDecimal(Normalised(Clipped(text[i].number)), text[SymbolAfter(text, i)].currency)]
           g == [i \in Tokens(text) |->
                   FromDecimal(Normalised(text[i].number),
                       IF SymbolBefore(text, i) = 0 THEN "USD" ELSE text[SymbolBefore(text, i)].currency)]
           After == {f[i] : i \in Trailing(text)}
           Others == {g[i] : i \in Tokens(text)}
<1>1. ExtractPrices(text, "USD") = After \union Others
  BY DEF ExtractPrices
<1>2. IsFiniteSet(Trailing(text)) /\ IsFiniteSet(Tokens(text))
  <2>1. Trailing(text) \subseteq 1 .. Len(text) /\ Tokens(text) \subseteq 1 .. Len(text)
    BY DEF Trailing, Tokens, Numbers
  <2>2. IsFiniteSet(1 .. Len(text))
    BY FS_Interval
  <2> QED
    BY <2>1, <2>2, FS_Subset
<1>3. f \in Surjection(Trailing(text), After)
  BY DEF Surjection
<1>4. g \in Surjection(Tokens(text), Others)
  BY DEF Surjection
<1> HIDE DEF f, g, After, Others
<1> QED
  BY <1>1, <1>2, <1>3, <1>4, FS_Surjection, FS_Union

(* The strict parser gives the price that is in the text, or none.           *)
LEMMA StrictIsThePrice ==
  ASSUME NEW text, NEW price, IsFiniteSet(ExtractPrices(text, "USD")),
         ExtractPrices(text, "USD") # {} => price \in ExtractPrices(text, "USD")
  PROVE  ParseMoney(text, "USD") \in {price, NoMoney}
<1> DEFINE prices == ExtractPrices(text, "USD")
<1>1. ASSUME Cardinality(prices) = 1
      PROVE  (CHOOSE p \in prices : TRUE) = price
  <2>1. PICK p : prices = {p}
    BY <1>1, FS_Singleton
  <2> HIDE DEF prices
  <2>2. (CHOOSE q \in prices : TRUE) \in prices
    BY <2>1
  <2>3. price = p
    BY <2>1 DEF prices
  <2> QED
    BY <2>1, <2>2, <2>3
<1> QED
  BY <1>1 DEF ParseMoney

(* The ceiling parser gives none, or one no lower.                           *)
LEMMA CeilingIsAtLeast ==
  ASSUME NEW text, NEW price, IsFiniteSet(ExtractPrices(text, "USD")),
         \A p \in ExtractPrices(text, "USD") : p.cents \in Int,
         ExtractPrices(text, "USD") # {} => price \in ExtractPrices(text, "USD")
  PROVE  LET ceiling == ParseMoneyCeiling(text, "USD")
         IN  ceiling # NoMoney => ceiling.cents \in Int /\ AtMost(price, ceiling)
<1> DEFINE prices == ExtractPrices(text, "USD")
           currencies == {p.currency : p \in prices}
           highest == CHOOSE p \in prices : \A q \in prices : q.cents <= p.cents
<1>1. ParseMoneyCeiling(text, "USD") = IF Cardinality(currencies) # 1 THEN NoMoney ELSE highest
  BY DEF ParseMoneyCeiling
<1>2. ASSUME Cardinality(currencies) = 1
      PROVE  highest.cents \in Int /\ AtMost(price, highest)
  <2>1. IsFiniteSet(currencies)
    <3> DEFINE f == [p \in prices |-> p.currency]
    <3>1. f \in Surjection(prices, currencies)
      BY DEF Surjection
    <3> HIDE DEF f, currencies
    <3> QED
      BY <3>1, FS_Surjection
  <2>2. PICK c : currencies = {c}
    <3> HIDE DEF currencies
    <3> QED
      BY <1>2, <2>1, FS_Singleton
  <2>3. prices # {}
    BY <2>2
  <2> HIDE DEF prices
  <2>4. highest \in prices /\ \A q \in prices : q.cents <= highest.cents
    <3>1. \E p \in prices : \A q \in prices : q.cents <= p.cents
      BY <2>3, HighestExists DEF prices
    <3> QED
      BY <3>1
  <2>5. price \in prices /\ \A p \in prices : p.cents \in Int /\ p.currency = c
    BY <2>2, <2>3 DEF prices
  <2> HIDE DEF highest
  <2> QED
    BY <2>4, <2>5 DEF AtMost
<1> HIDE DEF currencies, highest
<1> QED
  BY <1>1, <1>2

(* The split markup gives none, or the price.                                *)
LEMMA SplitIsThePrice ==
  ASSUME NEW price \in [cents : Nat, currency : {"USD"}], NEW whole, NEW open, NEW fraction,
         whole.v = price.cents \div 100, ~open => price.cents % 100 = 0,
         fraction.v \in Nat, fraction.n \in Nat,
         fraction.n = 0 => fraction.v = 0,
         fraction.n = 1 => fraction.v * 10 = price.cents % 100,
         fraction.n = 2 => fraction.v = price.cents % 100
  PROVE  ParseSplitPrice(whole, open, fraction, "USD") \in {price, NoMoney}
<1> DEFINE split == ParseSplitPrice(whole, open, fraction, "USD")
           cents == whole.v * 10 ^ 2 + fraction.v * 10 ^ (2 - fraction.n)
<1>1. \/ split = NoMoney
      \/ split = Amount(cents, "USD") /\ ~ (fraction.n > 2) /\ ~ (fraction.n = 0 /\ open)
  <2>1. MinorUnits("USD") = 2
    BY DEF MinorUnits, ZeroDecimalCurrencies
  <2>2. split = IF whole.n = 0 THEN NoMoney
                ELSE IF 2 = 0 THEN Amount(whole.v, "USD")
                ELSE IF fraction.n > 2 \/ (fraction.n = 0 /\ open) THEN NoMoney
                ELSE Amount(cents, "USD")
    BY <2>1, Zenon DEF ParseSplitPrice
  <2> HIDE DEF split, cents
  <2> QED
    BY <2>2
<1>2. ASSUME ~ (fraction.n > 2), ~ (fraction.n = 0 /\ open)
      PROVE  cents = price.cents
  <2>1. 10 ^ 0 = 1
    OBVIOUS
  <2>2. 10 ^ 1 = 10
    OBVIOUS
  <2>3. 10 ^ 2 = 100
    OBVIOUS
  <2>4. (price.cents \div 100) * 100 + (price.cents % 100) = price.cents
    <3>1. \A c \in Nat : (c \div 100) * 100 + (c % 100) = c
      OBVIOUS
    <3> QED
      BY <3>1
  <2>5. CASE fraction.n = 0
    <3>1. 10 ^ (2 - fraction.n) = 100
      <4>1. 2 - fraction.n = 2
        BY <2>5
      <4> QED
        BY <4>1, <2>3
    <3>2. fraction.v = 0 /\ price.cents % 100 = 0
      BY <1>2, <2>5
    <3>3. whole.v * 100 = price.cents /\ whole.v \in Int
      BY <2>4, <3>2
    <3> QED
      BY <3>1, <3>2, <3>3, <2>3
  <2>6. CASE fraction.n = 1
    <3>1. 10 ^ (2 - fraction.n) = 10
      <4>1. 2 - fraction.n = 1
        BY <2>6
      <4> QED
        BY <4>1, <2>2
    <3> QED
      BY <2>3, <2>4, <2>6, <3>1
  <2>7. CASE fraction.n = 2
    <3>1. 10 ^ (2 - fraction.n) = 1
      <4>1. 2 - fraction.n = 0
        BY <2>7
      <4> QED
        BY <4>1, <2>1
    <3> QED
      BY <2>3, <2>4, <2>7, <3>1
  <2>8. fraction.n \in {0, 1, 2}
    BY <1>2
  <2> QED
    BY <2>5, <2>6, <2>7, <2>8
<1>3. Amount(price.cents, "USD") = price
  BY DEF Amount
<1> QED
  BY <1>1, <1>2, <1>3

(* However much of the page was missed, the price that is read is not below  *)
(* the one that is asked.                                                    *)
LEMMA ReadPriceIsAtLeast ==
  ASSUME NEW page, NEW price \in [cents : Nat, currency : {"USD"}], SaysPrice(page, price),
         \A key \in Chains : DOMAIN page[key] \subseteq Nat
  PROVE  ReadPrice(page) # NoMoney => ReadPrice(page).cents \in Int /\ AtMost(price, ReadPrice(page))
<1> DEFINE Fair(money) == money # NoMoney => money.cents \in Int /\ AtMost(price, money)
           text == AnyText(page.price)
           whole == AnyText(page.whole)
           fraction == AnyText(page.fraction)
           digits == IF fraction = NoText THEN [v |-> 0, n |-> 0] ELSE fraction.digits
<1>1. /\ text \in Said(page.price) \union {NoText}
      /\ whole \in Said(page.whole) \union {NoText}
      /\ fraction \in Said(page.fraction) \union {NoText}
  BY AnyTextIsSaid DEF Chains
<1> HIDE DEF text, whole, fraction
<1>2. Fair(price)
  BY DEF AtMost
<1>3. ASSUME text # NoText
      PROVE  Fair(ParseMoney(text, "USD")) /\ Fair(ParseMoneyCeiling(text, "USD"))
  <2>1. /\ Len(text) \in Nat /\ DOMAIN text = 1 .. Len(text)
        /\ \A p \in ExtractPrices(text, "USD") : p.cents \in Nat
        /\ ExtractPrices(text, "USD") # {} => price \in ExtractPrices(text, "USD")
    BY <1>1, <1>3 DEF SaysPrice
  <2>2. IsFiniteSet(ExtractPrices(text, "USD")) /\ \A p \in ExtractPrices(text, "USD") : p.cents \in Int
    BY <2>1, PricesAreFinite
  <2>3. ParseMoney(text, "USD") \in {price, NoMoney}
    BY <2>1, <2>2, StrictIsThePrice
  <2> QED
    BY <1>2, <2>1, <2>2, <2>3, CeilingIsAtLeast
<1>4. ASSUME whole # NoText
      PROVE  Fair(ParseSplitPrice(whole.digits, whole.open, digits, "USD"))
  <2>1. whole.digits.v = price.cents \div 100 /\ (~whole.open => price.cents % 100 = 0)
    BY <1>1, <1>4 DEF SaysPrice
  <2>2. /\ digits.v \in Nat /\ digits.n \in Nat
        /\ digits.n = 0 => digits.v = 0
        /\ digits.n = 1 => digits.v * 10 = price.cents % 100
        /\ digits.n = 2 => digits.v = price.cents % 100
    <3>1. CASE fraction = NoText
      BY <3>1
    <3>2. CASE fraction # NoText
      BY <1>1, <3>2 DEF SaysPrice
    <3> QED
      BY <3>1, <3>2
  <2> HIDE DEF digits
  <2>3. ParseSplitPrice(whole.digits, whole.open, digits, "USD") \in {price, NoMoney}
    BY <2>1, <2>2, SplitIsThePrice
  <2> QED
    BY <1>2, <2>3
<1>5. \/ ReadPrice(page) = NoMoney
      \/ text # NoText /\ ReadPrice(page) \in {ParseMoney(text, "USD"), ParseMoneyCeiling(text, "USD")}
      \/ whole # NoText /\ ReadPrice(page) = ParseSplitPrice(whole.digits, whole.open, digits, "USD")
  <2>1. CASE text # NoText /\ ParseMoney(text, "USD") # NoMoney /\ ~Loose(page.price)
    BY <2>1 DEF ReadPrice, text
  <2>2. CASE /\ text # NoText /\ ParseMoneyCeiling(text, "USD") # NoMoney
             /\ ParseMoney(text, "USD") = NoMoney \/ Loose(page.price)
    BY <2>2 DEF ReadPrice, text
  <2>3. CASE \/ text = NoText
             \/ /\ ParseMoneyCeiling(text, "USD") = NoMoney
                /\ ParseMoney(text, "USD") = NoMoney \/ Loose(page.price)
    BY <2>3 DEF ReadPrice, text, whole, fraction
  <2> QED
    BY <2>1, <2>2, <2>3
<1> HIDE DEF digits
<1> QED
  BY <1>3, <1>4, <1>5

LEMMA ReadSellerIsTheSeller ==
  ASSUME NEW page, NEW seller, SaysSeller(page, seller), DOMAIN page.seller \subseteq Nat
  PROVE  ReadSeller(page) \in {seller, NoText}
BY TextIsSaid DEF ReadSeller, SaysSeller

(* A condition that is read is the offer's, with one exception: an offer that *)
(* the box does not tell of is read as new when neither the caption of the    *)
(* selected offer nor the label was found.                                    *)
LEMMA ReadConditionIsTheCondition ==
  ASSUME NEW page, NEW condition, NEW told, SaysCondition(page, condition, told),
         DOMAIN page.condition \subseteq Nat
  PROVE  \/ ReadCondition(page) \in {condition, "unknown"}
         \/ /\ told # "box" /\ ReadCondition(page) = "new"
            /\ ActiveCondition(page) = "unknown" /\ LabelledCondition(page) = "unknown"
<1>1. ActiveCondition(page) \in {condition, "unknown"}
  <2> DEFINE caption == Attribute(page.activeOffer)
             named == caption \cap Conditions
  <2>1. CASE caption # NoText /\ "used phrase" \in caption /\ named # {}
    <3>1. named \subseteq {condition}
      BY <2>1 DEF SaysCondition
    <3>2. ActiveCondition(page) \in named
      BY <2>1 DEF ActiveCondition
    <3> QED
      BY <3>1, <3>2
  <2>2. CASE caption # NoText /\ "used phrase" \in caption /\ named = {}
    <3>1. ActiveCondition(page) = "used"
      BY <2>2 DEF ActiveCondition
    <3> QED
      BY <2>2, <3>1 DEF SaysCondition
  <2>3. CASE caption # NoText /\ "used phrase" \notin caption /\ "new phrase" \in caption
    <3>1. ActiveCondition(page) = "new"
      BY <2>3 DEF ActiveCondition
    <3> QED
      BY <2>3, <3>1 DEF SaysCondition
  <2>4. CASE caption = NoText \/ ("used phrase" \notin caption /\ "new phrase" \notin caption)
    BY <2>4 DEF ActiveCondition
  <2> QED
    BY <2>1, <2>2, <2>3, <2>4
<1>2. LabelledCondition(page) \in {condition, "unknown"}
  BY AnyTextIsSaid DEF LabelledCondition, SaysCondition
<1>3. Attribute(page.buyBox) # NoText /\ "used phrase" \notin WithoutAlternatives(page) /\ told = "box"
         => condition = "new"
  BY DEF SaysCondition
<1> QED
  BY <1>1, <1>2, <1>3 DEF ReadCondition

LEMMA RecurringIsSeen ==
  ASSUME NEW page, SaysRecurring(page, TRUE), DOMAIN page.buyBox \subseteq Nat
  PROVE  ReadSubscriptionPreselected(page)
<1>1. AnyText(page.buyBox) \in Said(page.buyBox) \union {NoText}
  BY AnyTextIsSaid
<1>2. OffersSubscription(page)
  BY <1>1 DEF OffersSubscription, SaysRecurring
<1>3. ~OneTimeIsSelected(page)
  BY DEF OneTimeIsSelected, SaysRecurring
<1> QED
  BY <1>2, <1>3 DEF ReadSubscriptionPreselected

LEMMA SoldOutIsSeen ==
  ASSUME NEW page, SaysStock(page, FALSE), DOMAIN page.availability \subseteq Nat
  PROVE  ReadAvailability(page) # "in_stock"
<1>1. AnyText(page.availability) \in Said(page.availability) \union {NoText}
  BY AnyTextIsSaid
<1>2. AnyText(page.availability) # NoText /\ "in" \in AnyText(page.availability)
         => "out" \in AnyText(page.availability)
  BY <1>1 DEF SaysStock
<1>3. ~HasBuyControl(page)
  BY DEF SaysStock
<1> QED
  BY <1>2, <1>3 DEF ReadAvailability

(* A snapshot of an offer says nothing that is not so, except that its price *)
(* may be above the one that is asked.                                       *)
LEMMA SnapshotIsTrue ==
  ASSUME NEW f \in Facts, NEW missed \in SUBSET Missable
  PROVE  LET snapshot == Parse(Render(f, missed), Asin)
         IN  /\ snapshot.price.cents \in Int
             /\ snapshot.price # NoMoney => AtMost(f.price, snapshot.price)
             /\ snapshot.seller \in {f.seller, NoText}
             /\ f.told = "box" => snapshot.condition \in {f.condition, "unknown"}
             /\ f.recurring => snapshot.subscription
             /\ snapshot.availability = "in_stock" => f.inStock
<1> DEFINE page == Render(f, missed)
           snapshot == Parse(page, Asin)
<1>1. /\ Says(page, f) /\ f.price \in [cents : Nat, currency : {"USD"}]
      /\ \A key \in Chains : DOMAIN page[key] \subseteq Nat
  BY PageAssumption, FactsAssumption
<1> HIDE DEF page
<1>2. /\ DOMAIN page.seller \subseteq Nat /\ DOMAIN page.condition \subseteq Nat
      /\ DOMAIN page.buyBox \subseteq Nat /\ DOMAIN page.availability \subseteq Nat
  BY <1>1 DEF Chains
<1>3. /\ snapshot.price = ReadPrice(page) /\ snapshot.seller = ReadSeller(page)
      /\ snapshot.condition = ReadCondition(page) /\ snapshot.availability = ReadAvailability(page)
      /\ snapshot.subscription = ReadSubscriptionPreselected(page)
  BY DEF Parse
<1> HIDE DEF snapshot
<1>4. /\ snapshot.price.cents \in Int
      /\ snapshot.price # NoMoney => AtMost(f.price, snapshot.price)
  <2>1. ReadPrice(page) # NoMoney => ReadPrice(page).cents \in Int /\ AtMost(f.price, ReadPrice(page))
    BY <1>1, ReadPriceIsAtLeast DEF Says
  <2> QED
    BY <1>3, <2>1 DEF NoMoney
<1>5. snapshot.seller \in {f.seller, NoText}
  BY <1>1, <1>2, <1>3, ReadSellerIsTheSeller DEF Says
<1>6. f.told = "box" => snapshot.condition \in {f.condition, "unknown"}
  BY <1>1, <1>2, <1>3, ReadConditionIsTheCondition DEF Says
<1>7. f.recurring => snapshot.subscription
  BY <1>1, <1>2, <1>3, RecurringIsSeen DEF Says, SaysRecurring
<1>8. snapshot.availability = "in_stock" => f.inStock
  BY <1>1, <1>2, <1>3, SoldOutIsSeen DEF Says, SaysStock
<1> QED
  BY <1>4, <1>5, <1>6, <1>7, <1>8 DEF snapshot, page

LEMMA InspectKeeps == InspectionInv /\ Inspect => InspectionInv'
<1> SUFFICES ASSUME InspectionInv, Inspect
             PROVE  InspectionInv'
  OBVIOUS
<1>1. /\ shown = None /\ report = None /\ UNCHANGED <<offer, report>>
      /\ rules' = SuggestRules(shown', DefaultRules)
  BY DEF Inspect, InspectionInv
<1>2. PICK missed \in SUBSET Missable : shown' = Parse(Render(offer, missed), Asin)
  BY DEF Inspect
<1>3. shown'.price.cents \in Int
  BY <1>2, SnapshotIsTrue DEF InspectionInv
<1>4. rules'.maxItemPrice = shown'.price /\ rules'.expectedSeller = shown'.seller
  BY <1>1, RulesAssumption DEF SuggestRules
<1> QED
  BY <1>1, <1>3, <1>4 DEF InspectionInv, WhatPassesIsWhatWasShown

LEMMA CheckAgainKeeps == InspectionInv /\ CheckAgain => InspectionInv'
<1> SUFFICES ASSUME InspectionInv, CheckAgain
             PROVE  InspectionInv'
  OBVIOUS
<1>1. shown # None /\ UNCHANGED <<offer, shown, rules>>
  BY DEF CheckAgain
<1>2. PICK missed \in SUBSET Missable : report' = CheckProduct(rules, Parse(Render(offer, missed), Asin))
  BY DEF CheckAgain
<1> DEFINE seen == Parse(Render(offer, missed), Asin)
<1>3. /\ rules.maxItemPrice = shown.price /\ shown.price.cents \in Int
      /\ rules.expectedSeller = shown.seller
  BY <1>1 DEF InspectionInv
<1>4. /\ offer \in Facts /\ offer.price \in [cents : Nat, currency : {"USD"}]
      /\ seen.price.cents \in Int
      /\ seen.price # NoMoney => AtMost(offer.price, seen.price)
      /\ seen.seller \in {offer.seller, NoText}
      /\ offer.told = "box" => seen.condition \in {offer.condition, "unknown"}
      /\ offer.recurring => seen.subscription
      /\ seen.availability = "in_stock" => offer.inStock
  BY SnapshotIsTrue, FactsAssumption DEF InspectionInv
<1> HIDE DEF seen
<1>5. ASSUME Passed(CheckProduct(rules, seen))
      PROVE  /\ shown.price # NoMoney => AtMost(offer.price, shown.price)
             /\ SellerAllowed(rules, offer.seller)
             /\ shown.seller # NoText => Norm[offer.seller] = Norm[shown.seller]
             /\ offer.told = "box" => ConditionAllowed(rules.conditionPolicy, offer.condition)
             /\ offer.recurring => rules.allowSubscription
             /\ offer.inStock
  <2>1. /\ seen.availability = "in_stock"
        /\ rules.sellerPolicy # "any" => Norm[seen.seller] # NoText
        /\ rules.expectedSeller # NoText => Norm[seen.seller] = Norm[rules.expectedSeller]
        /\ seen.subscription => rules.allowSubscription
        /\ seen.price # NoMoney
        /\ rules.maxItemPrice # NoMoney => AtMost(seen.price, rules.maxItemPrice)
    BY <1>3, <1>4, <1>5, UnreadProductIsRefused
  <2>2. /\ ConditionAllowed(rules.conditionPolicy, seen.condition) /\ SellerAllowed(rules, seen.seller)
        /\ rules.expectedSeller # NoText => Norm[seen.seller] # NoText
    <3>1. ~Blocks(CheckCondition(rules, seen)) /\ ~Blocks(CheckSeller(rules, seen)) /\ ~Blocks(CheckSellerChanged(rules, seen))
      BY <1>5 DEF Passed, CheckProduct
    <3> QED
      BY <3>1 DEF CheckCondition, CheckSeller, CheckSellerChanged, Blocks, Fine
  <2>3. shown.price # NoMoney => AtMost(offer.price, shown.price)
    BY <1>3, <1>4, <2>1 DEF AtMost
  <2>4. SellerAllowed(rules, offer.seller)
    <3>1. CASE rules.sellerPolicy = "any"
      BY <3>1 DEF SellerAllowed
    <3>2. CASE rules.sellerPolicy # "any"
      BY <1>4, <2>1, <2>2, <3>2, NoTextAssumption
    <3> QED
      BY <3>1, <3>2
  <2>5. shown.seller # NoText => Norm[offer.seller] = Norm[shown.seller]
    BY <1>3, <1>4, <2>1, <2>2, NoTextAssumption
  <2>6. offer.told = "box" => ConditionAllowed(rules.conditionPolicy, offer.condition)
    BY <1>4, <2>2 DEF ConditionAllowed
  <2> QED
    BY <1>4, <2>1, <2>3, <2>4, <2>5, <2>6
<1>6. report' = CheckProduct(rules, seen)
  BY <1>2 DEF seen
<1>7. WhatPassesIsWhatWasShown'
  BY <1>1, <1>5, <1>6 DEF WhatPassesIsWhatWasShown
<1> QED
  BY <1>1, <1>7 DEF InspectionInv

LEMMA InspectionStays == InspectionInv /\ [InspectionNext]_inspectionVars => InspectionInv'
<1> SUFFICES ASSUME InspectionInv, [InspectionNext]_inspectionVars
             PROVE  InspectionInv'
  OBVIOUS
<1>1. CASE Inspect
  BY <1>1, InspectKeeps
<1>2. CASE MarketMoves
  <2>1. report = None /\ offer' \in Facts /\ UNCHANGED <<shown, rules, report>>
    BY <1>2 DEF MarketMoves
  <2> QED
    BY <2>1 DEF InspectionInv, WhatPassesIsWhatWasShown
<1>3. CASE CheckAgain
  BY <1>3, CheckAgainKeeps
<1>4. CASE UNCHANGED inspectionVars
  BY <1>4 DEF inspectionVars, InspectionInv, WhatPassesIsWhatWasShown
<1> QED
  BY <1>1, <1>2, <1>3, <1>4 DEF InspectionNext

(* The rules are those of what was shown, and a snapshot that passes them is *)
(* one of an offer that is no worse; for the condition, of an offer whose    *)
(* box tells of it.                                                          *)
THEOREM InspectionInvariance == InspectionSpec => []InspectionInv
<1>1. InspectionInit => InspectionInv
  BY FactsAssumption DEF InspectionInit, InspectionInv, WhatPassesIsWhatWasShown
<1> QED
  BY <1>1, InspectionStays, PTL DEF InspectionSpec

(* The market may move between the two looks and any part of either page be  *)
(* missed: what passes costs no more than was shown, comes from the seller   *)
(* that was shown, from stock, and does not recur unless that is allowed.    *)
(* It is in a condition that was asked for, if its box tells of its          *)
(* condition once the alternative offers are taken out; of an offer that     *)
(* only the used row tells of, or unlisted wording, the theorem says nothing *)
(* here, and ReadConditionIsTheCondition says what it takes to miss it.      *)
(* That a recurring offer's words are on the page and a sold-out one has no  *)
(* buy button is assumed of Amazon (PageAssumption).                         *)
THEOREM WhatPassesWasShown == InspectionSpec => []WhatPassesIsWhatWasShown
<1>1. InspectionInv => WhatPassesIsWhatWasShown
  BY DEF InspectionInv
<1> QED
  BY InspectionInvariance, <1>1, PTL

-----------------------------------------------------------------------------
(* The order page.                                                           *)

(* The first known of several values is one of them.                         *)
LEMMA FirstOfValues ==
  ASSUME NEW values, DOMAIN values \subseteq Nat, NEW none
  PROVE  FirstOf(values, none) = none \/ \E i \in DOMAIN values : FirstOf(values, none) = values[i]
<1> DEFINE known == {i \in DOMAIN values : values[i] # none}
<1>1. FirstOf(values, none) = IF known = {} THEN none ELSE values[Min(known)]
  BY DEF FirstOf
<1>2. known \in SUBSET Nat /\ known \subseteq DOMAIN values
  OBVIOUS
<1> HIDE DEF known
<1> QED
  BY <1>1, <1>2, LeastOf

LEMMA FirstOfTwo ==
  ASSUME NEW a, NEW b, NEW none
  PROVE  FirstOf(<<a, b>>, none) \in {a, b, none}
<1>1. DOMAIN <<a, b>> = {1, 2} /\ <<a, b>>[1] = a /\ <<a, b>>[2] = b
  OBVIOUS
<1> QED
  BY <1>1, FirstOfValues

(* Of prices none of which is above the shown one, the highest is that one.  *)
LEMMA HighestIsShown ==
  ASSUME NEW prices, NEW price, price.cents \in Nat, ShowsHighest(prices, price), prices # {}
  PROVE  HighestOf(prices) = price
<1>1. price \in prices /\ \A p \in prices \ {price} : p.cents \in 0 .. (price.cents - 1)
  BY DEF ShowsHighest
<1>2. \A q \in prices : q.cents <= price.cents
  BY <1>1
<1>3. HighestOf(prices) \in prices /\ \A q \in prices : q.cents <= HighestOf(prices).cents
  BY <1>1, <1>2 DEF HighestOf
<1>4. HighestOf(prices).cents \notin 0 .. (price.cents - 1)
  BY <1>1, <1>3
<1> QED
  BY <1>1, <1>3, <1>4

LEMMA SummaryIsShown ==
  ASSUME NEW doc, NEW key, NEW price, price.cents \in Nat, ShowsHighest(PricesOf(doc, key), price)
  PROVE  SummaryValue(doc, key) \in {price, NoMoney}
BY HighestIsShown DEF SummaryValue

LEMMA CeilingIsShown ==
  ASSUME NEW text, NEW price, price.cents \in Nat, ShowsHighest(ExtractPrices(text, "USD"), price)
  PROVE  ParseMoneyCeiling(text, "USD") \in {price, NoMoney}
<1> DEFINE prices == ExtractPrices(text, "USD")
<1>1. ASSUME prices # {}
      PROVE  (CHOOSE p \in prices : \A q \in prices : q.cents <= p.cents) = price
  BY <1>1, HighestIsShown DEF HighestOf
<1>2. ASSUME prices = {}
      PROVE  ParseMoneyCeiling(text, "USD") = NoMoney
  <2>1. {p.currency : p \in prices} = {}
    BY <1>2
  <2> QED
    BY <2>1, FS_EmptySet DEF ParseMoneyCeiling
<1> QED
  BY <1>1, <1>2 DEF ParseMoneyCeiling

(* The total that is read is the order's own, or none.                       *)
LEMMA ShownTotal ==
  ASSUME NEW o \in Orders, NEW missed \in SUBSET Unreadable
  PROVE  ReadCheckout(Display(o, missed)).orderTotal \in {o.total, NoMoney}
<1>1. ShowsHighest(PricesOf(Document(Display(o, missed)), "total"), o.total)
  BY DisplayAssumption DEF ShowsOrder
<1>2. o.total.cents \in Nat
  BY OrderPageAssumption DEF Dollars
<1> QED
  BY <1>1, <1>2, SummaryIsShown DEF ReadCheckout

(* What an item's row says, as far as it could be read, is so.               *)
LEMMA ItemLine ==
  ASSUME NEW row, NEW o \in Orders, ShowsItem(row, o)
  PROVE  LET line == LineOf(row)
         IN  /\ line.asin \in {o.item, NoText}
             /\ line.title \in {row.title, row.text, NoText}
             /\ line.quantity \in {o.quantity, NoQuantity}
             /\ line.unitPrice \in {o.unitPrice, NoMoney}
<1>1. RowAsin(row) \in {o.item, NoText}
  BY FirstOfTwo DEF RowAsin, ShowsItem
<1>2. FirstOf(<<row.title, row.text>>, NoText) \in {row.title, row.text, NoText}
  BY FirstOfTwo
<1>3. LineQuantity(row) \in {o.quantity, NoQuantity}
  BY FirstOfTwo DEF LineQuantity, ShowsItem
<1>4. LinePrice(row) \in {o.unitPrice, NoMoney}
  <2> DEFINE values == [i \in DOMAIN row.prices |-> ParseMoneyCeiling(row.prices[i], "USD")]
  <2>1. DOMAIN values = DOMAIN row.prices /\ DOMAIN values \subseteq Nat
    BY DEF ShowsItem
  <2>2. ASSUME NEW i \in DOMAIN values
        PROVE  values[i] \in {o.unitPrice, NoMoney}
    <3>1. ShowsHighest(ExtractPrices(row.prices[i], "USD"), o.unitPrice)
      BY <2>1, <2>2 DEF ShowsItem
    <3>2. o.unitPrice.cents \in Nat
      BY OrderPageAssumption DEF Dollars
    <3>3. ParseMoneyCeiling(row.prices[i], "USD") \in {o.unitPrice, NoMoney}
      BY <3>1, <3>2, CeilingIsShown
    <3> QED
      BY <2>1, <2>2, <3>3
  <2>3. LinePrice(row) = FirstOf(values, NoMoney)
    BY DEF LinePrice
  <2> HIDE DEF values
  <2> QED
    BY <2>1, <2>2, <2>3, FirstOfValues
<1> QED
  BY <1>1, <1>2, <1>3, <1>4 DEF LineOf

(* No line is added to those on the page, and none is left out.              *)
LEMMA LinesAreRead ==
  ASSUME NEW doc, NEW o, ShowsOrder(doc, o)
  PROVE  /\ DOMAIN ReadLines(doc) = DOMAIN doc.lines
         /\ \A i \in DOMAIN doc.lines : ReadLines(doc)[i] = LineOf(doc.lines[i])
<1>1. DOMAIN doc.lines \subseteq {1, 2} /\ \A i \in DOMAIN doc.lines : doc.lines[i].text # NoText
  BY DEF ShowsOrder
<1> DEFINE filled == {i \in DOMAIN doc.lines : doc.lines[i].text # NoText \/ RowAsin(doc.lines[i]) # NoText}
           places == {i \in filled : i <= LineBound}
<1>2. places = DOMAIN doc.lines
  BY <1>1 DEF LineBound
<1>3. ReadLines(doc) = [i \in places |-> LineOf(doc.lines[i])]
  BY DEF ReadLines
<1> HIDE DEF places
<1> QED
  BY <1>2, <1>3

(* The units of a single line are its own.                                   *)
LEMMA UnitsOfOne ==
  ASSUME NEW lines, NEW k, DOMAIN lines = {k}, lines[k].quantity \in Nat
  PROVE  Units(lines) = lines[k].quantity
<1> DEFINE first(s) == CHOOSE x \in s : TRUE
           units(i) == IF lines[i].quantity = NoQuantity THEN 0 ELSE lines[i].quantity
           Sums(sum) == sum = [s \in SUBSET {k} |-> IF s = {} THEN 0 ELSE LET x == first(s) IN units(x) + sum[s \ {x}]]
           total == [s \in SUBSET {k} |-> IF s = {} THEN 0 ELSE lines[k].quantity]
           chosen == CHOOSE sum : Sums(sum)
<1>1. Units(lines) = chosen[{k}]
  BY DEF Units, MapThenSumSet, MapThenFoldSet
<1>2. units(k) = lines[k].quantity
  BY DEF NoQuantity
<1>3. first({k}) = k /\ \A s \in SUBSET {k} : s = {} \/ s = {k}
  OBVIOUS
<1> HIDE DEF first, units
<1>4. Sums(total)
  <2>1. ASSUME NEW s \in SUBSET {k}
        PROVE  total[s] = IF s = {} THEN 0 ELSE LET x == first(s) IN units(x) + total[s \ {x}]
    <3>1. CASE s = {}
      BY <3>1
    <3>2. CASE s = {k}
      <4>1. s \ {k} = {} /\ s # {} /\ total[{}] = 0 /\ total[s] = lines[k].quantity
        BY <3>2
      <4>2. first(s) = k
        BY <1>3, <3>2
      <4>3. total[s] = units(k) + total[s \ {k}]
        BY <1>2, <4>1
      <4> QED
        BY <4>1, <4>2, <4>3
    <3> QED
      BY <1>3, <3>1, <3>2
  <2> QED
    BY <2>1
<1>5. Sums(chosen)
  <2> HIDE DEF total, Sums
  <2> QED
    BY <1>4
<1> HIDE DEF chosen
<1>6. chosen[{}] = 0
  BY <1>5
<1>7. chosen[{k}] = units(first({k})) + chosen[{k} \ {first({k})}]
  BY <1>5
<1>8. {k} \ {k} = {}
  OBVIOUS
<1> QED
  BY <1>1, <1>2, <1>3, <1>6, <1>7, <1>8

(* An order that passes the final check is the one that was asked for.       *)
LEMMA PassedIsWanted ==
  ASSUME NEW o \in Orders, NEW missed \in SUBSET Unreadable,
         Passed(CheckFinal(OrderRules, OrderProduct, ReadCheckout(Display(o, missed))))
  PROVE  /\ Code[o.item] = Code[OrderRules.asin] /\ ~o.extra
         /\ o.quantity = OrderRules.quantity
         /\ OrderRules.maxItemPrice # NoMoney => AtMost(o.unitPrice, OrderRules.maxItemPrice)
         /\ OrderRules.requireAddressMatch /\ OrderRules.expectedAddress # NoText
               => Norm[o.address] = Norm[OrderRules.expectedAddress]
<1> DEFINE doc == Document(Display(o, missed))
           lines == ReadLines(doc)
           checkout == ReadCheckout(Display(o, missed))
           target == TargetLines(OrderRules, checkout, OrderProduct)
<1>1. ShowsOrder(doc, o)
  BY DisplayAssumption
<1>2. /\ o.unitPrice.cents \in Nat /\ o.quantity \in Nat
      /\ OrderRules.maxItemPrice.cents \in Int /\ OrderRules.maxOrderTotal.cents \in Int /\ OrderRules.quantity \in Int
  BY OrderPageAssumption, LimitAssumption DEF Dollars
<1>3. /\ checkout.lines = lines /\ checkout.itemSubtotal = SummaryValue(doc, "items")
      /\ checkout.subscription = doc.subscription /\ checkout.address = Answer(doc.address)
  BY DEF ReadCheckout
<1>4. checkout.orderTotal.cents \in Int
  BY ShownTotal, OrderPageAssumption DEF Dollars, NoMoney
<1>5. DOMAIN lines = DOMAIN doc.lines /\ \A i \in DOMAIN lines : lines[i] = LineOf(doc.lines[i])
  BY <1>1, LinesAreRead
<1>6. ~Empty(target) /\ DOMAIN target = DOMAIN lines
  BY <1>3, TargetIsTheOrder
<1>7. \/ \A i \in DOMAIN lines : IsItem(OrderRules.asin, lines[i])
      \/ IdentifiedByTitle(checkout, OrderProduct)
  BY <1>3, <1>6, TargetIsNamed
<1> HIDE DEF lines, checkout, doc
<1>8. DOMAIN lines = {1} /\ ~o.extra
  <2>1. DOMAIN lines # {} /\ DOMAIN lines \in {{}, IF o.extra THEN {1, 2} ELSE {1}}
    BY <1>1, <1>5, <1>6 DEF ShowsOrder, Empty
  <2>2. ASSUME o.extra
        PROVE  FALSE
    <3>1. DOMAIN lines = {1, 2}
      BY <2>1, <2>2
    <3>2. ~IsItem(OrderRules.asin, lines[2])
      BY <1>1, <1>5, <3>1 DEF ShowsOrder
    <3>3. ~IdentifiedByTitle(checkout, OrderProduct)
      <4>1. \A i : {1, 2} # {i}
        OBVIOUS
      <4> QED
        BY <1>3, <3>1, <4>1 DEF IdentifiedByTitle
    <3> QED
      BY <1>7, <3>1, <3>2, <3>3
  <2> QED
    BY <2>1, <2>2
<1> DEFINE row == doc.lines[1]
           line == LineOf(row)
<1>9. lines[1] = line /\ ShowsItem(row, o)
  BY <1>1, <1>5, <1>8 DEF ShowsOrder
<1>10. /\ line.asin \in {o.item, NoText} /\ line.title \in {row.title, row.text, NoText}
       /\ line.quantity \in {o.quantity, NoQuantity} /\ line.unitPrice \in {o.unitPrice, NoMoney}
  BY <1>9, ItemLine
<1> HIDE DEF line
<1>11. Code[o.item] = Code[OrderRules.asin]
  <2>1. CASE IsItem(OrderRules.asin, lines[1])
    BY <1>9, <1>10, <2>1 DEF IsItem
  <2>2. CASE IdentifiedByTitle(checkout, OrderProduct)
    <3>1. /\ Norm[line.title] # NoText
          /\ Norm[line.title] \in {Norm[OrderProduct.title], BrandedTitle(OrderProduct)}
      BY <1>3, <1>8, <1>9, <2>2 DEF IdentifiedByTitle
    <3>2. line.title \in {row.title, row.text}
      BY <1>10, <3>1, NoTextAssumption
    <3> QED
      BY <1>9, <3>1, <3>2 DEF ShowsItem
  <2> QED
    BY <1>7, <1>8, <2>1, <2>2
<1>12. DOMAIN target = {1} /\ target[1] = line
  <2>1. target[1] = checkout.lines[1]
    BY <1>6, <1>8, TargetIsOfTheOrder
  <2> QED
    BY <1>3, <1>6, <1>8, <1>9, <2>1
<1>13. Range(target) = {line}
  BY <1>12 DEF Range
<1> HIDE DEF target
<1>14. /\ IF QuantityHidden(target) THEN QuantityFromSubtotal(OrderRules, checkout, target)
                                    ELSE Units(target) = OrderRules.quantity
       /\ OrderRules.maxItemPrice # NoMoney =>
             /\ line.unitPrice # NoMoney /\ line.unitPrice.currency = OrderRules.maxItemPrice.currency
             /\ line.unitPrice.cents <= OrderRules.maxItemPrice.cents
       /\ checkout.subscription => OrderRules.allowSubscription
       /\ MatchesLabel(checkout.address, OrderRules.requireAddressMatch, OrderRules.expectedAddress)
  <2>1. line.unitPrice.cents \in Int
    BY <1>2, <1>10 DEF NoMoney
  <2>2. IsFiniteSet(DOMAIN checkout.lines) /\ \A i \in DOMAIN checkout.lines : checkout.lines[i].unitPrice.cents \in Int
    BY <1>3, <1>8, <1>9, <2>1, FS_Singleton
  <2> QED
    BY <1>2, <1>4, <1>13, <2>2, UnreadOrderIsRefused DEF target, checkout
<1>15. o.quantity = OrderRules.quantity
  <2>1. CASE ~QuantityHidden(target)
    <3>1. line.quantity = o.quantity
      BY <1>10, <1>13, <2>1 DEF QuantityHidden
    <3> QED
      BY <1>2, <1>12, <1>14, <2>1, <3>1, UnitsOfOne
  <2>2. CASE QuantityHidden(target)
    <3>1. /\ checkout.itemSubtotal # NoMoney /\ line.unitPrice # NoMoney /\ line.unitPrice.cents > 0
          /\ line.unitPrice.cents * OrderRules.quantity = checkout.itemSubtotal.cents
      BY <1>12, <1>14, <2>2 DEF QuantityFromSubtotal
    <3> DEFINE subtotal == Amount(o.quantity * o.unitPrice.cents, "USD")
    <3>2. subtotal.cents = o.quantity * o.unitPrice.cents /\ subtotal.cents \in Nat
      BY <1>2 DEF Amount
    <3>3. ShowsHighest(PricesOf(doc, "items"), subtotal)
      BY <1>1 DEF ShowsOrder
    <3> HIDE DEF subtotal
    <3>4. checkout.itemSubtotal = subtotal
      BY <1>3, <3>1, <3>2, <3>3, SummaryIsShown
    <3>5. \A p \in Nat, q \in Nat, w \in Int : p > 0 /\ p * w = q * p => q = w
      OBVIOUS
    <3> QED
      BY <1>2, <1>10, <3>1, <3>2, <3>4, <3>5
  <2> QED
    BY <2>1, <2>2
<1>16. OrderRules.maxItemPrice # NoMoney => AtMost(o.unitPrice, OrderRules.maxItemPrice)
  BY <1>10, <1>14 DEF AtMost
<1>17. checkout.address \in {o.address, NoText}
  <2> DEFINE answers == [i \in DOMAIN doc.address |-> IF doc.address[i] \in Headings THEN NoText ELSE doc.address[i]]
  <2>1. Answer(doc.address) = FirstOf(answers, NoText)
    BY DEF Answer
  <2>2. DOMAIN answers \subseteq Nat /\ \A i \in DOMAIN answers : answers[i] \in {o.address, NoText}
    BY <1>1 DEF ShowsOrder, Range
  <2> HIDE DEF answers
  <2> QED
    BY <1>3, <2>1, <2>2, FirstOfValues
<1>18. OrderRules.requireAddressMatch /\ OrderRules.expectedAddress # NoText
         => Norm[o.address] = Norm[OrderRules.expectedAddress]
  BY <1>14, <1>17 DEF MatchesLabel
<1> QED
  BY <1>8, <1>11, <1>15, <1>16, <1>18

LEMMA CheckoutStarts == CheckoutInit => CheckoutInv
BY DEF CheckoutInit, Unsubmitted, CheckoutInv, AnswerIsAboutTheOrder, NoAnswer

LEMMA ApproveKeeps == CheckoutInv /\ Approve => CheckoutInv'
<1> SUFFICES ASSUME CheckoutInv, Approve
             PROVE  CheckoutInv'
  OBVIOUS
<1>1. approved = NoMoney /\ UNCHANGED <<order, submission, placed, answer>>
  BY DEF Approve
<1>2. submission.step = "none" /\ placed = NoOrder /\ ~answer.verified
  BY <1>1 DEF CheckoutInv
<1>3. PICK missed \in SUBSET Unreadable :
         /\ Passed(CheckFinal(OrderRules, OrderProduct, ReadCheckout(Display(order, missed))))
         /\ approved' = ReadCheckout(Display(order, missed)).orderTotal
  BY DEF Approve
<1>4. order \in Orders /\ approved' \in {order.total, NoMoney} /\ order.total \in Dollars
  BY <1>3, ShownTotal, OrderPageAssumption DEF CheckoutInv
<1>5. approved'.cents \in Int
  BY <1>4 DEF Dollars, NoMoney
<1>6. approved' # NoMoney /\ AtMost(approved', OrderRules.maxOrderTotal)
  BY <1>3, <1>5, LimitAssumption, TotalIsWithinLimit
<1>7. Affordable(approved)'
  BY <1>4, <1>6 DEF Affordable
<1> QED
  BY <1>1, <1>2, <1>4, <1>7 DEF CheckoutInv, AnswerIsAboutTheOrder

(* The total that is read again is the order's own, or the submission ends.  *)
LEMMA RecheckTotalKeeps == CheckoutInv /\ RecheckTotal => CheckoutInv'
<1> SUFFICES ASSUME CheckoutInv, RecheckTotal
             PROVE  CheckoutInv'
  OBVIOUS
<1>1. /\ approved # NoMoney /\ submission.step = "none" /\ UNCHANGED <<order, approved, placed, answer>>
      /\ submission' = [submission EXCEPT !.step = "checked"]
  BY DEF RecheckTotal
<1>2. PICK missed \in SUBSET Unreadable :
         VerifyTotalUnchanged(approved, ReadCheckout(Display(order, missed)).orderTotal) = "pass"
  BY DEF RecheckTotal
<1>3. order \in Orders /\ approved = ReadCheckout(Display(order, missed)).orderTotal
  BY <1>2 DEF VerifyTotalUnchanged, CheckoutInv
<1>4. approved = order.total
  BY <1>1, <1>3, ShownTotal
<1>5. /\ placed = NoOrder /\ submission'.step = "checked"
      /\ submission' = [step |-> submission'.step, moved |-> submission'.moved]
  BY <1>1 DEF CheckoutInv
<1> QED
  BY <1>1, <1>3, <1>4, <1>5 DEF CheckoutInv, AnswerIsAboutTheOrder

LEMMA SubmitStepKeeps == CheckoutInv /\ (FindOrderButton \/ RecordSubmit) => CheckoutInv'
<1> SUFFICES ASSUME CheckoutInv, FindOrderButton \/ RecordSubmit
             PROVE  CheckoutInv'
  OBVIOUS
<1>1. /\ submission.step \in {"checked", "found"} /\ UNCHANGED <<order, approved, placed, answer>>
      /\ submission'.step \in {"found", "recorded"} /\ submission'.moved = submission.moved
      /\ submission' = [step |-> submission'.step, moved |-> submission'.moved]
  BY DEF FindOrderButton, RecordSubmit, CheckoutInv
<1>2. placed = NoOrder
  BY <1>1 DEF CheckoutInv
<1> QED
  BY <1>1, <1>2 DEF CheckoutInv, AnswerIsAboutTheOrder

(* The order that is placed is the one of the click, not of the second look. *)
LEMMA ClickKeeps == CheckoutInv /\ Click => CheckoutInv'
<1> SUFFICES ASSUME CheckoutInv, Click
             PROVE  CheckoutInv'
  OBVIOUS
<1>1. /\ submission.step = "recorded" /\ placed = NoOrder /\ UNCHANGED <<order, approved, submission, answer>>
      /\ placed' \in {order, [order EXCEPT !.declined = TRUE]}
  BY DEF Click
<1>2. placed'.total = order.total
  BY <1>1, OrderPageAssumption DEF CheckoutInv
<1>3. ~answer.verified
  BY <1>1 DEF CheckoutInv
<1> QED
  BY <1>1, <1>2, <1>3 DEF CheckoutInv, AnswerIsAboutTheOrder

(* An order found in the history is one of its first cards, of the expected  *)
(* total or of one that was not read.                                        *)
LEMMA FoundInHistory ==
  ASSUME NEW history, NEW expected, Len(history.cards) \in Nat, expected # NoMoney,
         VerifyViaOrdersPage(history, expected).verified
  PROVE  \E i \in 1 .. Len(history.cards) :
            /\ VerifyViaOrdersPage(history, expected).number = history.cards[i].number
            /\ history.cards[i].total = NoMoney \/ history.cards[i].total.cents = expected.cents
<1> DEFINE cards == history.cards
           found == {i \in 1 .. Min({Len(cards), MaxCards}) :
                        /\ cards[i].number # "none"
                        /\ expected # NoMoney /\ cards[i].total # NoMoney => cards[i].total.cents = expected.cents}
<1>1. found # {} /\ VerifyViaOrdersPage(history, expected) = [verified |-> TRUE, number |-> cards[Min(found)].number]
  BY DEF VerifyViaOrdersPage, Unsure, NoAnswer
<1>2. Min({Len(cards), MaxCards}) \in Nat /\ Min({Len(cards), MaxCards}) <= Len(cards)
  <2>1. {Len(cards), MaxCards} \in SUBSET Nat /\ {Len(cards), MaxCards} # {}
    BY DEF MaxCards
  <2> QED
    BY <2>1, LeastOf
<1>3. Min(found) \in found
  <2>1. found \in SUBSET Nat
    BY <1>2
  <2> HIDE DEF found
  <2> QED
    BY <1>1, <2>1, LeastOf
<1>4. \A i \in found : i \in 1 .. Len(cards) /\ (cards[i].total = NoMoney \/ cards[i].total.cents = expected.cents)
  <2> DEFINE bound == Min({Len(cards), MaxCards})
  <2>1. bound \in Nat /\ bound <= Len(cards)
    BY <1>2
  <2> HIDE DEF bound
  <2>2. \A i \in 1 .. bound : i \in 1 .. Len(cards)
    BY <2>1
  <2> QED
    BY <2>2 DEF bound
<1> HIDE DEF found
<1>5. VerifyViaOrdersPage(history, expected).number = cards[Min(found)].number
  BY <1>1
<1> QED
  BY <1>3, <1>4, <1>5

LEMMA ReadAnswerKeeps == CheckoutInv /\ ReadAnswer => CheckoutInv'
<1> SUFFICES ASSUME CheckoutInv, ReadAnswer
             PROVE  CheckoutInv'
  OBVIOUS
<1>1. placed # NoOrder /\ UNCHANGED <<order, approved, submission, placed>>
  BY DEF ReadAnswer
<1>2. approved # NoMoney /\ approved \in Dollars
  BY <1>1 DEF CheckoutInv, Affordable
<1>3. ASSUME NEW found \in {"new", "none"}, ~placed.declined,
             answer' = ReadConfirmation([marker |-> TRUE, wording |-> FALSE, thankYou |-> FALSE,
                                         purchaseId |-> "none", number |-> found])
      PROVE  AnswerIsAboutTheOrder'
  <2>1. answer'.number = FirstOf(<<"none", found>>, "none")
    BY <1>3 DEF ReadConfirmation
  <2>2. answer'.number \in {"new", "none"}
    BY <2>1, FirstOfTwo
  <2> QED
    BY <1>1, <1>3, <2>2 DEF AnswerIsAboutTheOrder
<1>4. ASSUME NEW older \in Histories, NEW total \in {placed.total, NoMoney}, NEW number \in {"new", "none"},
             NEW newest \in {<<>>, <<[number |-> number, total |-> total]>>}, placed.declined => newest = <<>>,
             answer' = VerifyViaOrdersPage([cards |-> newest \o older, body |-> "none"], approved),
             answer'.verified
      PROVE  AnswerIsAboutTheOrder'
  <2> DEFINE cards == newest \o older
  <2>1. /\ Len(older) \in Nat /\ older = [i \in 1 .. Len(older) |-> older[i]]
        /\ \A i \in 1 .. Len(older) : older[i].total \in Dollars \union {NoMoney}
    BY HistoriesAssumption
  <2>2. /\ Len(newest) \in {0, 1} /\ (Len(newest) = 1 => ~placed.declined)
        /\ Len(newest) = 1 => newest[1] = [number |-> number, total |-> total]
    BY <1>4
  <2>3. /\ Len(cards) = Len(newest) + Len(older)
        /\ \A i \in 1 .. Len(cards) :
              cards[i] = IF i <= Len(newest) THEN newest[i] ELSE older[i - Len(newest)]
    <3> DEFINE Cards == {older[i] : i \in 1 .. Len(older)} \union {[number |-> number, total |-> total]}
    <3>1. older \in Seq(Cards)
      <4>1. older \in [1 .. Len(older) -> Cards]
        BY <2>1
      <4> HIDE DEF Cards
      <4> QED
        BY <2>1, <4>1, SeqDef
    <3>2. newest \in Seq(Cards)
      <4> DEFINE card == [number |-> number, total |-> total]
      <4>1. card \in Cards /\ newest \in {<<>>, <<card>>}
        BY <1>4
      <4> HIDE DEF Cards, card
      <4>2. <<>> \in Seq(Cards)
        OBVIOUS
      <4>3. <<card>> \in Seq(Cards)
        BY <4>1
      <4> QED
        BY <4>1, <4>2, <4>3
    <3> HIDE DEF Cards
    <3> QED
      BY <3>1, <3>2, ConcatProperties
  <2> HIDE DEF cards
  <2>4. PICK i \in 1 .. Len(cards) :
           /\ answer'.number = cards[i].number
           /\ cards[i].total = NoMoney \/ cards[i].total.cents = approved.cents
    <3>1. Len(cards) \in Nat
      BY <2>1, <2>2, <2>3
    <3> DEFINE history == [cards |-> cards, body |-> "none"]
    <3>2. history.cards = cards /\ answer' = VerifyViaOrdersPage(history, approved)
      BY <1>4 DEF cards
    <3> HIDE DEF history
    <3> QED
      BY <1>2, <1>4, <3>1, <3>2, FoundInHistory
  <2>5. CASE i <= Len(newest)
    <3>1. i = 1 /\ ~placed.declined /\ cards[i].number = number
      BY <2>2, <2>3, <2>5
    <3> QED
      BY <1>1, <2>4, <3>1 DEF AnswerIsAboutTheOrder
  <2>6. CASE ~ (i <= Len(newest))
    <3> DEFINE j == i - Len(newest)
    <3>1. j \in 1 .. Len(older) /\ cards[i] = older[j]
      BY <2>1, <2>2, <2>3, <2>6
    <3>2. older[j].total \in {approved, NoMoney}
      BY <1>2, <2>1, <2>4, <3>1 DEF Dollars
    <3>3. older[j] \in Range(older)
      BY <2>1, <3>1 DEF Range
    <3>4. answer'.number = older[j].number
      BY <2>4, <3>1
    <3> HIDE DEF j
    <3> QED
      BY <1>1, <3>2, <3>3, <3>4 DEF AnswerIsAboutTheOrder
  <2> QED
    BY <2>5, <2>6
<1>5. AnswerIsAboutTheOrder'
  <2>1. CASE ~answer'.verified
    BY <2>1 DEF AnswerIsAboutTheOrder
  <2>2. CASE answer'.verified
    BY <1>3, <1>4, <2>2 DEF ReadAnswer
  <2> QED
    BY <2>1, <2>2
<1> QED
  BY <1>1, <1>5 DEF CheckoutInv

LEMMA CheckoutStays == CheckoutInv /\ [CheckoutNext]_checkoutVars => CheckoutInv'
<1> SUFFICES ASSUME CheckoutInv, [CheckoutNext]_checkoutVars
             PROVE  CheckoutInv'
  OBVIOUS
<1>1. CASE OrderChanges
  <2>1. /\ placed = NoOrder /\ order' \in Orders /\ UNCHANGED <<approved, placed, answer>>
        /\ submission' = [step |-> submission.step, moved |-> submission.step # "none"]
    BY <1>1 DEF OrderChanges, CheckoutInv
  <2> QED
    BY <2>1 DEF CheckoutInv, AnswerIsAboutTheOrder
<1>2. CASE Approve
  BY <1>2, ApproveKeeps
<1>3. CASE RecheckTotal
  BY <1>3, RecheckTotalKeeps
<1>4. CASE ReadAnswer
  BY <1>4, ReadAnswerKeeps
<1>5. CASE UNCHANGED checkoutVars
  BY <1>5 DEF checkoutVars, CheckoutInv, AnswerIsAboutTheOrder
<1>6. CASE FindOrderButton \/ RecordSubmit
  BY <1>6, SubmitStepKeeps
<1>7. CASE Click
  BY <1>7, ClickKeeps
<1> QED
  BY <1>1, <1>2, <1>3, <1>4, <1>5, <1>6, <1>7 DEF CheckoutNext

(* The inductive invariant.                                                  *)
THEOREM CheckoutInvariance == CheckoutSpec => []CheckoutInv
BY CheckoutStarts, CheckoutStays, PTL DEF CheckoutSpec

(* Any part of the order page may be missed - its rows all or none - and the *)
(* order may change before and after: the one that passes is of the item     *)
(* alone, in the number wanted, at no more than the limits and to the        *)
(* address that is required.  Whether it recurs is not among what is proved: *)
(* a mark of a subscription that is missed reads as none.                    *)
THEOREM PassedOrderIsWanted == CheckoutSpec => PassedOrderIsTheOrder
<1> DEFINE Wanted ==
             approved = NoMoney /\ approved' # NoMoney =>
                /\ Code[order.item] = Code[OrderRules.asin] /\ ~order.extra
                /\ order.quantity = OrderRules.quantity
                /\ OrderRules.maxItemPrice # NoMoney => AtMost(order.unitPrice, OrderRules.maxItemPrice)
                /\ approved' = order.total /\ AtMost(order.total, OrderRules.maxOrderTotal)
                /\ OrderRules.requireAddressMatch /\ OrderRules.expectedAddress # NoText
                      => Norm[order.address] = Norm[OrderRules.expectedAddress]
<1>1. CheckoutInv /\ CheckoutInv' /\ [CheckoutNext]_checkoutVars => [Wanted]_checkoutVars
  <2> SUFFICES ASSUME CheckoutInv, CheckoutInv', CheckoutNext, approved = NoMoney, approved' # NoMoney
               PROVE  Wanted
    OBVIOUS
  <2>1. Approve
    BY DEF CheckoutNext, OrderChanges, RecheckTotal, FindOrderButton, RecordSubmit, Click, ReadAnswer
  <2>2. PICK missed \in SUBSET Unreadable :
           /\ Passed(CheckFinal(OrderRules, OrderProduct, ReadCheckout(Display(order, missed))))
           /\ approved' = ReadCheckout(Display(order, missed)).orderTotal
    BY <2>1 DEF Approve
  <2>3. order \in Orders /\ approved' = order.total /\ AtMost(approved', OrderRules.maxOrderTotal)
    BY <2>2, ShownTotal DEF CheckoutInv, Affordable
  <2>4. /\ Code[order.item] = Code[OrderRules.asin] /\ ~order.extra
        /\ order.quantity = OrderRules.quantity
        /\ OrderRules.maxItemPrice # NoMoney => AtMost(order.unitPrice, OrderRules.maxItemPrice)
        /\ OrderRules.requireAddressMatch /\ OrderRules.expectedAddress # NoText
              => Norm[order.address] = Norm[OrderRules.expectedAddress]
    BY <2>2, <2>3, PassedIsWanted
  <2> QED
    BY <2>3, <2>4
<1>2. CheckoutSpec => [][Wanted]_checkoutVars
  BY CheckoutInvariance, <1>1, PTL DEF CheckoutSpec
<1> QED
  BY <1>2 DEF PassedOrderIsTheOrder

(* What is charged is what was approved, although the order may change and a *)
(* page be read worse after the final check - unless the order changes after *)
(* its total was read for the second time, which nothing looks at.           *)
THEOREM ChargeIsApproved == CheckoutSpec => []ChargedIsApproved
<1>1. CheckoutInv => ChargedIsApproved
  BY DEF CheckoutInv, ChargedIsApproved
<1> QED
  BY CheckoutInvariance, <1>1, PTL

(* No order is placed for more than the limit of its rules, unless it        *)
(* changes between the second look at its total and the click.               *)
THEOREM ChargeIsAffordable == CheckoutSpec => []ChargedIsAffordable
<1>1. CheckoutInv => ChargedIsAffordable
  BY DEF CheckoutInv, ChargedIsAffordable, Affordable
<1> QED
  BY CheckoutInvariance, <1>1, PTL

(* The answer is about this order, or about an older one of the same total   *)
(* or of one that was not read.                                              *)
THEOREM AnswerIsOurs == CheckoutSpec => []AnswerIsAboutTheOrder
<1>1. CheckoutInv => AnswerIsAboutTheOrder
  BY DEF CheckoutInv
<1> QED
  BY CheckoutInvariance, <1>1, PTL

===============================================================================
