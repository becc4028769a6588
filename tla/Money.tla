-------------------------------- MODULE Money --------------------------------
(***************************************************************************)
(* Amounts of money and how they are read off a page (app/core/money.py).  *)
(* An amount is whole minor units of a currency.                           *)
(*                                                                         *)
(* A text is a sequence of lexemes: a number, a currency symbol, a gap     *)
(* (white space) or a word.  A number is its groups of digits, each with   *)
(* its value v and its count n of digits, and the separators between them; *)
(* blanks inside a number only join groups and are left out.               *)
(***************************************************************************)
EXTENDS Integers, Sequences, FiniteSets, SequencesExt, FiniteSetsExt

ZeroDecimalCurrencies == {"JPY", "KRW"}
TrailingSymbols == {"USD", "GBP", "EUR", "JPY", "PLN", "SEK"}    \* after a number
LeadingSymbols == {"USD", "CAD", "MXN", "AUD", "BRL", "GBP", "EUR", "JPY", "INR", "PLN"}

NoMoney == [cents |-> -1, currency |-> "none"]
Amount(cents, currency) == [cents |-> cents, currency |-> currency]

MinorUnits(currency) == IF currency \in ZeroDecimalCurrencies THEN 0 ELSE 2

\* Comparison across currencies raises in the code: no amount is below one
\* of another currency, and none above it.
AtMost(a, b) == a.currency = b.currency /\ a.cents <= b.cents

-----------------------------------------------------------------------------
(* One number.                                                             *)

Joined(groups) == FoldLeft(LAMBDA value, g : value * 10 ^ g.n + g.v, 0, groups)

\* A separator is one of thousands when there is only one kind of it and every
\* group it starts has three digits; else the last one is the decimal point.
OnlyThousands(number) ==
    /\ Cardinality(Range(number.seps)) <= 1
    /\ \A i \in 2 .. Len(number.groups) : number.groups[i].n = 3

Normalised(number) ==
    IF OnlyThousands(number)
    THEN [whole |-> Joined(number.groups), fraction |-> [v |-> 0, n |-> 0]]
    ELSE [whole |-> Joined(Front(number.groups)), fraction |-> Last(number.groups)]

\* Rounded half up to the currency's minor unit.
FromDecimal(d, currency) ==
    LET scale == 10 ^ MinorUnits(currency)
        parts == 10 ^ d.fraction.n
    IN  Amount((2 * scale * (d.whole * parts + d.fraction.v) + parts) \div (2 * parts), currency)

-----------------------------------------------------------------------------
(* All the prices of a text.                                               *)

KindAt(text, i) == IF i \in DOMAIN text THEN text[i].kind ELSE "end"

\* Where the symbol after number i, or before it, stands; 0 if there is none.
SymbolAfter(text, i) ==
    LET j == IF KindAt(text, i + 1) = "gap" THEN i + 2 ELSE i + 1
    IN  IF KindAt(text, j) = "symbol" /\ text[j].currency \in TrailingSymbols THEN j ELSE 0
SymbolBefore(text, i) ==
    LET j == IF KindAt(text, i - 1) = "gap" THEN i - 2 ELSE i - 1
    IN  IF KindAt(text, j) = "symbol" /\ text[j].currency \in LeadingSymbols THEN j ELSE 0

Numbers(text) == {i \in DOMAIN text : text[i].kind = "number"}

\* Numbers that a symbol follows are taken first, with that symbol.
Trailing(text) == {i \in Numbers(text) : SymbolAfter(text, i) # 0}
Consumed(text) == UNION {i .. SymbolAfter(text, i) : i \in Trailing(text)}

\* The others, with the symbol before them if there is one; one that shares a
\* symbol with a number already taken is passed over.
TokenSpan(text, i) == (IF SymbolBefore(text, i) = 0 THEN i ELSE SymbolBefore(text, i)) .. i
Tokens_All(text) == Numbers(text) \ Trailing(text)
Tokens(text) == {i \in Numbers(text) : TokenSpan(text, i) \cap Consumed(text) = {}}

\* Before a symbol, no more than three digits of the first group are matched.
Clipped(number) == [number EXCEPT !.groups[1].v = @ % 1000, !.groups[1].n = Min({@, 3})]

ExtractPrices(text, default) ==
    {FromDecimal(Normalised(Clipped(text[i].number)), text[SymbolAfter(text, i)].currency) :
        i \in Trailing(text)}
    \union
    {FromDecimal(Normalised(text[i].number),
                 IF SymbolBefore(text, i) = 0 THEN default ELSE text[SymbolBefore(text, i)].currency) :
        i \in Tokens(text)}

\* A word that says there is no price has the field noPrice.
SaysNoPrice(text) == \E i \in DOMAIN text : text[i].kind = "noPrice"

\* Exactly one price, or none.
ParseMoney(text, default) ==
    LET prices == ExtractPrices(text, default)
    IN  IF Cardinality(prices) = 1 /\ ~SaysNoPrice(text)
        THEN CHOOSE p \in prices : TRUE ELSE NoMoney

\* The largest, for text that may hold more than one.
ParseMoneyCeiling(text, default) ==
    LET prices == ExtractPrices(text, default)
    IN  IF Cardinality({p.currency : p \in prices}) # 1 THEN NoMoney
        ELSE CHOOSE p \in prices : \A q \in prices : q.cents <= p.cents

\* Amazon's split markup.  The digits of the whole part, whether it ends in a
\* separator, and the digits of the fraction (n = 0 when it was not read).
ParseSplitPrice(whole, open, fraction, currency) ==
    LET places == MinorUnits(currency)
    IN  IF whole.n = 0 THEN NoMoney
        ELSE IF places = 0 THEN Amount(whole.v, currency)
        ELSE IF fraction.n > places \/ (fraction.n = 0 /\ open) THEN NoMoney
        ELSE Amount(whole.v * 10 ^ places + fraction.v * 10 ^ (places - fraction.n), currency)

=============================================================================
