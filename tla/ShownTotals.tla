---------------------------- MODULE ShownTotals ----------------------------
(***************************************************************************)
(* What the shop shows of the bill that OrderTotal computes: the total     *)
(* under the cart, and on the order page the total and the price of every  *)
(* line.  They multiply and carry by themselves, in plain numbers.  The    *)
(* order page and the charge use the prices that checkout had converted;   *)
(* the cart has the catalogue's prices in dollars as they are.             *)
(***************************************************************************)
EXTENDS OrderTotal, CurrencyService

CONSTANT Catalog    \* the prices of the catalogue, in dollars

defaultCurrencyCode == "USD"

ASSUME CatalogAssumption ==
    /\ Catalog \subseteq [cur : {defaultCurrencyCode}, units : Nat, nanos : 0 .. NanosMod - 1]
    /\ {Currency, defaultCurrencyCode} \subseteq DOMAIN Rates

\* The quantity of a line is an int32, which a uint32 holds unless it is negative.
ASSUME Int32Assumption == \A q \in Quantities : q < UintMod

\* The prices that a line of the order can have in the catalogue.
CatalogPrices(k) == {p \in Catalog : lines[k].cost \in Convert(p, Currency)}

\* getProductPrice: the prices the cart can have for that line.
CartPrices(k) == IF Currency = defaultCurrencyCode THEN CatalogPrices(k) ELSE {lines[k].cost}

\* JavaScript: Math.floor rounds down, % keeps the sign.
Carried(units, nanos) == Amount(Currency, units + nanos \div NanosMod, Rem(nanos, NanosMod))

\* The costs of the order.
Costed == [k \in DOMAIN lines |-> lines[k].cost]

\* A reduce over the first n lines that adds up h.
UpTo(h, n) ==
    LET reduce[k \in 0 .. n] == IF k = 0 THEN 0 ELSE reduce[k - 1] + h[k] IN reduce[n]

OverLines(h) == UpTo(h, Len(lines))

Units(price) == OverLines([k \in DOMAIN lines |-> price[k].units * lines[k].quantity])
Nanos(price) == OverLines([k \in DOMAIN lines |-> price[k].nanos * lines[k].quantity])

\* CartItems: total
CartTotal(price) == Carried(Units(price) + shipping.units, Nanos(price) + shipping.nanos)

\* Mutant: the nanos of the items are carried before those of the shipping are added.
PageTotalCarriedEarly ==
    LET items == Carried(Units(Costed), Nanos(Costed))
    IN Amount(Currency, items.units + shipping.units, items.nanos + shipping.nanos)

\* The order page: orderTotal
PageTotal == Carried(Units(Costed) + shipping.units, Nanos(Costed) + shipping.nanos)

\* The order page: itemTotal
ItemTotal(k) == Carried(lines[k].cost.units * lines[k].quantity, lines[k].cost.nanos * lines[k].quantity)

Taxes ==
    OverLines([k \in DOMAIN lines |->
                  Value(CalculateTax(lines[k].cost, Unsigned(lines[k].quantity)))])
ItemTotals == OverLines([k \in DOMAIN lines |-> Value(ItemTotal(k))])
ItemCount == OverLines([k \in DOMAIN lines |-> lines[k].quantity])

PricesInTheCart ==
    {price \in [DOMAIN lines -> UNION {CartPrices(k) : k \in DOMAIN lines}] :
        \A k \in DOMAIN lines : price[k] \in CartPrices(k)}

Charged == pc = "charge" /\ \A k \in DOMAIN lines : lines[k].quantity > 0

\* The order page shows a well formed total that is worth its lines and the shipping; the
\* card is charged that total and the tax, which no page shows.
ShownTotalsLeaveOutOnlyTheTax ==
    Charged =>
        /\ IsValid(PageTotal) /\ CartTotal(Costed) = PageTotal
        /\ Value(PageTotal) = Value(shipping) + ItemTotals
        /\ Value(total) = Value(PageTotal) + Taxes

\* What the cart shows is what the order page shows, to a nano per item: the conversion
\* of dollars to dollars loses no more than its roundings, unless the nanos of a price
\* lead with a zero.
CartShowsTheOrder ==
    Charged =>
        \A price \in PricesInTheCart :
            (\A k \in DOMAIN lines : ~LeadsWithZero(price[k])) =>
                Value(CartTotal(price)) - Value(PageTotal) \in -ItemCount .. ItemCount

\* What the protocol says of a price, "number of nano (10^-9) units of the amount", holds
\* in every service: an item in dollars costs its price in the catalogue, to a nano.
NanosAreBillionths ==
    Currency = defaultCurrencyCode =>
        \A k \in DOMAIN lines : \A p \in CatalogPrices(k) : Value(lines[k].cost) - Value(p) \in -1 .. 1
=============================================================================
