----------------------------- MODULE OrderTotal -----------------------------
(***************************************************************************)
(* How PlaceOrder prices an order (main.go, the loop between preparation   *)
(* and the charge): shipping, then for every line cost * quantity by       *)
(* repeated addition and the line's tax.  Every call of money.Sum is one   *)
(* step, so each intermediate amount is a state.                           *)
(*                                                                         *)
(* due is a history variable: the same bill in plain integers.             *)
(***************************************************************************)
EXTENDS Money, Sequences

CONSTANTS Costs,       \* item costs, already in the user's currency
          Shippings,   \* shipping costs, already in the user's currency
          Quantities,  \* int32 quantities a cart can hold
          MaxLines,    \* bound: lines in a cart
          Currency     \* the user's currency

Prices == {m \in [cur : {Currency}, units : Nat, nanos : Nat] : IsValid(m)}

\* Catalogue prices and quotes are not negative, and Convert stamps each of
\* them with the user's currency.
ASSUME CostsAssumption      == Costs \subseteq Prices
ASSUME ShippingsAssumption  == Shippings \subseteq Prices
ASSUME QuantitiesAssumption == Quantities \subseteq Int

Line == [cost : Costs, quantity : Quantities]

VARIABLES
    shipping,   \* prep.shippingCostLocalized
    lines,      \* prep.orderItems
    pc,         \* where PlaceOrder stands
    i,          \* the line being priced
    left,       \* n of MultiplySlow
    out,        \* out of MultiplySlow
    total,      \* total of PlaceOrder
    due         \* history: the bill in nanos, shipping + sum of q * cost + tax

vars == <<shipping, lines, pc, i, left, out, total, due>>
bill == <<shipping, lines>>

Zero == Amount(Currency, 0, 0)
Quantity == Unsigned(lines[i].quantity)

\* quoteShipping drops the lines without a positive quantity and the shipping
\* service refuses a quote for no items, so one line at least is positive.
Init ==
    /\ shipping \in Shippings
    /\ lines \in UNION {[1..n -> Line] : n \in 1..MaxLines}
    /\ \E k \in DOMAIN lines : lines[k].quantity > 0
    /\ pc = "shipping" /\ i = 1 /\ left = 0
    /\ out = Zero /\ total = Zero /\ due = 0

\* total, err = money.Sum(total, addend): an error ends the order with Internal,
\* otherwise PlaceOrder goes on at next.
AddToTotal(addend, next) ==
    LET s == Sum(total, addend)
    IN  IF s.err = "none" THEN total' = s.val /\ pc' = next
                          ELSE total' = s.val /\ pc' = "failed"

AddShipping ==
    /\ pc = "shipping"
    /\ AddToTotal(shipping, "line")
    /\ due' = Value(shipping)
    /\ UNCHANGED <<bill, i, left, out>>

StartLine ==
    /\ pc = "line" /\ i <= Len(lines)
    /\ out' = lines[i].cost
    /\ left' = Quantity
    /\ pc' = "multiply"
    /\ UNCHANGED <<bill, i, total, due>>

\* Mutant: one round too many.
MultiplyOnceMore ==
    /\ pc = "multiply" /\ left > 0
    /\ out' = Sum(out, lines[i].cost).val /\ left' = left - 1
    /\ UNCHANGED <<bill, pc, i, total, due>>

\* One round of MultiplySlow; Must panics on an error.
Multiply ==
    /\ pc = "multiply" /\ left > 1
    /\ LET s == Sum(out, lines[i].cost)
       IN  IF s.err = "none"
           THEN out' = s.val /\ left' = left - 1 /\ pc' = pc
           ELSE pc' = "panicked" /\ UNCHANGED <<out, left>>
    /\ UNCHANGED <<bill, i, total, due>>

AddCost ==
    /\ pc = "multiply" /\ left <= 1
    /\ AddToTotal(out, "tax")
    /\ due' = due + Quantity * Value(lines[i].cost)
    /\ UNCHANGED <<bill, i, left, out>>

AddTax ==
    /\ pc = "tax" /\ Quantity # 0
    /\ LET tax == CalculateTax(lines[i].cost, Quantity)
       IN  /\ AddToTotal(tax, "line")
           /\ due' = due + Value(tax)
    /\ i' = i + 1
    /\ UNCHANGED <<bill, left, out>>

\* Mutant: a guard instead of the panic.
NoTaxOnNothing ==
    /\ pc = "tax" /\ Quantity = 0
    /\ pc' = "line" /\ i' = i + 1
    /\ UNCHANGED <<bill, left, out, total, due>>

\* calculateTax divides by the quantity.
DivideByZero ==
    /\ pc = "tax" /\ Quantity = 0
    /\ pc' = "panicked"
    /\ UNCHANGED <<bill, i, left, out, total, due>>

Charge ==
    /\ pc = "line" /\ i > Len(lines)
    /\ pc' = "charge"
    /\ UNCHANGED <<bill, i, left, out, total, due>>

Next == AddShipping \/ StartLine \/ Multiply \/ AddCost \/ AddTax
        \/ DivideByZero \/ Charge

Spec == Init /\ [][Next]_vars
-----------------------------------------------------------------------------
AnyAmount == [cur : {Currency, ""}, units : Int, nanos : Int]

\* Every variable keeps the type PlaceOrder gives it.
TypeOK ==
    /\ shipping \in Shippings
    /\ lines \in Seq(Line)
    /\ pc \in {"shipping", "line", "multiply", "tax", "charge", "failed", "panicked"}
    /\ i \in Nat \ {0} /\ left \in Nat
    /\ pc \in {"multiply", "tax"} => i <= Len(lines)
    /\ out \in AnyAmount /\ total \in AnyAmount /\ due \in Int

\* The amount given to chargeCard is the exact bill: no carry or borrow of the
\* chain of Sums, however it runs through malformed amounts, loses a nano.
ChargeIsExact == pc = "charge" => Value(total) = due

\* The amount given to chargeCard is well formed, though Sum itself can return a
\* malformed amount (a fraction without units borrows) along the way.
ChargeIsValid == pc = "charge" => IsValid(total)

\* An order with a zero-quantity line never reaches the charge: the tax panic,
\* and not the recovered one of the preparation, stops it.
ZeroQuantityNeverCharged ==
    pc = "charge" => \A k \in DOMAIN lines : Unsigned(lines[k].quantity) # 0

\* The tax of a line never exceeds the rate applied to cost * quantity.
TaxNeverExceedsRate ==
    pc = "tax" /\ Quantity # 0 =>
        TaxDiv * Value(CalculateTax(lines[i].cost, Quantity))
            <= Quantity * Value(lines[i].cost)
=============================================================================
