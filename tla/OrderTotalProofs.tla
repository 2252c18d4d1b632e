-------------------------- MODULE OrderTotalProofs --------------------------
(***************************************************************************)
(* What money.Sum and calculateTax compute, and the price of an order, for *)
(* any modulus, rate, prices, quantities and number of lines; and what the *)
(* shop shows of that price.                                               *)
(***************************************************************************)
EXTENDS ShownTotals, WellFoundedInduction, TLAPS

IsAmount(m) == m.units \in Int /\ m.nanos \in Int

\* Division of an integer: the quotient and the remainder make up the dividend.
LEMMA QuotRem ==
    ASSUME NEW a \in Int, NEW b \in Nat \ {0}
    PROVE  /\ Quot(a, b) \in Int /\ Rem(a, b) \in Int
           /\ a = b * Quot(a, b) + Rem(a, b)
           /\ -b < Rem(a, b) /\ Rem(a, b) < b
           /\ a >= 0 => Quot(a, b) >= 0 /\ Rem(a, b) >= 0
           /\ a <= 0 => Quot(a, b) <= 0 /\ Rem(a, b) <= 0
  <1> DEFINE n == IF a >= 0 THEN a ELSE -a
  <1>1. n \div b \in Int /\ n % b \in 0..(b - 1) /\ n = b * (n \div b) + (n % b)
    OBVIOUS
  <1>2. n \div b >= 0
    OBVIOUS
  <1>3. CASE a >= 0
    BY <1>1, <1>2, <1>3 DEF Quot, Rem
  <1>4. CASE a < 0
    <2>1. Quot(a, b) = -(n \div b)
      BY <1>4 DEF Quot
    <2>2. Rem(a, b) = a + b * (n \div b)
      BY <2>1, <1>1 DEF Rem
    <2>3. Rem(a, b) = -(n % b)
      BY <2>2, <1>1, <1>4
    <2> QED
      BY <2>1, <2>2, <2>3, <1>1, <1>2, <1>4
  <1> QED
    BY <1>3, <1>4

\* A number below the divisor has no quotient.
LEMMA SmallQuot ==
    ASSUME NEW a \in Int, NEW b \in Nat \ {0}, -b < a, a < b
    PROVE  Quot(a, b) = 0 /\ Rem(a, b) = a
  <1>1. Quot(a, b) = 0
    <2>1. Quot(a, b) \in Int /\ Rem(a, b) \in Int /\ a = b * Quot(a, b) + Rem(a, b)
          /\ (a >= 0 => Quot(a, b) >= 0 /\ Rem(a, b) >= 0)
          /\ (a <= 0 => Quot(a, b) <= 0 /\ Rem(a, b) <= 0)
      BY QuotRem
    <2>2. Quot(a, b) >= 1 => b * Quot(a, b) >= b
      BY <2>1
    <2>3. Quot(a, b) <= -1 => b * Quot(a, b) <= -b
      BY <2>1
    <2> QED
      BY <2>1, <2>2, <2>3
  <1> QED
    BY <1>1 DEF Rem

\* The carry and both borrows keep the value.
LEMMA CarryKeepsValue ==
    ASSUME NEW units \in Int, NEW nanos \in Int
    PROVE  LET c == Carry(units, nanos)
           IN  /\ c.units \in Int /\ c.nanos \in Int
               /\ c.units * NanosMod + c.nanos = units * NanosMod + nanos
  <1> USE NanosModAssumption
  <1> DEFINE q == Quot(nanos, NanosMod)
             m == Rem(nanos, NanosMod)
  <1>1. q \in Int /\ m \in Int /\ nanos = NanosMod * q + m
    BY QuotRem
  <1> HIDE DEF q, m
  <1>2. CASE SameSign(units, nanos)
    <2>1. Carry(units, nanos) = [units |-> units + q, nanos |-> m]
      BY <1>2 DEF Carry, q, m
    <2>2. (units + q) * NanosMod + m = units * NanosMod + nanos
      BY <1>1
    <2> QED
      BY <1>1, <2>1, <2>2
  <1>3. CASE ~SameSign(units, nanos) /\ units > 0
    BY <1>3 DEF Carry
  <1>4. CASE ~SameSign(units, nanos) /\ ~(units > 0)
    BY <1>4 DEF Carry
  <1> QED
    BY <1>2, <1>3, <1>4

\* money.Sum is exact: whatever pair it accepts, the result is worth the two values
\* together (money.go, both branches of Sum).
THEOREM SumIsExactAlways ==
    ASSUME NEW l, NEW r, IsAmount(l), IsAmount(r), Sum(l, r).err = "none"
    PROVE  /\ IsAmount(Sum(l, r).val)
           /\ Value(Sum(l, r).val) = Value(l) + Value(r)
  <1> USE NanosModAssumption
  <1> DEFINE u == l.units + r.units
             n == l.nanos + r.nanos
             c == Carry(u, n)
  <1>1. u \in Int /\ n \in Int /\ l.units \in Int /\ r.units \in Int
        /\ l.nanos \in Int /\ r.nanos \in Int
    BY DEF IsAmount
  <1>2. c.units \in Int /\ c.nanos \in Int /\ c.units * NanosMod + c.nanos = u * NanosMod + n
    BY <1>1, CarryKeepsValue
  <1>3. Sum(l, r) = SumIs(Amount(l.cur, c.units, c.nanos))
    BY DEF Sum, SumRefused, SumIs
  <1>4. Sum(l, r).val.units = c.units /\ Sum(l, r).val.nanos = c.nanos
    BY <1>3 DEF SumIs, Amount
  <1>5. u * NanosMod + n = (l.units * NanosMod + l.nanos) + (r.units * NanosMod + r.nanos)
    BY <1>1
  <1> HIDE DEF c, u, n
  <1> QED
    BY <1>2, <1>4, <1>5 DEF IsAmount, Value

\* money.Sum takes well-formed amounts to a well-formed amount, unless their units
\* cancel beside a fraction of less than one unit.
THEOREM SumIsValidUnlessUnitsCancel ==
    ASSUME NEW l, NEW r, IsAmount(l), IsAmount(r), Sum(l, r).err = "none",
           \/ l.units + r.units # 0
           \/ l.nanos + r.nanos = 0
           \/ l.nanos + r.nanos >= NanosMod
    PROVE  IsValid(Sum(l, r).val)
  <1> USE NanosModAssumption
  <1> DEFINE u == l.units + r.units
             n == l.nanos + r.nanos
             c == Carry(u, n)
  <1>1. /\ l.units \in Int /\ r.units \in Int /\ l.nanos \in Int /\ r.nanos \in Int
        /\ u \in Int /\ n \in Int
    BY DEF IsAmount
  <1>2. IsValid(l) /\ IsValid(r)
    BY DEF Sum, SumRefused
  <1>3. Sum(l, r) = SumIs(Amount(l.cur, c.units, c.nanos))
    BY DEF Sum, SumRefused, SumIs
  <1>4. Sum(l, r).val.units = c.units /\ Sum(l, r).val.nanos = c.nanos
    BY <1>3 DEF SumIs, Amount
  \* Where the units lead one way, the nanos do not outweigh a unit the other way.
  <1>5. /\ u > 0 => n > -NanosMod /\ n < 2 * NanosMod
        /\ u < 0 => n < NanosMod /\ n > -2 * NanosMod
        /\ u = 0 => n < 2 * NanosMod
    BY <1>1, <1>2 DEF IsValid, SignMatches, ValidNanos
  <1>6. u # 0 \/ n = 0 \/ n >= NanosMod
    OBVIOUS
  <1> HIDE DEF u, n
  <1>7. SignMatches(c) /\ ValidNanos(c.nanos)
    <2>1. CASE SameSign(u, n)
      <3> DEFINE q == Quot(n, NanosMod)
                 m == Rem(n, NanosMod)
      <3>1. /\ q \in Int /\ m \in Int /\ -NanosMod < m /\ m < NanosMod
            /\ n >= 0 => q >= 0 /\ m >= 0
            /\ n <= 0 => q <= 0 /\ m <= 0
        BY <1>1, QuotRem
      <3>2. c = [units |-> u + q, nanos |-> m]
        BY <2>1 DEF Carry
      <3> HIDE DEF q, m, c
      <3>3. \/ u = 0 /\ n = 0 /\ m = 0
            \/ u + q > 0 /\ m >= 0
            \/ u + q < 0 /\ m <= 0
        BY <1>1, <2>1, <3>1 DEF SameSign
      <3> QED
        BY <1>1, <3>1, <3>2, <3>3 DEF SignMatches, ValidNanos
    <2>2. CASE ~SameSign(u, n) /\ u > 0
      <3>1. c = [units |-> u - 1, nanos |-> n + NanosMod] /\ n < 0
        BY <1>1, <2>2 DEF Carry, SameSign
      <3> QED
        BY <1>1, <1>5, <2>2, <3>1 DEF SignMatches, ValidNanos
    <2>3. CASE ~SameSign(u, n) /\ ~(u > 0)
      <3>1. c = [units |-> u + 1, nanos |-> n - NanosMod]
        BY <1>1, <2>3 DEF Carry
      <3>2. \/ u < 0 /\ n > 0
            \/ u = 0 /\ n >= NanosMod
        BY <1>1, <1>6, <2>3 DEF SameSign
      <3> QED
        BY <1>1, <1>5, <2>3, <3>1, <3>2 DEF SignMatches, ValidNanos
    <2> QED
      BY <2>1, <2>2, <2>3
  <1> HIDE DEF c
  <1> QED
    BY <1>4, <1>7 DEF IsValid, SignMatches

\* The comment on the borrowing branch of Sum, "different sign. nanos guaranteed to not
\* to go over the limit", is not so: -1 and -2 nanos, two valid amounts without units, are
\* borrowed from as if their signs differed, and leave a fraction beyond a unit.
THEOREM SumMayLeaveItsLimits ==
    ASSUME NanosMod > 2, NEW cur
    PROVE  \E l, r : /\ IsAmount(l) /\ IsValid(l)
                     /\ IsAmount(r) /\ IsValid(r)
                     /\ Sum(l, r).err = "none"
                     /\ ~ValidNanos(Sum(l, r).val.nanos)
  <1> USE NanosModAssumption
  <1> DEFINE l == Amount(cur, 0, -1)
             r == Amount(cur, 0, -2)
  <1>1. IsAmount(l) /\ IsValid(l) /\ IsAmount(r) /\ IsValid(r) /\ l.cur = r.cur
    BY DEF Amount, IsAmount, IsValid, SignMatches, ValidNanos
  <1>2. Carry(0, -3) = [units |-> 1, nanos |-> -3 - NanosMod]
    BY DEF Carry, SameSign
  <1>3. Sum(l, r) = SumIs(Amount(cur, 1, -3 - NanosMod))
    BY <1>1, <1>2 DEF Sum, Amount
  <1>4. Sum(l, r).err = "none" /\ ~ValidNanos(Sum(l, r).val.nanos)
    BY <1>3 DEF SumIs, Amount, ValidNanos
  <1> QED
    BY <1>1, <1>4

-----------------------------------------------------------------------------
\* The tax of one line is an amount, and a well-formed one that is not negative when
\* the cost is.
LEMMA TaxIsAPrice ==
    ASSUME NEW cost, IsAmount(cost), cost.units >= 0, cost.nanos >= 0,
           NEW q \in Nat \ {0}
    PROVE  LET t == CalculateTax(cost, q)
           IN  IsAmount(t) /\ t.units >= 0 /\ t.nanos >= 0 /\ t.nanos < NanosMod
  <1> USE NanosModAssumption, TaxDivAssumption DEF IsAmount
  <1> DEFINE bu == Quot(cost.units, TaxDiv)
             bn == Quot(cost.nanos, TaxDiv)
             per == Quot(bu, q)
             k == Quot(bn * q, NanosMod)
             m == Rem(bn * q, NanosMod)
  <1>0. cost.units \in Int /\ cost.nanos \in Int /\ TaxDiv \in Nat \ {0} /\ NanosMod \in Nat \ {0}
    OBVIOUS
  <1>a. bu \in Int /\ bu >= 0
    BY <1>0, QuotRem
  <1>b. bn \in Int /\ bn >= 0
    BY <1>0, QuotRem
  <1>1. bu \in Int /\ bu >= 0 /\ bn \in Int /\ bn >= 0
    BY <1>a, <1>b
  <1> HIDE DEF bu, bn
  <1>2. per \in Int /\ per >= 0
    BY <1>1, QuotRem
  <1>3. bn * q \in Int /\ bn * q >= 0
    BY <1>1
  <1>4. k \in Int /\ k >= 0 /\ m \in Int /\ m >= 0 /\ m < NanosMod
    BY <1>0, <1>3, QuotRem
  <1> HIDE DEF per, k, m
  <1>5. per * q + k \in Int /\ per * q + k >= 0
    BY <1>2, <1>4
  <1>6. CalculateTax(cost, q) = Amount(cost.cur, per * q + k, m)
    BY DEF CalculateTax, bu, bn, per, k, m
  <1> QED
    BY <1>4, <1>5, <1>6 DEF Amount

\* The tax of a line never exceeds the rate applied to cost * quantity: every
\* truncation of calculateTax rounds in the shopper's favour.
THEOREM TaxNeverExceedsRateOfLine ==
    ASSUME NEW cost, IsAmount(cost), cost.units >= 0, cost.nanos >= 0,
           NEW q \in Nat \ {0}
    PROVE  TaxDiv * Value(CalculateTax(cost, q)) <= q * Value(cost)
  <1> USE NanosModAssumption, TaxDivAssumption DEF IsAmount
  <1> DEFINE bu == Quot(cost.units, TaxDiv)
             bn == Quot(cost.nanos, TaxDiv)
             per == Quot(bu, q)
             k == Quot(bn * q, NanosMod)
             m == Rem(bn * q, NanosMod)
  <1>0. cost.units \in Int /\ cost.nanos \in Int /\ TaxDiv \in Nat \ {0} /\ NanosMod \in Nat \ {0}
    OBVIOUS
  <1>a. bu \in Int /\ bu >= 0 /\ TaxDiv * bu <= cost.units
    BY <1>0, QuotRem
  <1>b. bn \in Int /\ bn >= 0 /\ TaxDiv * bn <= cost.nanos
    BY <1>0, QuotRem
  <1>1. /\ bu \in Int /\ bu >= 0 /\ TaxDiv * bu <= cost.units
        /\ bn \in Int /\ bn >= 0 /\ TaxDiv * bn <= cost.nanos
    BY <1>a, <1>b
  <1> HIDE DEF bu, bn
  <1>2. per \in Int /\ per >= 0 /\ q * per <= bu
    BY <1>1, QuotRem
  <1>3. k \in Int /\ m \in Int /\ k * NanosMod + m = bn * q
    BY <1>1, QuotRem
  <1> HIDE DEF per, k, m
  <1>4. CalculateTax(cost, q) = Amount(cost.cur, per * q + k, m)
    BY DEF CalculateTax, bu, bn, per, k, m
  <1>5. Value(CalculateTax(cost, q)) = (q * per) * NanosMod + bn * q
    BY <1>2, <1>3, <1>4 DEF Amount, Value
  <1>6. TaxDiv * (q * per) <= q * cost.units
    <2>1. TaxDiv * (q * per) <= TaxDiv * bu
      BY <1>1, <1>2
    <2>2. cost.units <= q * cost.units
      OBVIOUS
    <2> QED
      BY <1>1, <1>2, <2>1, <2>2
  <1>7. (TaxDiv * (q * per)) * NanosMod <= (q * cost.units) * NanosMod
    BY <1>2, <1>6
  <1>8. q * (TaxDiv * bn) <= q * cost.nanos
    BY <1>1
  <1>9. TaxDiv * ((q * per) * NanosMod + bn * q)
            = (TaxDiv * (q * per)) * NanosMod + q * (TaxDiv * bn)
    BY <1>1, <1>2
  <1>10. q * Value(cost) = (q * cost.units) * NanosMod + q * cost.nanos
    BY DEF Value
  <1> QED
    BY <1>1, <1>2, <1>5, <1>7, <1>8, <1>9, <1>10

\* What the line of q items is taxed: the nanos q times, the units once at most.
LEMMA TaxOfALine ==
    ASSUME NEW cost, IsAmount(cost), cost.units >= 0, cost.nanos >= 0,
           NEW q \in Nat \ {0}
    PROVE  \E per \in Nat :
              /\ Quot(cost.units, TaxDiv) \in Nat /\ Quot(cost.nanos, TaxDiv) \in Nat
              /\ q * per <= Quot(cost.units, TaxDiv)
              /\ q = 1 => per = Quot(cost.units, TaxDiv)
              /\ Value(CalculateTax(cost, q))
                    = (q * per) * NanosMod + Quot(cost.nanos, TaxDiv) * q
  <1> USE NanosModAssumption, TaxDivAssumption DEF IsAmount
  <1> DEFINE bu == Quot(cost.units, TaxDiv)
             bn == Quot(cost.nanos, TaxDiv)
             per == Quot(bu, q)
             k == Quot(bn * q, NanosMod)
             m == Rem(bn * q, NanosMod)
  <1>1. cost.units \in Int /\ cost.nanos \in Int /\ TaxDiv \in Nat \ {0} /\ NanosMod \in Nat \ {0}
    OBVIOUS
  <1>2. bu \in Int /\ bu >= 0 /\ bn \in Int /\ bn >= 0
    BY <1>1, QuotRem
  <1> HIDE DEF bu, bn
  <1>3. per \in Int /\ per >= 0 /\ Rem(bu, q) \in Int /\ Rem(bu, q) >= 0
        /\ Rem(bu, q) < q /\ bu = q * per + Rem(bu, q)
    BY <1>2, QuotRem
  <1>4. k \in Int /\ m \in Int /\ k * NanosMod + m = bn * q
    BY <1>2, QuotRem
  <1> HIDE DEF per, k, m
  <1>5. CalculateTax(cost, q) = Amount(cost.cur, per * q + k, m)
    BY DEF CalculateTax, bu, bn, per, k, m
  <1>6. Value(CalculateTax(cost, q)) = (q * per) * NanosMod + bn * q
    BY <1>3, <1>4, <1>5 DEF Amount, Value
  <1>7. q = 1 => per = bu
    BY <1>2, <1>3
  <1>8. per \in Nat /\ bu \in Nat /\ bn \in Nat /\ q * per <= bu
    BY <1>2, <1>3
  <1> QED
    BY <1>6, <1>7, <1>8, Zenon DEF bu, bn

\* The other way round, q items are taxed less than q times one item, by the tax on the
\* units of all items but one: calculateTax divides the units by the quantity before it
\* multiplies them by it.  The tax is per unit, as main.go calls it, for no line of several
\* items whose units are taxed at all.
THEOREM UnitsAreTaxedOnce ==
    ASSUME NEW cost, IsAmount(cost), cost.units >= 0, cost.nanos >= 0,
           NEW q \in Nat \ {0}
    PROVE  /\ Value(CalculateTax(cost, q)) + (q - 1) * (Quot(cost.units, TaxDiv) * NanosMod)
                <= q * Value(CalculateTax(cost, 1))
           /\ q > 1 /\ cost.units >= TaxDiv
                => Value(CalculateTax(cost, q)) < q * Value(CalculateTax(cost, 1))
  <1> DEFINE bu == Quot(cost.units, TaxDiv)
             bn == Quot(cost.nanos, TaxDiv)
             v == Value(CalculateTax(cost, q))
             w == Value(CalculateTax(cost, 1))
  <1>1. PICK per \in Nat : /\ bu \in Nat /\ bn \in Nat /\ q * per <= bu
                          /\ v = (q * per) * NanosMod + bn * q
    BY TaxOfALine
  <1>2. PICK one \in Nat : one = bu /\ w = (1 * one) * NanosMod + bn * 1
    BY TaxOfALine
  <1>3. NanosMod \in Nat /\ NanosMod > 1 /\ TaxDiv \in Nat \ {0}
    BY NanosModAssumption, TaxDivAssumption
  <1>4. cost.units >= TaxDiv => bu >= 1
    <2>1. cost.units \in Int
      BY DEF IsAmount
    <2>2. /\ bu \in Int /\ Rem(cost.units, TaxDiv) \in Int /\ Rem(cost.units, TaxDiv) < TaxDiv
          /\ cost.units = TaxDiv * bu + Rem(cost.units, TaxDiv)
      BY <1>3, <2>1, QuotRem
    <2> HIDE DEF bu
    <2>3. bu = 0 => TaxDiv * bu = 0
      BY <1>3
    <2> QED
      BY <1>1, <1>3, <2>1, <2>2, <2>3
  <1> HIDE DEF bu, bn, v, w
  <1>5. (q * per) * NanosMod <= bu * NanosMod
    BY <1>1, <1>3
  <1>6. q * w = q * (bu * NanosMod) + bn * q
    BY <1>1, <1>2, <1>3
  <1>7. q * (bu * NanosMod) = bu * NanosMod + (q - 1) * (bu * NanosMod)
    BY <1>1, <1>3
  <1>8. /\ bu * NanosMod \in Nat /\ (q - 1) * (bu * NanosMod) \in Nat /\ bn * q \in Nat
        /\ (q * per) * NanosMod \in Nat
    BY <1>1, <1>3
  <1>9. v + (q - 1) * (bu * NanosMod) <= q * w
    BY <1>1, <1>5, <1>6, <1>7, <1>8
  <1>10. ASSUME q > 1, cost.units >= TaxDiv PROVE v < q * w
    <2>1. bu * NanosMod >= 1
      BY <1>1, <1>3, <1>4, <1>10
    <2>2. (q - 1) * (bu * NanosMod) >= 1
      BY <1>8, <1>10, <2>1
    <2>3. v \in Int /\ q * w \in Int
      BY <1>1, <1>6, <1>8
    <2> QED
      BY <1>8, <1>9, <2>2, <2>3
  <1> QED
    BY <1>9, <1>10 DEF bu, v, w

-----------------------------------------------------------------------------
\* Amounts that pricing meets: prices, and the malformed unit less a fraction that Sum
\* makes of two fractions.
Shape(m) == /\ IsAmount(m)
            /\ \/ m.units >= 0 /\ m.nanos >= 0 /\ m.nanos < NanosMod
               \/ m.units = 1 /\ m.nanos < 0 /\ m.nanos > -NanosMod
Zeroed(m) == m.units = 0 /\ m.nanos = 0

Cost == lines[i].cost
Running == pc \in {"shipping", "line", "multiply", "tax", "charge"}

\* Where PlaceOrder stands, and the quantities it has passed.
Place ==
    /\ Len(lines) >= 1
    /\ pc = "charge" => i > Len(lines)
    /\ \A k \in 1..(i - 1) : k \in DOMAIN lines => Unsigned(lines[k].quantity) # 0

\* What the amounts are worth.
Exact ==
    /\ pc = "shipping" => total = Zero /\ i = 1
    /\ pc \in {"line", "multiply", "charge"} => Value(total) = due
    /\ pc = "tax" /\ Quantity # 0 => Value(total) = due
    /\ pc = "multiply" =>
         \/ Quantity = 0 /\ left = 0
         \/ /\ left >= 1 /\ left <= Quantity
            /\ Value(out) = ((Quantity - left) + 1) * Value(Cost)

\* What the amounts look like: the total is nothing or holds a unit, and it can only be
\* nothing after a line that costs nothing.
Shaped ==
    /\ Running => Shape(total) /\ (total.units = 0 => total.nanos = 0)
    /\ pc = "multiply" => Shape(out) /\ Value(out) >= Value(Cost)
    /\ pc = "tax" => total.nanos < 0 \/ total.units > 0 \/ Zeroed(Cost)
    /\ pc = "line" /\ i > 1 => total.nanos >= 0
    /\ pc = "charge" => total.nanos >= 0

PriceInv == TypeOK /\ Place /\ Exact /\ Shaped

-----------------------------------------------------------------------------
\* Accepted amounts of the shape are prices; their sum is nothing only if both are, it
\* has the shape, and a unit in either keeps it well formed.
LEMMA SumShape ==
    ASSUME NEW l, NEW r, Shape(l), Shape(r), Sum(l, r).err = "none"
    PROVE  LET s == Sum(l, r).val
           IN  /\ Shape(s) /\ (s.units = 0 => s.nanos = 0)
               /\ s.units = 0 => Zeroed(l) /\ Zeroed(r)
               /\ l.units > 0 \/ r.units > 0 => s.nanos >= 0
               /\ Zeroed(l) /\ Zeroed(r) => s.nanos >= 0
  <1> USE NanosModAssumption
  <1> DEFINE u == l.units + r.units
             n == l.nanos + r.nanos
             c == Carry(u, n)
             q == Quot(n, NanosMod)
             m == Rem(n, NanosMod)
  <1>1. /\ l.units \in Int /\ r.units \in Int /\ l.nanos \in Int /\ r.nanos \in Int
        /\ u \in Int /\ n \in Int
    BY DEF Shape, IsAmount
  <1>2. IsValid(l) /\ IsValid(r)
    BY DEF Sum, SumRefused
  <1>3. /\ l.units >= 0 /\ l.nanos >= 0 /\ l.nanos < NanosMod
        /\ r.units >= 0 /\ r.nanos >= 0 /\ r.nanos < NanosMod
    BY <1>1, <1>2 DEF IsValid, SignMatches, Shape
  <1>4. Sum(l, r) = SumIs(Amount(l.cur, c.units, c.nanos))
    BY DEF Sum, SumRefused, SumIs
  <1>5. Sum(l, r).val.units = c.units /\ Sum(l, r).val.nanos = c.nanos
    BY <1>4 DEF SumIs, Amount
  <1>6. q \in Int /\ q >= 0 /\ m \in Int /\ m >= 0 /\ m < NanosMod
    <2>1. n \in Int /\ n >= 0 /\ NanosMod \in Nat \ {0}
      BY <1>1, <1>3
    <2> HIDE DEF n
    <2> QED
      BY <2>1, QuotRem
  <1>7. /\ u >= 0 /\ n >= 0
        /\ u = 0 /\ n = 0 => Zeroed(l) /\ Zeroed(r)
        /\ Zeroed(l) /\ Zeroed(r) => u = 0 /\ n = 0
        /\ l.units > 0 \/ r.units > 0 => u > 0
        /\ n < 2 * NanosMod
    <2>1. /\ u >= 0 /\ n >= 0 /\ (l.units > 0 \/ r.units > 0 => u > 0)
          /\ n < 2 * NanosMod
      BY <1>1, <1>3
    <2>2. u = 0 <=> l.units = 0 /\ r.units = 0
      BY <1>1, <1>3
    <2>3. n = 0 <=> l.nanos = 0 /\ r.nanos = 0
      BY <1>1, <1>3
    <2> HIDE DEF u, n
    <2> QED BY <2>1, <2>2, <2>3 DEF Zeroed
  <1> DEFINE s == Sum(l, r).val
  <1> HIDE DEF u, n, s
  <1>8. CASE SameSign(u, n)
    <2>1. s.units = u + q /\ s.nanos = m
      BY <1>5, <1>8 DEF Carry, s
    <2>2. u = 0 => n = 0
      BY <1>1, <1>7, <1>8 DEF SameSign
    <2> HIDE DEF c, q, m
    <2>3. q + u >= 0 /\ (q + u = 0 => u = 0 /\ q = 0)
      BY <1>1, <1>6, <1>7
    <2>4. n = 0 => m = 0
      BY SmallQuot, <1>1 DEF m
    <2>5. Shape(s) /\ (s.units = 0 => s.nanos = 0) /\ s.nanos >= 0
      BY <1>1, <1>6, <2>1, <2>2, <2>3, <2>4 DEF Shape, IsAmount
    <2>6. s.units = 0 => Zeroed(l) /\ Zeroed(r)
      BY <1>1, <1>6, <1>7, <2>1, <2>2, <2>3
    <2> QED
      BY <2>5, <2>6 DEF s
  <1>9. CASE ~SameSign(u, n)
    <2>1. u = 0 /\ n > 0
      BY <1>1, <1>7, <1>9 DEF SameSign
    <2>2. s.units = 1 /\ s.nanos = n - NanosMod
      BY <1>5, <1>9, <2>1 DEF Carry, s
    <2>3. Shape(s) /\ s.units # 0
      BY <1>1, <1>7, <2>1, <2>2 DEF Shape, IsAmount
    <2> QED
      BY <1>1, <1>7, <2>1, <2>3 DEF s
  <1> QED
    BY <1>8, <1>9

LEMMA PricesHaveShape ==
    ASSUME NEW m \in Prices
    PROVE  Shape(m) /\ m.units >= 0 /\ m.nanos >= 0 /\ m.nanos < NanosMod /\ m.cur = Currency
  BY NanosModAssumption DEF Prices, Shape, IsAmount, IsValid, ValidNanos

\* No tax on nothing.
LEMMA NoTaxOnFreeLine ==
    ASSUME NEW cost, IsAmount(cost), Zeroed(cost), NEW q \in Nat \ {0}
    PROVE  Zeroed(CalculateTax(cost, q))
  <1>1. TaxDiv \in Nat \ {0} /\ NanosMod \in Nat \ {0}
    BY NanosModAssumption, TaxDivAssumption
  <1>2. Quot(0, TaxDiv) = 0 /\ Quot(0, q) = 0 /\ Quot(0, NanosMod) = 0 /\ Rem(0, NanosMod) = 0
    BY <1>1, SmallQuot
  <1>3. 0 * q = 0
    OBVIOUS
  <1> QED
    BY <1>2, <1>3 DEF CalculateTax, Zeroed, Amount

-----------------------------------------------------------------------------
LEMMA InitPrice == Init => PriceInv
  <1> SUFFICES ASSUME Init PROVE PriceInv
    OBVIOUS
  <1> USE DEF Init
  <1>1. lines \in Seq(Line) /\ Len(lines) >= 1
    OBVIOUS
  <1>2. Zero.units = 0 /\ Zero.nanos = 0 /\ Zero \in AnyAmount
    BY DEF Zero, Amount, AnyAmount
  <1>3. TypeOK
    BY <1>1, <1>2 DEF TypeOK
  <1>4. Place /\ Exact
    BY <1>1 DEF Place, Exact
  <1>5. Shaped
    BY <1>2, NanosModAssumption DEF Shaped, Shape, IsAmount
  <1> QED
    BY <1>3, <1>4, <1>5 DEF PriceInv

\* The line at hand.
LEMMA LineAtHand ==
    ASSUME TypeOK, i <= Len(lines)
    PROVE  /\ i \in DOMAIN lines /\ lines[i] \in Line
           /\ Cost \in Prices /\ Quantity \in Nat
  <1>1. i \in DOMAIN lines /\ lines[i] \in Line
    BY DEF TypeOK
  <1>2. lines[i].cost \in Costs /\ lines[i].quantity \in Int
    BY <1>1, QuantitiesAssumption DEF Line
  <1> QED
    BY <1>1, <1>2, CostsAssumption, UintModAssumption DEF Cost, Quantity, Unsigned

\* A record of the right fields is an amount.
LEMMA AnyAmountFields ==
    ASSUME NEW cur \in {Currency, ""}, NEW u \in Int, NEW n \in Int
    PROVE  [cur |-> cur, units |-> u, nanos |-> n] \in AnyAmount
  <1> DEFINE S == {Currency, ""}
  <1>1. cur \in S
    OBVIOUS
  <1> HIDE DEF S
  <1>2. [cur |-> cur, units |-> u, nanos |-> n] \in [cur : S, units : Int, nanos : Int]
    BY <1>1
  <1> QED
    BY <1>2 DEF S, AnyAmount

\* A call of Sum yields an amount whichever way it goes.
LEMMA SumTyped ==
    ASSUME NEW l, NEW r, l \in AnyAmount, IsAmount(r)
    PROVE  /\ Sum(l, r).val \in AnyAmount
           /\ Sum(l, r).err = "none" => Sum(l, r).val.cur = l.cur
  <1>1. IsAmount(l) /\ l.cur \in {Currency, ""}
    BY DEF AnyAmount, IsAmount
  <1>2. CASE Sum(l, r).err = "none"
    <2> DEFINE c == Carry(l.units + r.units, l.nanos + r.nanos)
    <2>1. IsAmount(Sum(l, r).val)
      BY <1>1, <1>2, SumIsExactAlways
    <2>2. Sum(l, r) = SumIs(Amount(l.cur, c.units, c.nanos))
      BY <1>2 DEF Sum, SumRefused
    <2> HIDE DEF c
    <2>3. Sum(l, r).val = [cur |-> l.cur, units |-> c.units, nanos |-> c.nanos]
      BY <2>2 DEF SumIs, Amount
    <2>4. c.units \in Int /\ c.nanos \in Int
      BY <2>1, <2>3 DEF IsAmount
    <2>5. [cur |-> l.cur, units |-> c.units, nanos |-> c.nanos] \in AnyAmount
      BY <1>1, <2>4, AnyAmountFields
    <2> QED
      BY <2>3, <2>5
  <1>3. CASE Sum(l, r).err # "none"
    <2>1. Sum(l, r).val = Amount("", 0, 0)
      BY <1>3 DEF Sum, SumRefused, SumIs
    <2>2. Amount("", 0, 0) \in AnyAmount
      <3>1. 0 \in Int
        OBVIOUS
      <3> QED
        BY <3>1, AnyAmountFields, Zenon DEF Amount
    <2> QED
      BY <1>3, <2>1, <2>2
  <1> QED
    BY <1>2, <1>3

-----------------------------------------------------------------------------
\* What a step that adds to the total does when Sum accepts.
LEMMA AddedToTotal ==
    ASSUME PriceInv, Running, NEW addend, Shape(addend), NEW next, AddToTotal(addend, next)
    PROVE  /\ total' \in AnyAmount
           /\ pc' # "failed" =>
                /\ pc' = next
                /\ Value(total') = Value(total) + Value(addend)
                /\ Shape(total') /\ (total'.units = 0 => total'.nanos = 0)
                /\ total'.units = 0 => Zeroed(total) /\ Zeroed(addend)
                /\ total.units > 0 \/ addend.units > 0 => total'.nanos >= 0
                /\ Zeroed(total) /\ Zeroed(addend) => total'.nanos >= 0
                /\ total.nanos >= 0
  <1>1. total \in AnyAmount /\ Shape(total) /\ IsAmount(addend) /\ IsAmount(total)
    BY DEF PriceInv, TypeOK, Shaped, Running, Shape
  <1>2. total' = Sum(total, addend).val
    BY DEF AddToTotal
  <1>3. total' \in AnyAmount
    BY <1>1, <1>2, SumTyped
  <1>4. pc' # "failed" => Sum(total, addend).err = "none" /\ pc' = next
    BY DEF AddToTotal
  <1>5. Sum(total, addend).err = "none" => total.nanos >= 0
    <2>1. Sum(total, addend).err = "none" => IsValid(total)
      BY DEF Sum, SumRefused
    <2> QED
      BY <1>1, <2>1 DEF IsValid, SignMatches, Shape, IsAmount
  <1> QED
    BY <1>1, <1>2, <1>3, <1>4, <1>5, SumShape, SumIsExactAlways

LEMMA StepShipping == ASSUME PriceInv, AddShipping PROVE PriceInv'
  <1> USE DEF AddShipping, bill
  <1>1. Shape(shipping) /\ Running
    BY ShippingsAssumption, PricesHaveShape DEF PriceInv, TypeOK, Running
  <1>2. AddToTotal(shipping, "line")
    OBVIOUS
  <1>3. total' \in AnyAmount /\ (pc' # "failed" =>
          /\ pc' = "line" /\ Value(total') = Value(total) + Value(shipping)
          /\ Shape(total') /\ (total'.units = 0 => total'.nanos = 0))
    BY <1>1, <1>2, AddedToTotal
  <1>4. pc' \in {"line", "failed"}
    BY <1>2 DEF AddToTotal
  <1>5. Value(total) = 0 /\ Value(shipping) \in Int
    BY <1>1, NanosModAssumption DEF PriceInv, Exact, Zero, Amount, Value, Shape, IsAmount
  <1>6. TypeOK'
    BY <1>3, <1>4, <1>5 DEF PriceInv, TypeOK
  <1>7. Place'
    BY <1>4 DEF PriceInv, Place
  <1>8. Exact'
    BY <1>3, <1>4, <1>5 DEF PriceInv, Exact
  <1>9. Shaped'
    BY <1>3, <1>4 DEF PriceInv, Shaped, Exact, TypeOK, Running
  <1> QED
    BY <1>6, <1>7, <1>8, <1>9 DEF PriceInv

LEMMA StepStart == ASSUME PriceInv, StartLine PROVE PriceInv'
  <1> USE DEF StartLine, bill
  <1>1. /\ Cost \in Prices /\ Quantity \in Nat /\ Shape(Cost) /\ Cost.cur = Currency
    BY LineAtHand, PricesHaveShape DEF PriceInv
  <1>2. out' = Cost /\ Cost' = Cost /\ left' = Quantity /\ Quantity' = Quantity
    BY DEF Cost, Quantity
  <1>3. Value(Cost) \in Int
    BY <1>1, NanosModAssumption DEF Value, Shape, IsAmount
  <1>4. Cost \in AnyAmount
    <2>1. Cost \in [cur : {Currency}, units : Nat, nanos : Nat]
      BY <1>1 DEF Prices
    <2>2. /\ Cost = [cur |-> Cost.cur, units |-> Cost.units, nanos |-> Cost.nanos]
          /\ Cost.cur = Currency /\ Cost.units \in Int /\ Cost.nanos \in Int
      BY <2>1
    <2> QED
      BY <2>2, AnyAmountFields
  <1>5. TypeOK'
    BY <1>1, <1>2, <1>4 DEF PriceInv, TypeOK
  <1>6. Place'
    BY DEF PriceInv, Place
  <1>7. Exact'
    BY <1>1, <1>2, <1>3 DEF PriceInv, Exact
  <1>8. Shaped'
    BY <1>1, <1>2, <1>3 DEF PriceInv, Shaped, Running
  <1> QED
    BY <1>5, <1>6, <1>7, <1>8 DEF PriceInv

LEMMA StepMultiply == ASSUME PriceInv, Multiply PROVE PriceInv'
  <1> USE DEF Multiply, bill
  <1> DEFINE s == Sum(out, Cost)
  <1>1. /\ Cost \in Prices /\ Quantity \in Nat /\ Shape(Cost) /\ Shape(out)
        /\ Value(out) >= Value(Cost) /\ Cost.units >= 0 /\ Cost.nanos >= 0
    BY LineAtHand, PricesHaveShape DEF PriceInv, TypeOK, Shaped
  <1>2. Cost' = Cost /\ Quantity' = Quantity
    BY DEF Cost, Quantity
  <1>3. Value(Cost) \in Int /\ Value(Cost) >= 0 /\ Value(out) \in Int
    BY <1>1, NanosModAssumption DEF Value, Shape, IsAmount
  <1>4. s.val \in AnyAmount
    BY <1>1, SumTyped DEF PriceInv, TypeOK, Shape
  <1>5. CASE s.err = "none"
    <2>1. out' = s.val /\ left' = left - 1 /\ pc' = pc
      BY <1>5 DEF Cost
    <2>2. Shape(out') /\ Value(out') = Value(out) + Value(Cost)
      BY <1>1, <1>5, <2>1, SumShape, SumIsExactAlways DEF Shape
    <2> HIDE DEF s
    <2>3. TypeOK'
      BY <1>4, <2>1 DEF PriceInv, TypeOK
    <2>4. Place'
      BY <2>1 DEF PriceInv, Place
    <2>5. Value(out) = ((Quantity - left) + 1) * Value(Cost) /\ left <= Quantity
      BY DEF PriceInv, Exact, TypeOK
    <2>6. Value(out') = ((Quantity - left') + 1) * Value(Cost)
      BY <1>1, <1>3, <2>1, <2>2, <2>5 DEF PriceInv, TypeOK
    <2>7. Exact'
      BY <1>1, <1>2, <2>1, <2>5, <2>6 DEF PriceInv, Exact, TypeOK
    <2>8. Shaped'
      BY <1>1, <1>2, <1>3, <2>1, <2>2 DEF PriceInv, Shaped, Running
    <2> QED
      BY <2>3, <2>4, <2>7, <2>8 DEF PriceInv
  <1>6. CASE s.err # "none"
    <2>1. pc' = "panicked" /\ UNCHANGED <<out, left>>
      BY <1>6 DEF Cost
    <2> QED
      BY <2>1 DEF PriceInv, TypeOK, Place, Exact, Shaped, Running
  <1> QED
    BY <1>5, <1>6

LEMMA StepCost == ASSUME PriceInv, AddCost PROVE PriceInv'
  <1> USE DEF AddCost, bill
  <1>1. /\ Cost \in Prices /\ Quantity \in Nat /\ Shape(Cost) /\ Shape(out) /\ Running
        /\ Value(out) >= Value(Cost) /\ Cost.units >= 0 /\ Cost.nanos >= 0
    BY LineAtHand, PricesHaveShape DEF PriceInv, TypeOK, Shaped, Running
  <1>2. Cost' = Cost /\ Quantity' = Quantity
    BY DEF Cost, Quantity
  <1>3. /\ Value(Cost) \in Int /\ Value(Cost) >= 0 /\ Value(out) \in Int
        /\ Quantity * Value(Cost) \in Int
    BY <1>1, NanosModAssumption DEF Value, Shape, IsAmount
  <1>4. AddToTotal(out, "tax")
    OBVIOUS
  <1>5. total' \in AnyAmount /\ (pc' # "failed" =>
          /\ pc' = "tax" /\ Value(total') = Value(total) + Value(out)
          /\ Shape(total') /\ (total'.units = 0 => total'.nanos = 0)
          /\ total'.units = 0 => Zeroed(total) /\ Zeroed(out))
    BY <1>1, <1>4, AddedToTotal
  <1>6. pc' \in {"tax", "failed"}
    BY <1>4 DEF AddToTotal
  <1>7. due' = due + Quantity * Value(Cost) /\ due' \in Int
    BY <1>3 DEF Cost, PriceInv, TypeOK
  <1>8. TypeOK'
    BY <1>5, <1>6, <1>7 DEF PriceInv, TypeOK
  <1>9. Place'
    BY <1>6 DEF PriceInv, Place
  <1>10. Quantity # 0 => Value(out) = Quantity * Value(Cost)
    BY <1>1, <1>3 DEF PriceInv, Exact, TypeOK
  <1>11. Exact'
    BY <1>2, <1>5, <1>6, <1>7, <1>10 DEF PriceInv, Exact
  <1>12. Zeroed(out) => Zeroed(Cost)
    <2>1. Zeroed(out) => Value(out) = 0
      BY NanosModAssumption DEF Zeroed, Value
    <2>2. Value(Cost) = 0 => Zeroed(Cost)
      <3>1. Cost.units \in Nat /\ Cost.nanos \in Nat
        BY <1>1 DEF Shape, IsAmount
      <3>2. Cost.units * NanosMod >= Cost.units
        BY <3>1, NanosModAssumption
      <3> QED
        BY <3>1, <3>2, NanosModAssumption DEF Value, Zeroed
    <2> QED
      BY <1>1, <1>3, <2>1, <2>2
  <1>13. Shaped'
    BY <1>2, <1>5, <1>6, <1>12 DEF Shaped, Shape, IsAmount, Running, Zeroed
  <1> QED
    BY <1>8, <1>9, <1>11, <1>13 DEF PriceInv

LEMMA StepTax == ASSUME PriceInv, AddTax PROVE PriceInv'
  <1> USE DEF AddTax, bill
  <1> DEFINE tax == CalculateTax(Cost, Quantity)
  <1>1. /\ Cost \in Prices /\ Quantity \in Nat \ {0} /\ Running
        /\ IsAmount(Cost) /\ Cost.units >= 0 /\ Cost.nanos >= 0
    BY LineAtHand, PricesHaveShape DEF PriceInv, TypeOK, Running, Shape
  <1>2. IsAmount(tax) /\ tax.units >= 0 /\ tax.nanos >= 0 /\ tax.nanos < NanosMod
    BY <1>1, TaxIsAPrice
  <1>3. Zeroed(Cost) => Zeroed(tax)
    BY <1>1, NoTaxOnFreeLine
  <1>4. AddToTotal(tax, "line") /\ due' = due + Value(tax)
    BY DEF Cost
  <1> HIDE DEF tax
  <1>5. Shape(tax) /\ Value(tax) \in Int
    BY <1>2, NanosModAssumption DEF Shape, Value, IsAmount
  <1>6. total' \in AnyAmount /\ (pc' # "failed" =>
                /\ pc' = "line"
                /\ Value(total') = Value(total) + Value(tax)
                /\ Shape(total') /\ (total'.units = 0 => total'.nanos = 0)
                /\ total.units > 0 \/ tax.units > 0 => total'.nanos >= 0
                /\ Zeroed(total) /\ Zeroed(tax) => total'.nanos >= 0
                /\ total.nanos >= 0)
    BY <1>1, <1>4, <1>5, AddedToTotal
  <1>7. pc' \in {"line", "failed"}
    BY <1>4 DEF AddToTotal
  <1>8. TypeOK'
    BY <1>4, <1>5, <1>6, <1>7 DEF PriceInv, TypeOK
  <1>9. Place'
    <2>1. i \in Nat \ {0} /\ i' = i + 1 /\ lines' = lines
      BY DEF PriceInv, TypeOK
    <2>2. \A k \in 1..i : k \in DOMAIN lines => Unsigned(lines[k].quantity) # 0
      BY <2>1 DEF PriceInv, Place, Quantity
    <2> QED
      BY <1>7, <2>1, <2>2 DEF PriceInv, Place
  <1>10. Exact'
    BY <1>4, <1>6, <1>7 DEF PriceInv, Exact
  <1>11. pc' = "line" => total'.nanos >= 0
    <2>1. Shape(total) /\ (total.units = 0 => total.nanos = 0)
          /\ (total.nanos < 0 \/ total.units > 0 \/ Zeroed(Cost))
      BY <1>1 DEF PriceInv, Shaped
    <2>2. total.units \in Int /\ (total.units > 0 \/ total.units = 0)
      BY <2>1 DEF Shape, IsAmount
    <2> QED
      BY <1>3, <1>6, <2>1, <2>2 DEF Zeroed, Shape, IsAmount
  <1>12. Shaped'
    BY <1>6, <1>7, <1>11 DEF Shaped, Running
  <1> QED
    BY <1>8, <1>9, <1>10, <1>12 DEF PriceInv

LEMMA StepZero == ASSUME PriceInv, DivideByZero PROVE PriceInv'
  BY DEF DivideByZero, bill, PriceInv, TypeOK, Place, Exact, Shaped, Running

LEMMA StepCharge == ASSUME PriceInv, Charge PROVE PriceInv'
  <1> USE DEF Charge, bill, PriceInv
  <1>1. i > 1
    BY DEF TypeOK, Place
  <1>2. TypeOK' /\ Place' /\ Exact'
    BY DEF TypeOK, Place, Exact
  <1>3. Shaped'
    BY <1>1 DEF Shaped, Running
  <1> QED
    BY <1>2, <1>3

THEOREM PriceInvAlways == Spec => []PriceInv
  <1>1. PriceInv /\ [Next]_vars => PriceInv'
    <2> SUFFICES ASSUME PriceInv, [Next]_vars PROVE PriceInv'
      OBVIOUS
    <2>1. CASE UNCHANGED vars
      BY <2>1 DEF vars, PriceInv, TypeOK, Place, Exact, Shaped, Running, Cost, Quantity
    <2>2. CASE Next
      BY <2>2, StepShipping, StepStart, StepMultiply, StepCost, StepTax, StepZero,
         StepCharge DEF Next
    <2> QED
      BY <2>1, <2>2
  <1> QED
    BY <1>1, InitPrice, PTL DEF Spec

\* Every variable of PlaceOrder's pricing keeps its type.
THEOREM TypeOKAlways == Spec => []TypeOK
  <1>1. PriceInv => TypeOK
    BY DEF PriceInv
  <1> QED
    BY <1>1, PriceInvAlways, PTL

\* The amount given to chargeCard is the bill to the nano, for any number of lines.
THEOREM ChargeIsExactAlways == Spec => []ChargeIsExact
  <1>1. PriceInv => ChargeIsExact
    BY DEF PriceInv, Exact, ChargeIsExact
  <1> QED
    BY <1>1, PriceInvAlways, PTL

\* The amount given to chargeCard is well formed, whatever malformed amounts Sum made.
THEOREM ChargeIsValidAlways == Spec => []ChargeIsValid
  <1>1. PriceInv => ChargeIsValid
    BY NanosModAssumption DEF PriceInv, Shaped, Running, Shape, IsAmount, ChargeIsValid,
       IsValid, SignMatches, ValidNanos
  <1> QED
    BY <1>1, PriceInvAlways, PTL

\* No order with a zero-quantity line reaches chargeCard.
THEOREM ZeroQuantityNeverChargedAlways == Spec => []ZeroQuantityNeverCharged
  <1>1. PriceInv => ZeroQuantityNeverCharged
    BY DEF PriceInv, Place, TypeOK, ZeroQuantityNeverCharged
  <1> QED
    BY <1>1, PriceInvAlways, PTL

\* No line is ever taxed above the rate.
THEOREM TaxNeverExceedsRateAlways == Spec => []TaxNeverExceedsRate
  <1>1. PriceInv => TaxNeverExceedsRate
    <2> SUFFICES ASSUME PriceInv, pc = "tax", Quantity # 0
                 PROVE  TaxDiv * Value(CalculateTax(Cost, Quantity)) <= Quantity * Value(Cost)
      BY DEF TaxNeverExceedsRate, Cost
    <2>1. /\ Quantity \in Nat \ {0} /\ IsAmount(Cost) /\ Cost.units >= 0 /\ Cost.nanos >= 0
      BY LineAtHand, PricesHaveShape DEF PriceInv, TypeOK, Shape
    <2> QED
      BY <2>1, TaxNeverExceedsRateOfLine
  <1> QED
    BY <1>1, PriceInvAlways, PTL

-----------------------------------------------------------------------------
(* Sums over the lines of an order, by induction on the number of lines.   *)

\* A set of numbers that holds 0, and with a number below n the next, holds all up to n.
LEMMA Climbs ==
    ASSUME NEW n \in Nat, NEW G, 0 \in G, \A k \in 1 .. n : k - 1 \in G => k \in G
    PROVE  n \in G
  <1> DEFINE B == {k \in 0 .. n : k \notin G}
             less == {p \in Nat \X Nat : p[1] < p[2]}
  <1> SUFFICES ASSUME B # {} PROVE FALSE
    OBVIOUS
  <1>1. PICK m \in B : \A b \in B : ~(<<b, m>> \in less)
    <2>1. B \subseteq Nat
      OBVIOUS
    <2>2. IsWellFoundedOn(less, Nat)
      BY Zenon, NatLessThanWellFounded DEF OpToRel
    <2> HIDE DEF B, less
    <2> QED
      BY <2>1, <2>2, WFMin
  <1>2. m \in 1 .. n
    OBVIOUS
  <1>3. <<m - 1, m>> \in less
    BY <1>2
  <1> QED
    BY <1>1, <1>2, <1>3

\* f is what the reduce computes of h.
IsReduce(h, n, f) == f = [k \in 0 .. n |-> IF k = 0 THEN 0 ELSE f[k - 1] + h[k]]

LEMMA ReduceAt ==
    ASSUME NEW h, NEW n \in Nat, NEW f, IsReduce(h, n, f), NEW k \in 0 .. n
    PROVE  f[k] = IF k = 0 THEN 0 ELSE f[k - 1] + h[k]
  BY DEF IsReduce

LEMMA ReducesAgree ==
    ASSUME NEW h, NEW m \in Nat, NEW n \in Nat, NEW f, NEW g,
           IsReduce(h, m, f), IsReduce(h, n, g), NEW k \in Nat, k <= m, k <= n
    PROVE  f[k] = g[k]
  <1> DEFINE G == {j \in 0 .. k : f[j] = g[j]}
  <1>1. 0 \in G
    BY ReduceAt
  <1>2. ASSUME NEW j \in 1 .. k, j - 1 \in G PROVE j \in G
    <2>1. f[j] = f[j - 1] + h[j] /\ g[j] = g[j - 1] + h[j]
      BY ReduceAt
    <2> QED
      BY <1>2, <2>1
  <1>3. k \in G
    <2> HIDE DEF G
    <2> QED
      BY <1>1, <1>2, Climbs
  <1> QED
    BY <1>3

LEMMA ReduceExists ==
    ASSUME NEW h, NEW n \in Nat
    PROVE  \E f : IsReduce(h, n, f)
  <1> DEFINE G == {k \in 0 .. n : \E f : IsReduce(h, k, f)}
  <1>1. 0 \in G
    <2> DEFINE f == [k \in 0 .. 0 |-> 0]
    <2>1. f = [k \in 0 .. 0 |-> IF k = 0 THEN 0 ELSE f[k - 1] + h[k]]
      OBVIOUS
    <2>2. IsReduce(h, 0, f)
      BY <2>1 DEF IsReduce
    <2> QED
      BY <2>2
  <1>2. ASSUME NEW k \in 1 .. n, k - 1 \in G PROVE k \in G
    <2>1. PICK f : IsReduce(h, k - 1, f)
      BY <1>2
    <2> DEFINE g == [j \in 0 .. k |-> IF j = k THEN f[k - 1] + h[k] ELSE f[j]]
               r == [j \in 0 .. k |-> IF j = 0 THEN 0 ELSE g[j - 1] + h[j]]
    <2>2. ASSUME NEW j \in 0 .. k PROVE g[j] = r[j]
      <3>1. CASE j = k
        BY <3>1
      <3>2. CASE j # k
        <4>1. k - 1 \in Nat /\ j \in 0 .. (k - 1)
          BY <3>2
        <4>2. f[j] = IF j = 0 THEN 0 ELSE f[j - 1] + h[j]
          BY <2>1, <4>1, ReduceAt
        <4>3. g[j] = f[j] /\ (j # 0 => g[j - 1] = f[j - 1])
          BY <3>2
        <4> QED
          BY <4>2, <4>3
      <3> QED
        BY <3>1, <3>2
    <2>3. g = r
      BY <2>2
    <2>4. IsReduce(h, k, g)
      BY <2>3 DEF IsReduce
    <2> QED
      BY <2>4
  <1>3. n \in G
    <2> HIDE DEF G
    <2> QED
      BY <1>1, <1>2, Climbs
  <1> QED
    BY <1>3

LEMMA UpToIsReduce ==
    ASSUME NEW h, NEW n \in Nat
    PROVE  \E f : IsReduce(h, n, f) /\ UpTo(h, n) = f[n]
  <1>1. UpTo(h, n) = (CHOOSE f : IsReduce(h, n, f))[n]
    BY Zenon DEF UpTo, IsReduce
  <1> QED
    BY <1>1, ReduceExists

\* One line more.
LEMMA UpToStep ==
    ASSUME NEW h
    PROVE  /\ UpTo(h, 0) = 0
           /\ \A n \in Nat \ {0} : UpTo(h, n) = UpTo(h, n - 1) + h[n]
  <1>1. UpTo(h, 0) = 0
    BY UpToIsReduce, ReduceAt
  <1>2. ASSUME NEW n \in Nat \ {0} PROVE UpTo(h, n) = UpTo(h, n - 1) + h[n]
    <2>1. PICK f : IsReduce(h, n, f) /\ UpTo(h, n) = f[n]
      BY UpToIsReduce
    <2>2. PICK g : IsReduce(h, n - 1, g) /\ UpTo(h, n - 1) = g[n - 1]
      BY UpToIsReduce
    <2>3. f[n - 1] = g[n - 1]
      BY <2>1, <2>2, ReducesAgree
    <2>4. f[n] = f[n - 1] + h[n]
      BY <2>1, ReduceAt
    <2> QED
      BY <2>1, <2>2, <2>3, <2>4
  <1> QED
    BY <1>1, <1>2

\* The sum of numbers is a number, and not negative if they are not.
LEMMA UpToType ==
    ASSUME NEW h, NEW n \in Nat, \A k \in 1 .. n : h[k] \in Int
    PROVE  /\ UpTo(h, n) \in Int
           /\ (\A k \in 1 .. n : h[k] >= 0) => UpTo(h, n) >= 0
  <1> DEFINE sum(k) == UpTo(h, k)
             G == {k \in 0 .. n : /\ sum(k) \in Int
                                  /\ (\A j \in 1 .. n : h[j] >= 0) => sum(k) >= 0}
  <1>1. sum(0) = 0 /\ \A k \in 1 .. n : sum(k) = sum(k - 1) + h[k]
    BY UpToStep
  <1> HIDE DEF sum
  <1>2. 0 \in G
    BY <1>1
  <1>3. ASSUME NEW k \in 1 .. n, k - 1 \in G PROVE k \in G
    BY <1>1, <1>3
  <1>4. n \in G
    <2> HIDE DEF G
    <2> QED
      BY <1>2, <1>3, Climbs
  <1> QED
    BY <1>4 DEF sum

\* Sums add up, line by line.
LEMMA UpToIsLinear ==
    ASSUME NEW n \in Nat, NEW c \in Int, NEW f, NEW g, NEW h,
           \A k \in 1 .. n : g[k] \in Int /\ h[k] \in Int /\ f[k] = c * g[k] + h[k]
    PROVE  UpTo(f, n) = c * UpTo(g, n) + UpTo(h, n)
  <1> DEFINE sf(k) == UpTo(f, k)
             sg(k) == UpTo(g, k)
             sh(k) == UpTo(h, k)
             G == {k \in 0 .. n : /\ sg(k) \in Int /\ sh(k) \in Int
                                  /\ sf(k) = c * sg(k) + sh(k)}
  <1>1. /\ sf(0) = 0 /\ \A k \in 1 .. n : sf(k) = sf(k - 1) + f[k]
        /\ sg(0) = 0 /\ \A k \in 1 .. n : sg(k) = sg(k - 1) + g[k]
        /\ sh(0) = 0 /\ \A k \in 1 .. n : sh(k) = sh(k - 1) + h[k]
    BY UpToStep
  <1> HIDE DEF sf, sg, sh
  <1>2. 0 \in G
    BY <1>1
  <1>3. ASSUME NEW k \in 1 .. n, k - 1 \in G PROVE k \in G
    <2>1. c * (sg(k - 1) + g[k]) = c * sg(k - 1) + c * g[k]
      BY <1>3
    <2>2. /\ sf(k) = (c * sg(k - 1) + sh(k - 1)) + (c * g[k] + h[k])
          /\ sg(k) = sg(k - 1) + g[k] /\ sh(k) = sh(k - 1) + h[k]
      BY <1>1, <1>3
    <2> QED
      BY <1>3, <2>1, <2>2
  <1>4. n \in G
    <2> HIDE DEF G
    <2> QED
      BY <1>2, <1>3, Climbs
  <1> QED
    BY <1>4 DEF sf, sg, sh

\* Smaller addends, smaller sums.
LEMMA UpToIsMonotone ==
    ASSUME NEW n \in Nat, NEW f, NEW g,
           \A k \in 1 .. n : f[k] \in Int /\ g[k] \in Int /\ f[k] <= g[k]
    PROVE  UpTo(f, n) <= UpTo(g, n)
  <1> DEFINE sf(k) == UpTo(f, k)
             sg(k) == UpTo(g, k)
             G == {k \in 0 .. n : sf(k) \in Int /\ sg(k) \in Int /\ sf(k) <= sg(k)}
  <1>1. /\ sf(0) = 0 /\ \A k \in 1 .. n : sf(k) = sf(k - 1) + f[k]
        /\ sg(0) = 0 /\ \A k \in 1 .. n : sg(k) = sg(k - 1) + g[k]
    BY UpToStep
  <1> HIDE DEF sf, sg
  <1>2. 0 \in G
    BY <1>1
  <1>3. ASSUME NEW k \in 1 .. n, k - 1 \in G PROVE k \in G
    BY <1>1, <1>3
  <1>4. n \in G
    <2> HIDE DEF G
    <2> QED
      BY <1>2, <1>3, Climbs
  <1> QED
    BY <1>4 DEF sf, sg

-----------------------------------------------------------------------------
(* What the pages show of the bill.                                        *)

Billed(k) == Unsigned(lines[k].quantity) * Value(lines[k].cost)
Tax(k) == Value(CalculateTax(lines[k].cost, Unsigned(lines[k].quantity)))
Bills == [k \in DOMAIN lines |-> Billed(k) + Tax(k)]

\* The bill so far: the shipping and the lines that have been priced.
BillInv ==
    /\ pc = "line" => i <= Len(lines) + 1
    /\ pc = "charge" => i = Len(lines) + 1
    /\ pc \in {"line", "multiply", "charge"} => due = Value(shipping) + UpTo(Bills, i - 1)
    /\ pc = "tax" => due = Value(shipping) + UpTo(Bills, i - 1) + Billed(i)

LEMMA InitBill == Init => BillInv
  BY DEF Init, BillInv

\* A line of an order: its cost and the numbers that the sums are made of.
LEMMA LineTypes ==
    ASSUME TypeOK, NEW k \in DOMAIN lines
    PROVE  /\ k \in 1 .. Len(lines) /\ Len(lines) \in Nat
           /\ lines[k].quantity \in Int /\ lines[k].quantity < UintMod
           /\ lines[k].cost.units \in Nat /\ lines[k].cost.nanos \in Nat
           /\ lines[k].cost.nanos < NanosMod
           /\ Unsigned(lines[k].quantity) \in Nat
           /\ Value(lines[k].cost) \in Int /\ Billed(k) \in Int
           /\ Unsigned(lines[k].quantity) # 0 => Tax(k) \in Int
  <1>1. k \in 1 .. Len(lines) /\ Len(lines) \in Nat /\ lines[k] \in Line
    BY DEF TypeOK
  <1>2. /\ lines[k].cost \in Prices
        /\ lines[k].quantity \in Int /\ lines[k].quantity < UintMod
    BY <1>1, CostsAssumption, QuantitiesAssumption, Int32Assumption DEF Line
  <1>3. Unsigned(lines[k].quantity) \in Nat
    BY <1>2, UintModAssumption DEF Unsigned
  <1>4. /\ lines[k].cost.units \in Nat /\ lines[k].cost.nanos \in Nat
        /\ lines[k].cost.nanos < NanosMod /\ IsAmount(lines[k].cost)
    BY <1>2, PricesHaveShape DEF Shape, IsAmount
  <1>5. Value(lines[k].cost) \in Int
    BY <1>4, NanosModAssumption DEF Value
  <1>6. Billed(k) \in Int
    BY <1>3, <1>5 DEF Billed
  <1>7. ASSUME Unsigned(lines[k].quantity) # 0 PROVE Tax(k) \in Int
    <2> DEFINE tax == CalculateTax(lines[k].cost, Unsigned(lines[k].quantity))
    <2>1. IsAmount(tax)
      BY <1>3, <1>4, <1>7, TaxIsAPrice
    <2> HIDE DEF tax
    <2>2. Value(tax) \in Int
      BY <2>1, NanosModAssumption DEF IsAmount, Value
    <2> QED
      BY <2>2 DEF Tax, tax
  <1> QED
    BY <1>1, <1>2, <1>3, <1>4, <1>5, <1>6, <1>7

LEMMA StepBill == PriceInv /\ BillInv /\ [Next]_vars => BillInv'
  <1> SUFFICES ASSUME PriceInv, BillInv, [Next]_vars PROVE BillInv'
    OBVIOUS
  <1>1. CASE AddShipping
    <2>1. i = 1 /\ i' = i /\ lines' = lines /\ shipping' = shipping /\ due' = Value(shipping)
      BY <1>1 DEF AddShipping, bill, PriceInv, Exact
    <2>2. pc' \in {"line", "failed"}
      BY <1>1 DEF AddShipping, AddToTotal
    <2>3. Value(shipping) \in Int
      BY ShippingsAssumption, PricesHaveShape, NanosModAssumption
         DEF PriceInv, TypeOK, Shape, IsAmount, Value
    <2>4. UpTo(Bills', 0) = 0
      BY UpToStep
    <2>5. Len(lines) \in Nat
      BY DEF PriceInv, TypeOK
    <2> QED
      BY <2>1, <2>2, <2>3, <2>4, <2>5 DEF BillInv
  <1>2. CASE StartLine \/ Multiply \/ DivideByZero \/ UNCHANGED vars
    <2>1. /\ UNCHANGED <<lines, shipping, i, due>>
          /\ pc' = pc \/ pc' = "panicked" \/ (pc = "line" /\ pc' = "multiply")
      BY <1>2 DEF StartLine, Multiply, DivideByZero, vars, bill
    <2> QED
      BY <2>1 DEF BillInv, Bills, Billed, Tax
  <1>3. CASE Charge
    <2>1. UNCHANGED <<lines, shipping, i, due>> /\ pc = "line" /\ pc' = "charge" /\ i > Len(lines)
      BY <1>3 DEF Charge, bill
    <2>2. i \in Nat /\ Len(lines) \in Nat
      BY DEF PriceInv, TypeOK
    <2> QED
      BY <2>1, <2>2 DEF BillInv, Bills, Billed, Tax
  <1>4. CASE AddCost
    <2>1. /\ UNCHANGED <<lines, shipping, i>> /\ pc = "multiply"
          /\ due' = due + Quantity * Value(lines[i].cost)
      BY <1>4 DEF AddCost, bill
    <2>2. pc' \in {"tax", "failed"}
      BY <1>4 DEF AddCost, AddToTotal
    <2>3. Quantity * Value(lines[i].cost) = Billed(i)
      BY DEF Quantity, Billed
    <2>4. Bills' = Bills /\ Billed(i)' = Billed(i)
      BY <2>1 DEF Bills, Billed, Tax
    <2> QED
      BY <2>1, <2>2, <2>3, <2>4 DEF BillInv
  <1>5. CASE AddTax
    <2>1. /\ UNCHANGED <<lines, shipping>> /\ pc = "tax" /\ i' = i + 1
          /\ due' = due + Tax(i) /\ Quantity # 0
      BY <1>5 DEF AddTax, bill, Tax, Quantity
    <2>2. pc' \in {"line", "failed"}
      BY <1>5 DEF AddTax, AddToTotal
    <2>3. i \in Nat \ {0} /\ i <= Len(lines) /\ i \in DOMAIN lines /\ Len(lines) \in Nat
      BY <2>1, LineAtHand DEF PriceInv, TypeOK
    <2>4. UpTo(Bills, i) = UpTo(Bills, i - 1) + (Billed(i) + Tax(i))
      BY <2>3, UpToStep DEF Bills
    <2>5. /\ Value(shipping) \in Int /\ Billed(i) \in Int /\ Tax(i) \in Int
          /\ UpTo(Bills, i - 1) \in Int
      <3>1. Value(shipping) \in Int
        BY ShippingsAssumption, PricesHaveShape, NanosModAssumption
           DEF PriceInv, TypeOK, Shape, IsAmount, Value
      <3>2. Billed(i) \in Int /\ Tax(i) \in Int
        BY <2>1, <2>3, LineTypes DEF PriceInv, Quantity
      <3>3. ASSUME NEW k \in 1 .. (i - 1) PROVE Bills[k] \in Int
        <4>1. k \in DOMAIN lines
          BY <2>3 DEF PriceInv, TypeOK
        <4>2. Unsigned(lines[k].quantity) # 0
          BY <4>1 DEF PriceInv, Place
        <4>3. Billed(k) \in Int /\ Tax(k) \in Int
          BY <4>1, <4>2, LineTypes DEF PriceInv
        <4> QED
          BY <4>1, <4>3 DEF Bills
      <3>4. UpTo(Bills, i - 1) \in Int
        BY <2>3, <3>3, UpToType
      <3> QED
        BY <3>1, <3>2, <3>4
    <2>6. Bills' = Bills
      BY <2>1 DEF Bills, Billed, Tax
    <2> QED
      BY <2>1, <2>2, <2>3, <2>4, <2>5, <2>6 DEF BillInv
  <1> QED
    BY <1>1, <1>2, <1>3, <1>4, <1>5 DEF Next

THEOREM BillInvAlways == Spec => []BillInv
  <1> QED
    BY InitBill, StepBill, PriceInvAlways, PTL DEF Spec

\* The pages carry as many nanos as there are units in them: what they show is worth
\* what they add up, and is well formed.
LEMMA CarriedIsWorth ==
    ASSUME NEW u \in Nat, NEW n \in Nat
    PROVE  Value(Carried(u, n)) = u * NanosMod + n /\ IsValid(Carried(u, n))
  <1> DEFINE q == Quot(n, NanosMod)
             m == Rem(n, NanosMod)
  <1>1. q \in Int /\ m \in Int /\ n = NanosMod * q + m /\ q >= 0 /\ m >= 0 /\ m < NanosMod
    BY QuotRem, NanosModAssumption
  <1>2. Carried(u, n) = Amount(Currency, u + q, m)
    BY DEF Carried, Quot, q, m
  <1> HIDE DEF q, m
  <1>3. (u + q) * NanosMod + m = u * NanosMod + n
    BY <1>1, NanosModAssumption
  <1>4. SignMatches(Amount(Currency, u + q, m)) /\ ValidNanos(m)
    BY <1>1, NanosModAssumption DEF SignMatches, ValidNanos, Amount
  <1> QED
    BY <1>2, <1>3, <1>4 DEF Amount, Value, IsValid

\* Units and nanos of the lines at some prices are worth the lines at these prices.
LEMMA PricedLines ==
    ASSUME TypeOK, \A k \in DOMAIN lines : lines[k].quantity > 0,
           NEW price, \A k \in DOMAIN lines : price[k].units \in Nat /\ price[k].nanos \in Nat
    PROVE  /\ Units(price) \in Nat /\ Nanos(price) \in Nat
           /\ Units(price) * NanosMod + Nanos(price)
                = OverLines([k \in DOMAIN lines |-> lines[k].quantity * Value(price[k])])
  <1> DEFINE n == Len(lines)
             units == [k \in DOMAIN lines |-> price[k].units * lines[k].quantity]
             nanos == [k \in DOMAIN lines |-> price[k].nanos * lines[k].quantity]
             worth == [k \in DOMAIN lines |-> lines[k].quantity * Value(price[k])]
  <1>1. n \in Nat /\ DOMAIN lines = 1 .. n /\ NanosMod \in Nat
    BY NanosModAssumption DEF TypeOK
  <1>2. ASSUME NEW k \in 1 .. n
        PROVE  /\ units[k] \in Int /\ units[k] >= 0 /\ nanos[k] \in Int /\ nanos[k] >= 0
               /\ worth[k] = NanosMod * units[k] + nanos[k]
    <2> DEFINE u == price[k].units
               a == price[k].nanos
               q == lines[k].quantity
    <2>1. u \in Nat /\ a \in Nat /\ q \in Nat
      BY <1>1, <1>2, LineTypes
    <2>2. units[k] = u * q /\ nanos[k] = a * q /\ worth[k] = q * (u * NanosMod + a)
      BY <1>1, <1>2 DEF Value
    <2> HIDE DEF u, a, q, units, nanos, worth
    <2>3. u * q \in Nat /\ a * q \in Nat
      BY <2>1
    <2>4. q * (u * NanosMod + a) = NanosMod * (u * q) + a * q
      BY <1>1, <2>1
    <2> QED
      BY <2>2, <2>3, <2>4
  <1>3. /\ Units(price) = UpTo(units, n) /\ Nanos(price) = UpTo(nanos, n)
        /\ OverLines([k \in DOMAIN lines |-> lines[k].quantity * Value(price[k])]) = UpTo(worth, n)
    BY DEF Units, Nanos, OverLines
  <1> HIDE DEF n, units, nanos, worth
  <1>4. /\ UpTo(units, n) \in Int /\ UpTo(units, n) >= 0
        /\ UpTo(nanos, n) \in Int /\ UpTo(nanos, n) >= 0
    <2>1. \A k \in 1 .. n : /\ units[k] \in Int /\ units[k] >= 0
                           /\ nanos[k] \in Int /\ nanos[k] >= 0
      BY <1>2
    <2> QED
      BY <1>1, <2>1, UpToType, Zenon
  <1>5. UpTo(worth, n) = NanosMod * UpTo(units, n) + UpTo(nanos, n)
    <2>1. \A k \in 1 .. n : /\ units[k] \in Int /\ nanos[k] \in Int
                           /\ worth[k] = NanosMod * units[k] + nanos[k]
      BY <1>2
    <2>2. NanosMod \in Int /\ n \in Nat
      BY <1>1
    <2> QED
      BY <2>1, <2>2, UpToIsLinear
  <1> QED
    BY <1>1, <1>3, <1>4, <1>5

\* The lines of the order page are worth what the order bills for them.
LEMMA LinesAreWorth ==
    ASSUME TypeOK, \A k \in DOMAIN lines : lines[k].quantity > 0
    PROVE  /\ Units(Costed) \in Nat /\ Nanos(Costed) \in Nat
           /\ ItemTotals = Units(Costed) * NanosMod + Nanos(Costed)
           /\ ItemTotals = OverLines([k \in DOMAIN lines |-> Billed(k)])
           /\ ItemTotals = OverLines([k \in DOMAIN lines |-> lines[k].quantity * Value(Costed[k])])
  <1> DEFINE worth == [k \in DOMAIN lines |-> Value(ItemTotal(k))]
             billed == [k \in DOMAIN lines |-> Billed(k)]
             priced == [k \in DOMAIN lines |-> lines[k].quantity * Value(Costed[k])]
  <1>1. ASSUME NEW k \in DOMAIN lines
        PROVE  /\ Costed[k].units \in Nat /\ Costed[k].nanos \in Nat
               /\ Value(ItemTotal(k)) = Billed(k)
               /\ lines[k].quantity * Value(Costed[k]) = Billed(k)
    <2> DEFINE u == lines[k].cost.units
               a == lines[k].cost.nanos
               q == lines[k].quantity
    <2>1. u \in Nat /\ a \in Nat /\ q \in Nat /\ q < UintMod /\ Costed[k] = lines[k].cost
      BY LineTypes DEF Costed
    <2>2. Unsigned(q) = q
      BY <2>1, UintModAssumption DEF Unsigned
    <2>3. Billed(k) = q * (u * NanosMod + a) /\ Billed(k) = q * Value(Costed[k])
      BY <2>1, <2>2 DEF Billed, Value
    <2>4. ItemTotal(k) = Carried(u * q, a * q)
      BY DEF ItemTotal
    <2> HIDE DEF u, a, q
    <2>5. u * q \in Nat /\ a * q \in Nat
      BY <2>1
    <2>6. Value(ItemTotal(k)) = (u * q) * NanosMod + a * q
      BY <2>4, <2>5, CarriedIsWorth
    <2>7. q * (u * NanosMod + a) = (u * q) * NanosMod + a * q
      BY <2>1, NanosModAssumption
    <2>8. Costed[k].units = u /\ Costed[k].nanos = a /\ lines[k].quantity = q
      BY <2>1 DEF u, a, q
    <2> QED
      BY <2>1, <2>3, <2>6, <2>7, <2>8
  <1>2. worth = billed /\ priced = billed
    BY <1>1
  <1>3. /\ Units(Costed) \in Nat /\ Nanos(Costed) \in Nat
        /\ Units(Costed) * NanosMod + Nanos(Costed) = OverLines(priced)
    BY <1>1, PricedLines
  <1>4. ItemTotals = OverLines(worth)
    BY DEF ItemTotals
  <1> QED
    BY <1>2, <1>3, <1>4

\* Every page that shows a total shows the lines and the shipping, and the card is
\* charged the tax of every line on top, however many lines there are.
THEOREM ShownTotalsLeaveOutOnlyTheTaxAlways == Spec => []ShownTotalsLeaveOutOnlyTheTax
  <1>1. PriceInv /\ BillInv => ShownTotalsLeaveOutOnlyTheTax
    <2> SUFFICES ASSUME PriceInv, BillInv, Charged
                 PROVE  /\ IsValid(PageTotal) /\ CartTotal(Costed) = PageTotal
                        /\ Value(PageTotal) = Value(shipping) + ItemTotals
                        /\ Value(total) = Value(PageTotal) + Taxes
      BY DEF ShownTotalsLeaveOutOnlyTheTax
    <2> DEFINE n == Len(lines)
               billed == [k \in DOMAIN lines |-> Billed(k)]
               taxes == [k \in DOMAIN lines |-> Tax(k)]
    <2>1. /\ TypeOK /\ pc = "charge" /\ \A k \in DOMAIN lines : lines[k].quantity > 0
          /\ n \in Nat /\ DOMAIN lines = 1 .. n /\ NanosMod \in Nat
      BY NanosModAssumption DEF PriceInv, TypeOK, Charged
    <2>2. /\ Units(Costed) \in Nat /\ Nanos(Costed) \in Nat
          /\ ItemTotals = Units(Costed) * NanosMod + Nanos(Costed)
          /\ ItemTotals = UpTo(billed, n)
      BY <2>1, LinesAreWorth DEF OverLines
    <2>3. shipping.units \in Nat /\ shipping.nanos \in Nat
      BY ShippingsAssumption, PricesHaveShape DEF PriceInv, TypeOK, Shape, IsAmount
    <2>4. /\ Value(PageTotal)
                = (Units(Costed) + shipping.units) * NanosMod + (Nanos(Costed) + shipping.nanos)
          /\ IsValid(PageTotal)
      BY <2>2, <2>3, CarriedIsWorth DEF PageTotal
    <2>5. CartTotal(Costed) = PageTotal
      BY DEF CartTotal, PageTotal
    <2>6. Value(PageTotal) = Value(shipping) + ItemTotals
      BY <2>1, <2>2, <2>3, <2>4 DEF Value
    <2>7. Value(total) = Value(shipping) + UpTo(Bills, n)
      BY <2>1 DEF PriceInv, Exact, BillInv
    <2>8. UpTo(Bills, n) = 1 * UpTo(billed, n) + UpTo(taxes, n)
      <3>1. ASSUME NEW k \in 1 .. n
            PROVE  /\ Bills[k] = Billed(k) + Tax(k) /\ billed[k] = Billed(k) /\ taxes[k] = Tax(k)
                   /\ Billed(k) \in Int /\ Tax(k) \in Int
        <4>1. Unsigned(lines[k].quantity) # 0
          BY <2>1, <3>1 DEF PriceInv, Place, BillInv
        <4> QED
          BY <2>1, <3>1, <4>1, LineTypes DEF Bills
      <3>2. \A k \in 1 .. n : /\ billed[k] \in Int /\ taxes[k] \in Int
                             /\ Bills[k] = 1 * billed[k] + taxes[k]
        BY <3>1
      <3> HIDE DEF billed, taxes
      <3> QED
        BY <2>1, <3>2, UpToIsLinear
    <2>9. Taxes = UpTo(taxes, n)
      BY DEF Taxes, OverLines, Tax
    <2>10. UpTo(taxes, n) \in Int /\ Value(shipping) \in Int /\ ItemTotals \in Int
      <3>1. \A k \in 1 .. n : taxes[k] \in Int
        <4> SUFFICES ASSUME NEW k \in 1 .. n PROVE taxes[k] \in Int
          OBVIOUS
        <4>1. Unsigned(lines[k].quantity) # 0
          BY <2>1 DEF PriceInv, Place, BillInv
        <4> QED
          BY <2>1, <4>1, LineTypes
      <3>2. UpTo(taxes, n) \in Int
        BY <2>1, <3>1, UpToType
      <3> QED
        BY <2>1, <2>2, <2>3, <3>2 DEF Value
    <2> HIDE DEF billed, taxes, n
    <2>11. UpTo(Bills, n) = ItemTotals + Taxes
      BY <2>2, <2>8, <2>9, <2>10
    <2>12. Value(total) = (Value(shipping) + ItemTotals) + Taxes
      BY <2>7, <2>9, <2>10, <2>11
    <2> QED
      BY <2>4, <2>5, <2>6, <2>12
  <1> QED
    BY <1>1, PriceInvAlways, BillInvAlways, PTL

-----------------------------------------------------------------------------
(* The digits that the currency service reads.                             *)

Fraction == 0 .. NanosMod - 1

\* One round of getDouble's loop after another, for up to k nanos.
IsLoop(f, k) ==
    f = [nanos \in 0 .. k |->
            [decimal \in Fraction |->
                IF nanos = 0 THEN decimal
                ELSE f[nanos \div Base][(decimal \div Base)
                                            + (nanos % Base) * (NanosMod \div Base)]]]

\* A number loses a digit.
LEMMA DigitGone ==
    ASSUME NEW n \in Nat
    PROVE  /\ n \div Base \in Nat /\ n % Base \in 0 .. Base - 1
           /\ n = Base * (n \div Base) + (n % Base)
           /\ n > 0 => n \div Base < n
  <1>1. Base \in Nat /\ Base >= 2
    BY BaseAssumption, NanosModAssumption
  <1>2. /\ n \div Base \in Nat /\ n % Base \in 0 .. Base - 1
        /\ n = Base * (n \div Base) + (n % Base)
    BY <1>1
  <1> DEFINE m == n \div Base
  <1>3. Base * m >= 2 * m
    BY <1>1, <1>2
  <1> QED
    BY <1>1, <1>2, <1>3

LEMMA LoopExists == ASSUME NEW n \in Nat PROVE \E f : IsLoop(f, n)
  <1> DEFINE next(k, d) == (d \div Base) + (k % Base) * (NanosMod \div Base)
             G == {k \in 0 .. n : \E f : IsLoop(f, k)}
  <1>1. 0 \in G
    <2> DEFINE f == [k \in 0 .. 0 |-> [d \in Fraction |-> d]]
               r == [k \in 0 .. 0 |-> [d \in Fraction |-> IF k = 0 THEN d ELSE f[k \div Base][next(k, d)]]]
    <2> HIDE DEF next
    <2>1. f = r
      OBVIOUS
    <2>2. IsLoop(f, 0)
      BY <2>1, Zenon DEF IsLoop, next
    <2> QED
      BY <2>2
  <1>2. ASSUME NEW k \in 1 .. n, k - 1 \in G PROVE k \in G
    <2>1. PICK f : IsLoop(f, k - 1)
      BY <1>2
    <2> DEFINE last == [d \in Fraction |-> f[k \div Base][next(k, d)]]
               g == [j \in 0 .. k |-> IF j = k THEN last ELSE f[j]]
               row(j) == [d \in Fraction |-> IF j = 0 THEN d ELSE g[j \div Base][next(j, d)]]
               r == [j \in 0 .. k |-> row(j)]
    <2> HIDE DEF next
    <2>2. ASSUME NEW j \in 0 .. k PROVE g[j] = row(j)
      <3>1. j # 0 => j \div Base \in 0 .. k /\ j \div Base < j
        BY DigitGone
      <3>2. j # 0 => g[j \div Base] = f[j \div Base]
        BY <3>1
      <3>3. CASE j = k
        <4>1. g[j] = last
          BY <3>3
        <4>2. j = k /\ j # 0 /\ g[j \div Base] = f[k \div Base]
          BY <3>2, <3>3
        <4> HIDE DEF g
        <4>3. row(j) = last
          BY <4>2
        <4> QED
          BY <4>1, <4>3
      <3>4. CASE j # k
        <4>1. f[j] = [d \in Fraction |-> IF j = 0 THEN d ELSE f[j \div Base][next(j, d)]]
          <5>1. j \in 0 .. (k - 1)
            BY <3>4
          <5>2. f = [b \in 0 .. (k - 1) |->
                        [d \in Fraction |-> IF b = 0 THEN d ELSE f[b \div Base][next(b, d)]]]
            BY <2>1, Zenon DEF IsLoop, next
          <5> QED
            BY <5>1, <5>2, Zenon
        <4>2. g[j] = f[j]
          BY <3>4
        <4> QED
          BY <3>2, <4>1, <4>2
      <3> QED
        BY <3>3, <3>4
    <2>3. g = r
      BY <2>2
    <2> HIDE DEF g
    <2>4. IsLoop(g, k)
      BY <2>3, Zenon DEF IsLoop, next
    <2> QED
      BY <2>4
  <1>3. n \in G
    <2> HIDE DEF G
    <2> QED
      BY <1>1, <1>2, Climbs
  <1> QED
    BY <1>3

LEMMA DecimalAt ==
    ASSUME NEW n \in Fraction, NEW d \in Fraction
    PROVE  Decimal[n][d] = IF n = 0 THEN d
                           ELSE Decimal[n \div Base][(d \div Base)
                                                        + (n % Base) * (NanosMod \div Base)]
  <1>1. Decimal = CHOOSE f : IsLoop(f, NanosMod - 1)
    BY Zenon DEF Decimal, IsLoop, Fraction
  <1>2. NanosMod - 1 \in Nat
    BY NanosModAssumption
  <1>3. IsLoop(Decimal, NanosMod - 1)
    BY <1>1, <1>2, LoopExists, Zenon
  <1>4. Decimal = [nanos \in Fraction |->
            [decimal \in Fraction |->
                IF nanos = 0 THEN decimal
                ELSE Decimal[nanos \div Base][(decimal \div Base)
                                            + (nanos % Base) * (NanosMod \div Base)]]]
    BY <1>3, Zenon DEF IsLoop, Fraction
  <1>5. Decimal[n] = [decimal \in Fraction |->
                        IF n = 0 THEN decimal
                        ELSE Decimal[n \div Base][(decimal \div Base)
                                                      + (n % Base) * (NanosMod \div Base)]]
    BY <1>4, Zenon
  <1> QED
    BY <1>5, Zenon

\* What getDouble reads of nanos with so many digits, p being the first power of the base
\* above them, after other digits worth x: it takes them for as many decimals.
LEMMA LoopReads ==
    ASSUME NEW p \in Places, NEW r \in Nat, p * r = NanosMod,
           NEW n \in Nat, n < p, n * Base >= p, NEW x \in Nat, x < r, p > 1
    PROVE  Decimal[n][x * p] = n * r + x
  <1> DEFINE Reads(q) ==
                \A s, m, y \in Nat :
                    q * s = NanosMod /\ m < q /\ m * Base >= q /\ y < s
                        => Decimal[m][y * q] = m * s + y
             G == {k \in 0 .. NanosMod : \A q \in Places : q <= k /\ q > 1 => Reads(q)}
  <1>1. /\ Base \in Nat /\ Base >= 2 /\ NanosMod \in Nat /\ NanosMod > 1
        /\ \A q \in Places : q \in Nat /\ q >= 1 /\ q <= NanosMod
    BY BaseAssumption, NanosModAssumption, PlacesAssumption
  <1>2. 0 \in G
    BY <1>1
  <1>3. ASSUME NEW k \in 1 .. NanosMod, k - 1 \in G PROVE k \in G
    <2>1. SUFFICES ASSUME NEW q \in Places, q = k, q > 1 PROVE Reads(q)
      BY <1>1, <1>3
    <2>2. SUFFICES ASSUME NEW s \in Nat, NEW m \in Nat, NEW y \in Nat,
                          q * s = NanosMod, m < q, m * Base >= q, y < s
                   PROVE  Decimal[m][y * q] = m * s + y
      OBVIOUS
    <2>3. PICK t \in Places : q = Base * t
      BY <2>1, PlacesAssumption
    <2> DEFINE c == m % Base
               l == m \div Base
    <2>4. l \in Nat /\ c \in 0 .. Base - 1 /\ m = Base * l + c
      BY DigitGone
    <2>5. t \in Nat /\ t >= 1 /\ t < q
      BY <1>1, <2>1, <2>3
    <2> HIDE DEF G, Reads
    <2>6. m \in Fraction /\ m # 0
      BY <1>1, <2>1, <2>2 DEF Fraction
    <2>7. y * q \in Fraction
      <3>1. y * q < s * q
        BY <1>1, <2>1, <2>2
      <3>2. s * q = NanosMod /\ y * q \in Nat
        BY <1>1, <2>1, <2>2
      <3> QED
        BY <1>1, <3>1, <3>2 DEF Fraction
    <2>8. (y * q) \div Base = y * t
      <3>1. y * q = Base * (y * t) /\ y * t \in Nat
        BY <1>1, <2>3, <2>5
      <3> QED
        BY <1>1, <3>1
    <2>9. NanosMod \div Base = t * s
      <3>1. NanosMod = Base * (t * s) /\ t * s \in Nat
        BY <1>1, <2>2, <2>3, <2>5
      <3> QED
        BY <1>1, <3>1
    <2>10. Decimal[m][y * q] = Decimal[l][(y * t) + c * (t * s)]
      BY <2>6, <2>7, <2>8, <2>9, DecimalAt
    <2> DEFINE z == y + c * s
               b == Base * s
    <2> HIDE DEF c, l
    <2>11. z \in Nat /\ b \in Nat /\ z < b /\ t * b = NanosMod
           /\ (y * t) + c * (t * s) = z * t
      <3>1. c * s \in Nat /\ t * s \in Nat
        BY <2>4, <2>5, <1>1
      <3>2. c * s <= (Base - 1) * s
        BY <2>4, <1>1
      <3>3. (Base - 1) * s = Base * s - s
        BY <1>1
      <3>4. t * (Base * s) = (Base * t) * s
        BY <1>1, <2>5
      <3>5. (y + c * s) * t = (y * t) + c * (t * s)
        BY <2>4, <2>5, <1>1
      <3> QED
        BY <1>1, <2>2, <2>3, <3>1, <3>2, <3>3, <3>4, <3>5
    <2>12. l * b + z = m * s + y
      <3>1. m * s = (Base * l) * s + c * s
        BY <1>1, <2>4
      <3>2. (Base * l) * s = l * (Base * s)
        BY <1>1, <2>4
      <3> QED
        BY <1>1, <2>4, <3>1, <3>2
    <2>13. CASE t = 1
      <3>1. l = 0
        <4>1. Base * l < Base
          BY <1>1, <2>2, <2>3, <2>4, <2>13
        <4> QED
          BY <1>1, <2>4, <4>1
      <3>2. z * t \in Fraction /\ z * t = z /\ 0 \in Fraction
        BY <1>1, <2>11, <2>13 DEF Fraction
      <3>3. Decimal[l][z * t] = z
        BY <3>1, <3>2, DecimalAt
      <3> QED
        BY <1>1, <2>4, <2>10, <2>11, <2>12, <3>1, <3>3
    <2>14. CASE t # 1
      <3>1. PICK o \in Places : t = Base * o
        BY <2>14, PlacesAssumption
      <3>2. o \in Nat
        BY <1>1
      <3>3. l < t
        <4>1. Base * l < Base * t
          BY <1>1, <2>2, <2>3, <2>4, <2>5
        <4> QED
          BY <1>1, <2>4, <2>5, <4>1
      <3>4. l * Base >= t
        <4>1. m * Base >= t * Base
          BY <1>1, <2>2, <2>3, <2>5
        <4>2. m >= t
          BY <1>1, <2>5, <4>1
        <4>3. Base * l + c >= Base * o /\ c < Base
          BY <1>1, <2>4, <3>1, <4>2
        <4>4. Base * (l + 1) > Base * o
          BY <1>1, <2>4, <3>2, <4>3
        <4>5. l >= o
          BY <1>1, <2>4, <3>2, <4>4
        <4>6. Base * l >= Base * o
          BY <1>1, <2>4, <3>2, <4>5
        <4> QED
          BY <1>1, <2>4, <3>1, <3>2, <4>6
      <3>5. Reads(t)
        BY <1>1, <1>3, <2>1, <2>5, <2>14 DEF G
      <3>6. Decimal[l][z * t] = l * b + z
        BY <2>4, <2>11, <3>3, <3>4, <3>5 DEF Reads
      <3> QED
        BY <2>10, <2>11, <2>12, <3>6
    <2> QED
      BY <2>13, <2>14
  <1>4. NanosMod \in G
    <2> HIDE DEF G
    <2> QED
      BY <1>1, <1>2, <1>3, Climbs
  <1>5. Reads(p)
    BY <1>1, <1>4
  <1> QED
    BY <1>5

\* Where the nanos do not lead with a zero, getDouble reads the amount.
LEMMA DoubleReads ==
    ASSUME NEW m, m.nanos \in 0 .. NanosMod - 1, ~LeadsWithZero(m)
    PROVE  Double(m) = Value(m)
  <1> DEFINE n == m.nanos
  <1>1. /\ Base \in Nat /\ Base >= 2 /\ NanosMod \in Nat /\ NanosMod > 1
        /\ NanosMod \in Places /\ n \in Fraction /\ 0 \in Fraction
    BY BaseAssumption, NanosModAssumption, PlacesAssumption DEF Fraction
  <1>2. CASE n = 0
    <2>1. Decimal[n][0] = 0
      BY <1>1, <1>2, DecimalAt
    <2> QED
      BY <1>2, <2>1 DEF Double, Value
  <1>3. CASE n # 0
    <2>1. n \in Nat /\ n < NanosMod /\ n * Base >= NanosMod
      BY <1>1, <1>3 DEF LeadsWithZero
    <2> HIDE DEF n
    <2>2. ASSUME NEW r \in Nat, r = 1, NEW x \in Nat, x = 0
          PROVE  Decimal[n][x * NanosMod] = n * r + x
      <3>1. NanosMod * r = NanosMod /\ x < r
        BY <1>1, <2>2
      <3> QED
        BY <1>1, <2>1, <3>1, LoopReads
    <2>3. Decimal[n][0 * NanosMod] = n * 1 + 0
      BY <2>2
    <2>4. 0 * NanosMod = 0 /\ n * 1 + 0 = n
      BY <1>1, <2>1
    <2> QED
      BY <2>3, <2>4 DEF Double, Value, n
  <1> QED
    BY <1>2, <1>3

\* The powers of the base divide each other, by the base at least.
LEMMA PlacesDivide ==
    ASSUME NEW p \in Places, NEW q \in Places, p < q
    PROVE  \E r \in Nat : r >= Base /\ q = p * r
  <1> DEFINE Divides(a, b) == \E r \in Nat : r >= Base /\ b = a * r
             G == {k \in 0 .. NanosMod : \A a, b \in Places : a < b /\ b <= k => Divides(a, b)}
  <1>1. /\ Base \in Nat /\ Base >= 2 /\ NanosMod \in Nat
        /\ \A a \in Places : a \in Nat /\ a >= 1 /\ a <= NanosMod
    BY BaseAssumption, NanosModAssumption, PlacesAssumption
  <1>2. 0 \in G
    BY <1>1
  <1>3. ASSUME NEW k \in 1 .. NanosMod, k - 1 \in G PROVE k \in G
    <2>1. SUFFICES ASSUME NEW a \in Places, NEW b \in Places, a < b, b = k PROVE Divides(a, b)
      BY <1>1, <1>3
    <2>2. b # 1
      BY <1>1, <2>1
    <2>3. PICK t \in Places : b = Base * t
      BY <2>2, PlacesAssumption
    <2>4. CASE a = 1
      BY <1>1, <2>3, <2>4
    <2>5. CASE a # 1
      <3>1. PICK s \in Places : a = Base * s
        BY <2>5, PlacesAssumption
      <3>2. s \in Nat /\ t \in Nat /\ s < t /\ t < b
        BY <1>1, <2>1, <2>3, <3>1
      <3>3. Divides(s, t)
        BY <1>3, <2>1, <3>2
      <3>4. PICK r \in Nat : r >= Base /\ t = s * r
        BY <3>3
      <3>5. Base * (s * r) = (Base * s) * r
        BY <1>1, <3>2
      <3> QED
        BY <2>3, <3>1, <3>4, <3>5
    <2> QED
      BY <2>4, <2>5
  <1>4. NanosMod \in G
    <2> HIDE DEF G
    <2> QED
      BY <1>1, <1>2, <1>3, Climbs
  <1> QED
    BY <1>1, <1>4

\* The first power of the base above a number.
LEMMA PlaceAbove ==
    ASSUME NEW n \in Nat, 0 < n, n < NanosMod
    PROVE  \E p \in Places : n < p /\ p <= n * Base
  <1> DEFINE found == \E p \in Places : n < p /\ p <= n * Base
             G == {k \in 0 .. NanosMod : \A q \in Places : n < q /\ q <= k => found}
  <1>1. /\ Base \in Nat /\ Base >= 2 /\ NanosMod \in Nat /\ NanosMod \in Places
        /\ \A a \in Places : a \in Nat /\ a >= 1 /\ a <= NanosMod
    BY BaseAssumption, NanosModAssumption, PlacesAssumption
  <1>2. 0 \in G
    BY <1>1
  <1>3. ASSUME NEW k \in 1 .. NanosMod, k - 1 \in G PROVE k \in G
    <2>1. SUFFICES ASSUME NEW q \in Places, n < q, q = k PROVE found
      BY <1>1, <1>3
    <2>2. CASE q <= n * Base
      BY <2>1, <2>2
    <2>3. CASE n * Base < q
      <3>1. PICK t \in Places : q = Base * t
        BY <1>1, <2>1, PlacesAssumption
      <3>2. t \in Nat /\ t < q
        BY <1>1, <3>1
      <3>3. n < t
        BY <1>1, <2>3, <3>1, <3>2
      <3> QED
        BY <1>1, <1>3, <2>1, <3>2, <3>3
    <2> QED
      BY <1>1, <2>1, <2>2, <2>3
  <1>4. NanosMod \in G
    <2> HIDE DEF G, found
    <2> QED
      BY <1>1, <1>2, <1>3, Climbs
  <1> QED
    BY <1>1, <1>4

\* Where they do, it reads more than the amount, and more the more zeros lead: a price of
\* 5.05 is converted as 5.50.
THEOREM LeadingZerosAreLost ==
    ASSUME NEW m, m.units \in Nat, m.nanos \in Nat, LeadsWithZero(m)
    PROVE  Double(m) >= Value(m) + (Base - 1) * m.nanos
  <1> DEFINE n == m.nanos
  <1>1. /\ Base \in Nat /\ Base >= 2 /\ NanosMod \in Nat /\ NanosMod \in Places
        /\ \A a \in Places : a \in Nat /\ a >= 1 /\ a <= NanosMod
        /\ n \in Nat /\ 0 < n /\ n * Base < NanosMod
    BY BaseAssumption, NanosModAssumption, PlacesAssumption DEF LeadsWithZero
  <1> HIDE DEF n
  <1>2. n < NanosMod
    <2>1. n <= n * Base
      BY <1>1
    <2> QED
      BY <1>1, <2>1
  <1>3. PICK p \in Places : n < p /\ p <= n * Base
    BY <1>1, <1>2, PlaceAbove
  <1>4. PICK r \in Nat : r >= Base /\ NanosMod = p * r
    <2>1. p \in Nat /\ p < NanosMod
      BY <1>1, <1>3
    <2> QED
      BY <1>1, <2>1, PlacesDivide
  <1>5. ASSUME NEW x \in Nat, x = 0 PROVE Decimal[n][x * p] = n * r + x
    <2>1. p * r = NanosMod /\ n * Base >= p /\ x < r /\ p > 1
      BY <1>1, <1>3, <1>4, <1>5
    <2> QED
      BY <1>1, <1>3, <2>1, LoopReads
  <1>6. Decimal[n][0 * p] = n * r + 0
    BY <1>5
  <1>7. 0 * p = 0 /\ n * r + 0 = n * r /\ n * r >= n * Base
    BY <1>1, <1>3, <1>4
  <1>8. n * Base = n + (Base - 1) * n
    BY <1>1
  <1>9. Decimal[n][0] >= n + (Base - 1) * n /\ Decimal[n][0] \in Int
    BY <1>1, <1>4, <1>6, <1>7, <1>8
  <1>10. m.units * NanosMod \in Int /\ (Base - 1) * n \in Int
    BY <1>1
  <1> QED
    BY <1>1, <1>9, <1>10 DEF Double, Value, n

-----------------------------------------------------------------------------
(* What the cart shows of the order.                                       *)

\* What the cart shows for an item is worth what the order has for it, to a nano.
LEMMA PriceInTheCart ==
    ASSUME TypeOK, NEW k \in DOMAIN lines, NEW p \in CartPrices(k), ~LeadsWithZero(p)
    PROVE  /\ p.units \in Nat /\ p.nanos \in Nat
           /\ Value(p) \in Int /\ Value(lines[k].cost) \in Int
           /\ Value(p) <= Value(lines[k].cost) + 1 /\ Value(lines[k].cost) <= Value(p) + 1
  <1>1. /\ lines[k].cost.units \in Nat /\ lines[k].cost.nanos \in Nat
        /\ Value(lines[k].cost) \in Int /\ NanosMod \in Nat /\ NanosMod > 1
    BY LineTypes, NanosModAssumption
  <1>2. CASE Currency # defaultCurrencyCode
    BY <1>1, <1>2 DEF CartPrices
  <1>3. CASE Currency = defaultCurrencyCode
    <2>1. p \in Catalog /\ lines[k].cost \in Convert(p, Currency)
      BY <1>3 DEF CartPrices, CatalogPrices
    <2>2. p.cur = Currency /\ p.units \in Nat /\ p.nanos \in 0 .. NanosMod - 1
      BY <1>3, <2>1, CatalogAssumption
    <2>3. Value(p) \in Nat /\ Double(p) = Value(p)
      BY <1>1, <2>2, DoubleReads DEF Value
    <2> DEFINE v == Value(p)
               r == Rates[Currency]
    <2>4. r \in Nat \ {0}
      BY CatalogAssumption, RatesAssumption
    <2> HIDE DEF v, r
    <2>5. v \in Nat /\ (v * r) \div r = v
      BY <2>3, <2>4 DEF v
    <2>6. lines[k].cost \in UnitsAndNanos(Currency, v)
      BY <2>1, <2>2, <2>3, <2>5 DEF Convert, v, r
    <2>7. PICK n \in {v - 1, v, v + 1} \cap Nat :
                 lines[k].cost = Amount(Currency, n \div NanosMod, n % NanosMod)
      BY <2>6 DEF UnitsAndNanos
    <2>8. lines[k].cost.units = n \div NanosMod /\ lines[k].cost.nanos = n % NanosMod
      BY <2>7 DEF Amount
    <2>9. (n \div NanosMod) * NanosMod + (n % NanosMod) = n
      BY <1>1
    <2>10. Value(lines[k].cost) = n
      BY <2>8, <2>9 DEF Value
    <2> QED
      BY <1>1, <2>2, <2>5, <2>7, <2>10 DEF v
  <1> QED
    BY <1>2, <1>3

\* The total under the cart and that of the order page differ by no more than a nano for
\* every item, however many lines the order has, unless a price leads with a zero.
THEOREM CartShowsTheOrderAlways == Spec => []CartShowsTheOrder
  <1>1. PriceInv => CartShowsTheOrder
    <2> SUFFICES ASSUME PriceInv, Charged, NEW price \in PricesInTheCart,
                        \A k \in DOMAIN lines : ~LeadsWithZero(price[k])
                 PROVE  Value(CartTotal(price)) - Value(PageTotal) \in -ItemCount .. ItemCount
      BY DEF CartShowsTheOrder
    <2> DEFINE n == Len(lines)
               shown == [k \in DOMAIN lines |-> lines[k].quantity * Value(price[k])]
               ordered == [k \in DOMAIN lines |-> lines[k].quantity * Value(Costed[k])]
               items == [k \in DOMAIN lines |-> lines[k].quantity]
               shownMore == [k \in DOMAIN lines |-> 1 * ordered[k] + items[k]]
               orderedMore == [k \in DOMAIN lines |-> 1 * shown[k] + items[k]]
    <2>1. /\ TypeOK /\ \A k \in DOMAIN lines : lines[k].quantity > 0
          /\ n \in Nat /\ DOMAIN lines = 1 .. n /\ NanosMod \in Nat
      BY NanosModAssumption DEF PriceInv, TypeOK, Charged
    <2>2. ASSUME NEW k \in DOMAIN lines
          PROVE  /\ price[k].units \in Nat /\ price[k].nanos \in Nat
                 /\ items[k] \in Int /\ shown[k] \in Int /\ ordered[k] \in Int
                 /\ shown[k] <= 1 * ordered[k] + items[k]
                 /\ ordered[k] <= 1 * shown[k] + items[k]
      <3> DEFINE q == lines[k].quantity
                 a == Value(price[k])
                 b == Value(Costed[k])
      <3>1. price[k] \in CartPrices(k) /\ Costed[k] = lines[k].cost
        BY DEF PricesInTheCart, Costed
      <3>2. /\ price[k].units \in Nat /\ price[k].nanos \in Nat
            /\ a \in Int /\ b \in Int /\ a <= b + 1 /\ b <= a + 1
        BY <2>1, <3>1, PriceInTheCart
      <3>3. q \in Nat
        BY <2>1, LineTypes
      <3>4. shown[k] = q * a /\ ordered[k] = q * b /\ items[k] = q
        OBVIOUS
      <3> HIDE DEF q, a, b, shown, ordered, items
      <3>5. q * a \in Int /\ q * b \in Int /\ q * a <= q * (b + 1) /\ q * b <= q * (a + 1)
        BY <3>2, <3>3
      <3>6. q * (b + 1) = q * b + q /\ q * (a + 1) = q * a + q
        BY <3>2, <3>3
      <3> QED
        BY <3>2, <3>3, <3>4, <3>5, <3>6
    <2>3. /\ Units(price) \in Nat /\ Nanos(price) \in Nat
          /\ Units(price) * NanosMod + Nanos(price) = UpTo(shown, n)
      BY <2>1, <2>2, PricedLines DEF OverLines
    <2>4. /\ Units(Costed) \in Nat /\ Nanos(Costed) \in Nat
          /\ Units(Costed) * NanosMod + Nanos(Costed) = UpTo(ordered, n)
      BY <2>1, LinesAreWorth DEF OverLines
    <2>5. shipping.units \in Nat /\ shipping.nanos \in Nat
      BY ShippingsAssumption, PricesHaveShape DEF PriceInv, TypeOK, Shape, IsAmount
    <2>6. Value(CartTotal(price))
              = (Units(price) + shipping.units) * NanosMod + (Nanos(price) + shipping.nanos)
      BY <2>3, <2>5, CarriedIsWorth DEF CartTotal
    <2>7. Value(PageTotal)
              = (Units(Costed) + shipping.units) * NanosMod + (Nanos(Costed) + shipping.nanos)
      BY <2>4, <2>5, CarriedIsWorth DEF PageTotal
    <2>8. ItemCount = UpTo(items, n)
      BY DEF ItemCount, OverLines
    <2>9. \A k \in 1 .. n : /\ items[k] \in Int /\ shown[k] \in Int /\ ordered[k] \in Int
                           /\ shown[k] <= 1 * ordered[k] + items[k]
                           /\ ordered[k] <= 1 * shown[k] + items[k]
      BY <2>1, <2>2
    <2>10. \A k \in 1 .. n : /\ shownMore[k] = 1 * ordered[k] + items[k]
                            /\ orderedMore[k] = 1 * shown[k] + items[k]
      BY <2>1
    <2> HIDE DEF n, shown, ordered, items, shownMore, orderedMore
    <2>11. n \in Nat /\ 1 \in Int
      BY <2>1
    <2>12. UpTo(items, n) \in Int /\ UpTo(shown, n) \in Int /\ UpTo(ordered, n) \in Int
      BY <2>9, <2>11, UpToType
    <2>13. UpTo(shown, n) <= UpTo(shownMore, n) /\ UpTo(ordered, n) <= UpTo(orderedMore, n)
      <3>1. \A k \in 1 .. n : /\ shown[k] \in Int /\ shownMore[k] \in Int
                             /\ ordered[k] \in Int /\ orderedMore[k] \in Int
                             /\ shown[k] <= shownMore[k] /\ ordered[k] <= orderedMore[k]
        BY <2>9, <2>10
      <3> QED
        BY <2>11, <3>1, UpToIsMonotone
    <2>14. UpTo(shownMore, n) = 1 * UpTo(ordered, n) + UpTo(items, n)
      BY <2>9, <2>10, <2>11, UpToIsLinear
    <2>15. UpTo(orderedMore, n) = 1 * UpTo(shown, n) + UpTo(items, n)
      BY <2>9, <2>10, <2>11, UpToIsLinear
    <2>16. Value(CartTotal(price)) = UpTo(shown, n) + Value(shipping)
      BY <2>1, <2>3, <2>5, <2>6 DEF Value
    <2>17. Value(PageTotal) = UpTo(ordered, n) + Value(shipping)
      BY <2>1, <2>4, <2>5, <2>7 DEF Value
    <2>18. Value(shipping) \in Int
      BY <2>1, <2>5 DEF Value
    <2> QED
      BY <2>8, <2>12, <2>13, <2>14, <2>15, <2>16, <2>17, <2>18
  <1> QED
    BY <1>1, PriceInvAlways, PTL
=============================================================================
