-------------------------- MODULE CurrencyService --------------------------
(***************************************************************************)
(* What the currency service answers to Convert (currency/src/server.cpp). *)
(* It turns units and nanos into a double, through the euro into the other *)
(* currency, and back.  Doubles are integers of nanos here; what rounding  *)
(* can add to or take from a nano is a choice.                             *)
(*                                                                         *)
(* Base is 10 and Places the powers of ten up to NanosMod in the code.     *)
(* Amounts are not negative, rates are known (the map answers 0 for an     *)
(* unknown code, and what follows the division by it is undefined), and    *)
(* amounts small enough for a double to tell their nanos.                  *)
(***************************************************************************)
EXTENDS Money

CONSTANTS Base,    \* of the digits of nanos
          Places,  \* what the digits of nanos count: 1, Base, Base * Base, ... NanosMod
          Rates    \* currency_conversion: what a euro is worth, in some common fraction

ASSUME BaseAssumption == Base \in 2 .. NanosMod
ASSUME PlacesAssumption ==
    /\ Places \subseteq 1 .. NanosMod /\ NanosMod \in Places
    /\ \A p \in Places : p = 1 \/ \E q \in Places : p = Base * q
ASSUME RatesAssumption == \A code \in DOMAIN Rates : Rates[code] \in Nat \ {0}

\* getDouble's loop: the digits of nanos from the last to the first, each a tenth of the
\* decimal and before what was read so far.  It ends with the first digit that is not
\* zero, wherever that stands.
Decimal[nanos \in 0 .. NanosMod - 1] ==
    [decimal \in 0 .. NanosMod - 1 |->
        IF nanos = 0 THEN decimal
        ELSE Decimal[nanos \div Base][(decimal \div Base) + (nanos % Base) * (NanosMod \div Base)]]

\* getDouble, in nanos.
Double(m) == m.units * NanosMod + Decimal[m.nanos][0]

\* Mutant: rem * pow(10, 8).
UnitsAndTenths(code, nanos) ==
    {Amount(code, n \div NanosMod, (n % NanosMod) \div Base) :
        n \in {nanos - 1, nanos, nanos + 1} \cap Nat}

\* getUnitsAndNanos of a double near this number of nanos: the fraction is cut off.
UnitsAndNanos(code, nanos) ==
    {Amount(code, n \div NanosMod, n % NanosMod) : n \in {nanos - 1, nanos, nanos + 1} \cap Nat}

\* Convert: one answer for a price and a code, but which of these is up to the doubles.
Convert(from, code) ==
    UnitsAndNanos(code, (Double(from) * Rates[code]) \div Rates[from.cur])

\* nanos that getDouble misreads: the first decimal is zero, a later one is not.
LeadsWithZero(m) == 0 < m.nanos /\ m.nanos * Base < NanosMod
=============================================================================
