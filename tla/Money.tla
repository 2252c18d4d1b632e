------------------------------- MODULE Money -------------------------------
(***************************************************************************)
(* The checkout service's money arithmetic (src/checkout/money/money.go)   *)
(* and the tax of one order line (calculateTax in src/checkout/main.go).   *)
(*                                                                         *)
(* An amount is a record of a currency code, whole units and nanos, a      *)
(* signed fraction of a unit.  The code fixes NanosMod = 10^9, TaxDiv = 10 *)
(* (a rate of 0.10) and UintMod = 2^32; they are parameters here so that   *)
(* TLC can enumerate every carry and borrow and the proofs cover them all. *)
(***************************************************************************)
EXTENDS Integers

CONSTANTS NanosMod,   \* nanos in a unit (nanosMod)
          TaxDiv,     \* the tax rate is 1 / TaxDiv
          UintMod     \* the modulus of Go's uint32 conversions

ASSUME NanosModAssumption == NanosMod \in Nat /\ NanosMod > 1
ASSUME TaxDivAssumption   == TaxDiv \in Nat /\ TaxDiv > 0
ASSUME UintModAssumption  == UintMod \in Nat /\ UintMod > 1

Amount(cur, units, nanos) == [cur |-> cur, units |-> units, nanos |-> nanos]

\* Integer division and remainder as Go computes them: towards zero.
Quot(a, b) == IF a >= 0 THEN a \div b ELSE -((-a) \div b)
Rem(a, b)  == a - b * Quot(a, b)

ValidNanos(n) == -NanosMod < n /\ n < NanosMod

SignMatches(m) == \/ m.nanos = 0
                  \/ m.units = 0
                  \/ (m.nanos < 0) <=> (m.units < 0)

IsValid(m) == SignMatches(m) /\ ValidNanos(m.nanos)

-----------------------------------------------------------------------------
(* Sum returns a pair (value, error); err is "none" when the value counts. *)

SumRefused(why) == [err |-> why, val |-> Amount("", 0, 0)]
SumIs(m)        == [err |-> "none", val |-> m]

SameSign(units, nanos) == \/ units = 0 /\ nanos = 0
                          \/ units > 0 /\ nanos >= 0
                          \/ units < 0 /\ nanos <= 0

\* Mutant: the carry only above a unit.
CarryAboveLimit(units, nanos) ==
    IF nanos > NanosMod THEN [units |-> units + 1, nanos |-> nanos - NanosMod]
                        ELSE [units |-> units, nanos |-> nanos]

\* The addition proper, after the operands were accepted.  The two borrowing
\* cases are also reached with units = 0 and a non-zero fraction.
Carry(units, nanos) ==
    IF SameSign(units, nanos)
    THEN [units |-> units + Quot(nanos, NanosMod), nanos |-> Rem(nanos, NanosMod)]
    ELSE IF units > 0
    THEN [units |-> units - 1, nanos |-> nanos + NanosMod]
    ELSE [units |-> units + 1, nanos |-> nanos - NanosMod]

Sum(l, r) ==
    IF ~IsValid(l) \/ ~IsValid(r) THEN SumRefused("invalid value")
    ELSE IF l.cur # r.cur         THEN SumRefused("mismatching currency")
    ELSE LET c == Carry(l.units + r.units, l.nanos + r.nanos)
         IN  SumIs(Amount(l.cur, c.units, c.nanos))

-----------------------------------------------------------------------------
\* Go's uint32(q) of an int32 quantity.
Unsigned(q) == q % UintMod

\* calculateTax: the unit part is divided by the quantity and multiplied back.
\* Only defined for a quantity # 0: the code panics on zero.
CalculateTax(cost, quantity) ==
    LET baseUnits  == Quot(cost.units, TaxDiv)
        baseNanos  == Quot(cost.nanos, TaxDiv)
        taxPerUnit == Quot(baseUnits, quantity)
        nanos      == baseNanos * quantity
    IN  Amount(cost.cur, taxPerUnit * quantity + Quot(nanos, NanosMod),
                         Rem(nanos, NanosMod))

\* The reference meaning of an amount: a number of nanos.
Value(m) == m.units * NanosMod + m.nanos
=============================================================================
