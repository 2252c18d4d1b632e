---------------------------- MODULE MCOrderTotal ----------------------------
\* Units of a few nanos, a tax rate of one half and 2-bit unsigned integers, so that
\* carries, borrows, truncated taxes and wrapped quantities all occur.
EXTENDS ShownTotals

InDollars(nanos) == Amount("USD", nanos \div NanosMod, nanos % NanosMod)

\* Every price below two units; in hundredths, 57.08 and 21.95 (the prices of two
\* products of the catalogue) and 175.
SmallPrices == {InDollars(n) : n \in 0 .. 2 * NanosMod - 1}
CatalogExcerpt == {InDollars(n) : n \in {5708, 2195, 17500}}

\* An order's costs are what Convert answers.
ConvertedPrices == UNION {Convert(p, Currency) : p \in Catalog}

SmallShippings == {InDollars(n) : n \in {0, NanosMod - 1, NanosMod + 2}}
SmallQuantities == -1..3

OneToOne == [c \in {Currency, "USD"} |-> 1]
=============================================================================
