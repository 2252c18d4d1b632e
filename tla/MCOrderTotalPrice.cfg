\* A finished order has no next step: no deadlock check.
CONSTANTS
    NanosMod = 100
    Base = 10
    Places = {1, 10, 100}
    TaxDiv = 2
    UintMod = 4
    Currency = "USD"
    MaxLines = 1
    Rates <- OneToOne
    Catalog <- CatalogExcerpt
    Costs <- ConvertedPrices
    Shippings <- SmallShippings
    Quantities <- SmallQuantities
SPECIFICATION Spec
INVARIANT NanosAreBillionths
CHECK_DEADLOCK FALSE
