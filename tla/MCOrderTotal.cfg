\* A finished order has no next step: no deadlock check.
CONSTANTS
    NanosMod = 9
    Base = 3
    Places = {1, 3, 9}
    TaxDiv = 2
    UintMod = 4
    Currency = "USD"
    MaxLines = 2
    Rates <- OneToOne
    Catalog <- SmallPrices
    Costs <- ConvertedPrices
    Shippings <- SmallShippings
    Quantities <- SmallQuantities
SPECIFICATION Spec
INVARIANTS ChargeIsExact ChargeIsValid ZeroQuantityNeverCharged
    ShownTotalsLeaveOutOnlyTheTax CartShowsTheOrder
CHECK_DEADLOCK FALSE
