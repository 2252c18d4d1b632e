\* The user may stop and every call be over: no deadlock check.
CONSTANTS
    Currencies = {"USD", "EUR"}
    USD = "USD"
    MaxCalls = 4
    MaxAtOnce = 2
    MaxActs = 4
    MaxRetries = 0

SPECIFICATION Spec

INVARIANTS
    ShownCartIsTheCart
    OrderTakesWhatWasShown
    NoItemIsOrderedTwice
    ItemsLeaveForAReason

CHECK_DEADLOCK FALSE
