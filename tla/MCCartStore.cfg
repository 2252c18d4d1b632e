\* One shopper, three concurrent calls on two products.  When every call is done and the
\* key has vanished nothing is left to do: no deadlock check.
CONSTANTS
    a = a b = b c = c
    Users = {"u"}
    Products = {"book", "scope"}
    Calls = {a, b, c}
    Quantities <- SomeQuantities
SYMMETRY CallSymmetry
SPECIFICATION Spec
INVARIANTS CartIsExactUnlessStale NoCallCountsTwice UnexpiringCartHasAnOwner
CHECK_DEADLOCK FALSE
