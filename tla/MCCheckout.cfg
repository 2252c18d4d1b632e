\* Two shoppers, two orders and two items.  An item of zero or negative quantity only takes
\* steps away from an order that read it (it cannot be quoted, charged or shipped), so what
\* holds of items that can be shipped holds of it.  A system where every order is done may
\* stop: no deadlock check.
CONSTANTS
    u1 = u1 u2 = u2 r1 = r1 r2 = r2 book = book pen = pen
    Users = {u1, u2}
    Requests = {r1, r2}
    Items = {book, pen}
    ZeroItems = {}
    NegItems = {}
SPECIFICATION Spec
SYMMETRY CheckoutSymmetry
INVARIANTS
    ReplyTellsProgress
    OnlyPlacedOrdersAreAnnounced
    ItemsAreLostForAReason
    ItemsAreSoldTwiceForAReason
PROPERTIES
    CartLosesItemsForAReason
    ImplementsLifecycle
CHECK_DEADLOCK FALSE
