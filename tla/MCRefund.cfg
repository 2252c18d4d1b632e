\* Three refunds and a query of one order.
CONSTANTS
    o1 = o1
    c1 = c1
    c2 = c2
    c3 = c3
    q1 = q1
    Orders = {o1}
    Calls = {c1, c2, c3}
    Queries = {q1}
SPECIFICATION Spec
SYMMETRY CallSymmetry
INVARIANTS ReplyTellsRefund RefundsAreOwned RefundedAgainOnlyUnsaved StatusIsNotStale
\* All calls are answered in the end.
CHECK_DEADLOCK FALSE
