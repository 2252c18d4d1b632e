\* Two orders, two duplicates each, and a producer that holds two messages.
CONSTANTS
    r1 = r1
    r2 = r2
    Requests = {r1, r2}
    Copies = 2
    Capacity = 2
SPECIFICATION Spec
INVARIANTS OutcomesBalance
PROPERTIES StuckForGood SendsEndUnlessStuck
\* All senders are done, or the producer is stuck.
CHECK_DEADLOCK FALSE
