\* Two instances and one partition of up to three messages, one order and one that
\* cannot be stored.  No symmetry, because of the liveness property.
CONSTANTS
    c1 = c1 c2 = c2 p1 = p1 o1 = o1 bad = bad garbage = garbage
    Consumers = {c1, c2}
    Partitions = {p1}
    Orders = {o1, bad}
    Unstorable = {bad}
    Poison = garbage
    HasDb = TRUE
    MaxLog = 3
SPECIFICATION Spec
INVARIANTS CommittedIsRecorded RecordedOnce
PROPERTIES CommitsAreSequential ImplementsLedger EveryMessageIsCommitted
