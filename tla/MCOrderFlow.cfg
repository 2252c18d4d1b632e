\* One order and a duplicate of the flag, a partition of up to two messages.
CONSTANTS
    c1 = c1 p1 = p1 o1 = o1 garbage = garbage
    Consumers = {c1}
    Partitions = {p1}
    Orders = {o1}
    Unstorable = {}
    Poison = garbage
    HasDb = TRUE
    MaxLog = 2
    Copies = 1
    Capacity = 1
SPECIFICATION FlowSpec
INVARIANTS BooksAgreeWithSales RecordedIsChecked
