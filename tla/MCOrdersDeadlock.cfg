\* The same instance, asked for a circle of waiting transactions.
CONSTANTS
    Txn = {t1, t2}
    Order = {o1, o2}
    Document = {o1, o2}
    Batch = {1, 2, 3}
    Location = {"main"}
    ItemOf <- MCItemOf
    FefoRank <- MCFefoRank
    UuidRank <- MCUuidRank
    InitialStock <- MCInitialStock
    OrderForms <- TwoItems
    None = None
    Absent = Absent
SPECIFICATION OrdersSpec
INVARIANT NoDeadlock
CHECK_DEADLOCK FALSE
