\* Two transactions that may deadlock, with fairness and against OrderBook; no
\* symmetry, for liveness.
CONSTANTS
    Txn = {t1, t2}
    Order = {o1, o2}
    Document = {o1, o2}
    Batch = {1, 2, 3}
    Location = {"main"}
    ItemOf <- MCItemOf
    FefoRank <- MCFefoRank
    UuidRank <- MCUuidRank
    InitialStock <- MCInitialStock
    OrderForms <- Mixed
    None = None
    Absent = Absent
SPECIFICATION FairOrdersSpec
PROPERTIES
    OperationsAreAtomic
    EveryTransactionEnds
CHECK_DEADLOCK FALSE
