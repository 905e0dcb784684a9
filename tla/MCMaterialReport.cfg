\* Two transactions, two work orders, four units at two places.
CONSTANTS
    Txn = {t1, t2}
    WorkOrder = {w1, w2}
    Document = {w1, w2}
    Batch = {1, 2}
    Location = {"main", "site"}
    ItemOf <- MCItemOf
    FefoRank <- MCFefoRank
    UuidRank <- MCUuidRank
    InitialStock <- MCInitialStock
    WorkOrderForms <- MCWorkOrderForms
    None = None
    Absent = Absent
SPECIFICATION ReportSpec
INVARIANTS
    ShortageIsNotItsOwnHold
CHECK_DEADLOCK FALSE
