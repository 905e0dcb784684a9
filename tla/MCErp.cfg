\* Two transactions; an order, a work order, a transfer and an adjustment
\* contend for three units.
CONSTANTS
    Txn = {t1, t2}
    Order = {o1}
    WorkOrder = {w1}
    Transfer = {x1}
    Document = {o1, w1, x1}
    Batch = {1, 2}
    Location = {"main", "site"}
    Reference = {}
    Quantity = {1}
    NewBatch = {}
    MaxUnkeyed = 1
    CodeOf <- MCCodeOf
    ItemOf <- MCItemOf
    FefoRank <- MCFefoRank
    UuidRank <- MCUuidRank
    InitialStock <- MCInitialStock
    OrderForms <- MCOrderForms
    WorkOrderForms <- MCWorkOrderForms
    TransferForms <- MCTransferForms
    None = None
    Absent = Absent
SPECIFICATION FairSpec
INVARIANTS
    NeverOversold
    LedgerExplainsStock
    ReservedIsHeldByAll
    LedgerExplainsReservations
    EveryUnitAccounted
    WorkOrdersTypeOK
    WorkOrderHoldsItsMaterial
    StartDecidesAsShown
PROPERTY EveryRequestEnds
CHECK_DEADLOCK FALSE
