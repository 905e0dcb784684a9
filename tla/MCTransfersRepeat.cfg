\* A receipt is repeated because its answer was lost.
CONSTANTS
    Txn = {t1, t2}
    Transfer = {x1, x2}
    Document = {x1, x2}
    Batch = {1}
    Location = {"main", "site"}
    ItemOf <- MCItemOf
    FefoRank <- MCFefoRank
    UuidRank <- MCUuidRank
    InitialStock <- MCInitialStock
    TransferForms <- MCTransferForms
    None = None
    Absent = Absent
SPECIFICATION RepeatingClientsSpec
INVARIANT RepeatedReceiptCollides
CHECK_DEADLOCK FALSE
