\* Three transactions, three transfers, partial receipts, a new bucket.
CONSTANTS
    Txn = {t1, t2, t3}
    Transfer = {x1, x2, x3}
    Document = {x1, x2, x3}
    Batch = {1}
    Location = {"main", "site"}
    ItemOf <- MCItemOf
    FefoRank <- MCFefoRank
    UuidRank <- MCUuidRank
    InitialStock <- MCInitialStock
    TransferForms <- MCTransferForms
    None = None
    Absent = Absent
SPECIFICATION TransfersSpec
SYMMETRY Symmetric
INVARIANTS
    TransfersTypeOK
    NeverOversold
    NoUnitLostInTransit
    TransferMatchesLedger
PROPERTY TransfersAreAtomic
CHECK_DEADLOCK FALSE
