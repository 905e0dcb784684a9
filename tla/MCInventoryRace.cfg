\* Two receipts race to create the same bucket.
CONSTANTS
    Txn = {t1, t2}
    Batch = {1, n2}
    Location = {"main"}
    Document = {r1}
    Reference = {r1}
    Quantity = {1, 3}
    NewBatch = {}
    MaxUnkeyed = 2
    CodeOf <- MCCodeOf
    ItemOf <- MCItemOf
    FefoRank <- MCFefoRank
    UuidRank <- MCUuidRank
    InitialStock <- MCInitialStock
    n2 = n2
    n3 = n3
    n4 = n4
    None = None
    Absent = Absent
SPECIFICATION UndisturbedInventorySpec
PROPERTY LoserReReads
CHECK_DEADLOCK FALSE
