\* Three transactions receive into a known and a new bucket and adjust them.
CONSTANTS
    Txn = {t1, t2, t3}
    Batch = {n2, n3, n4}
    Location = {"main"}
    Document = {r1, n3, n4}
    Reference = {r1}
    Quantity = {1, 3}
    NewBatch = {n3, n4}
    MaxUnkeyed = 2
    CodeOf <- MCCodeOf
    ItemOf <- MCItemOf
    FefoRank <- MCFefoRank
    UuidRank <- MCUuidRank
    InitialStock <- MCInitialStock
    n2 = n2
    n3 = n3
    n4 = n4
    None = None
    Absent = Absent
SPECIFICATION InventorySpec
SYMMETRY Symmetric
INVARIANTS
    StockTypeOK
    NeverOversold
    CodesNameStock
PROPERTIES
    BucketsAppearStocked
    ReceiptsAreAtomic
CHECK_DEADLOCK FALSE
