\* Three concurrent transactions, three orders of one or two lines, four units
\* in three batches, with the history of what each line has listed.
CONSTANTS
    Txn = {t1, t2, t3}
    Order = {o1, o2, o3}
    Document = {o1, o2, o3}
    Batch = {1, 2, 3}
    Location = {"main"}
    ItemOf <- MCItemOf
    FefoRank <- MCFefoRank
    UuidRank <- MCUuidRank
    InitialStock <- MCInitialStock
    OrderForms <- Mixed
    None = None
    Absent = Absent
SPECIFICATION FefoSpec
SYMMETRY Symmetric
INVARIANTS
    OrdersTypeOK
    NeverOversold
    LedgerExplainsStock
    ReservedIsHeld
    AllLinesOrNone
    LedgerExplainsReservations
    KeysUnique
    EarlierExpiryFirst
PROPERTY ShippingTakesWhatIsHeld
CHECK_DEADLOCK FALSE
