SPECIFICATION FairSpec
CONSTANTS
    bolt = bolt
    nut = nut
    bolts = bolts
    nuts = nuts
    None = None
    Item <- MCItem
    Batch <- MCBatch
    ItemOf <- MCItemOf
    Filters <- MCFilters
    MaxRequests = 4
    MaxDrafts = 1
    MaxOthers = 1
CHECK_DEADLOCK FALSE
INVARIANTS
    PagesTypeOK
    CreatedOncePerDraft
    ConfirmedTookEffect
    WrongTableIsFlagged
PROPERTIES
    FormIsReleased
