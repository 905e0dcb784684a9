\* The same instance, asked for a confirmation that is not true.
SPECIFICATION Spec
CONSTANTS
    bolt = bolt
    nut = nut
    bolts = bolts
    nuts = nuts
    None = None
    Item <- MCItem
    Batch <- MCBatch
    ItemOf <- MCItemOf
    Filters <- MCFilters
    MaxRequests = 3
    MaxDrafts = 1
    MaxOthers = 1
CHECK_DEADLOCK FALSE
INVARIANT NoticeIsTrue
