SPECIFICATION FairSpec
CONSTANTS
    ann = ann
    bob = bob
    reserve = reserve
    reconcile = reconcile
    None = None
    Role <- MCRole
    User <- MCUser
    InitialRole <- MCInitialRole
    RolesFor <- MCRolesFor
    MaxRequests = 3
    MaxChanges = 1
CHECK_DEADLOCK FALSE
INVARIANTS
    SessionTypeOK
    RightsAreCurrent
    ActsAsShown
PROPERTIES
    ScreenIsReleased
    SessionEndsForAReason
