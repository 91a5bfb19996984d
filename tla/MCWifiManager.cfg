SPECIFICATION FairSpec
CONSTANTS
    APP_WIFI_MAX_RETRY = 3
INVARIANTS
    NoSilentStop
PROPERTIES
    BudgetUsedUp
    InitReturns
    Settles
CHECK_DEADLOCK FALSE
