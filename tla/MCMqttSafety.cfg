SPECIFICATION Spec
CONSTANTS
    t1 = t1
    t2 = t2
    t3 = t3
    Topics <- ThreeTopics
    MAX_SUBSCRIPTIONS = 2
    TIMER_QUEUE_LEN = 3
    OtherTimers = TRUE
    RECONNECT_BASE_MS = 2000
    RECONNECT_MAX_MS = 60000
    RECONNECT_MAX_EXP = 5
    ATTEMPT_MAX = 7
INVARIANTS
    TypeOK
    OneConnectInFlight
    NoReconnectLost
    FlagTruthful
    StoredTopicsSubscribed
PROPERTIES
    BackoffDoubles
    ImplementsLifecycle
CHECK_DEADLOCK FALSE
