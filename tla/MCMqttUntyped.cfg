SPECIFICATION PublishSpec
CONSTANTS
    p1 = p1
    p2 = p2
    t1 = t1
    PublisherTasks <- TwoPublishers
    NoOne = NoOne
    Gone = Gone
    Topics <- OneTopic
    MAX_SUBSCRIPTIONS = 1
    TIMER_QUEUE_LEN = 2
    OtherTimers = FALSE
    RECONNECT_BASE_MS = 2000
    RECONNECT_MAX_MS = 2000
    RECONNECT_MAX_EXP = 5
    ATTEMPT_MAX = 1
INVARIANTS
    EveryMessageTyped
