SPECIFICATION BootFairSpec
CONSTANTS
    t1 = t1
    t2 = t2
    Topics <- TwoTopics
    MAX_SUBSCRIPTIONS = 2
    TIMER_QUEUE_LEN = 2
    OtherTimers = FALSE
    RECONNECT_BASE_MS = 2000
    RECONNECT_MAX_MS = 60000
    RECONNECT_MAX_EXP = 5
    ATTEMPT_MAX = 1
    MQTT_WAIT_MAX = 2
    retry_count = 2
INVARIANTS
    DeviceTypeOK
    EveryConnectionAnnounced
    CommandsSubscribed
    AllOrNothing
PROPERTIES
    StartUpFinishes
    ComesToRest
CHECK_DEADLOCK FALSE
