SPECIFICATION DeviceSpec
CONSTANTS
    t1 = t1
    t2 = t2
    Topics <- TwoTopics
    MAX_SUBSCRIPTIONS = 2
    TIMER_QUEUE_LEN = 2
    OtherTimers = FALSE
    RECONNECT_BASE_MS = 2000
    RECONNECT_MAX_MS = 60000
    RECONNECT_MAX_EXP = 5
    ATTEMPT_MAX = 1
    MQTT_WAIT_MAX = 2
INVARIANTS
    SingleInitPerConnect
CHECK_DEADLOCK FALSE
