SPECIFICATION Spec
CONSTANTS
    CounterIds <- AnyIds
    Intervals <- HourIntervals
    ResetHours <- AnyResetHour
    Defaults <- DefaultConfig
    HOURS = 3
    CLOCK_MAX = 5
    ClockSteps = {0}
    COUNT_MAX = 3
INVARIANTS
    TopicMatchesId
CHECK_DEADLOCK FALSE
