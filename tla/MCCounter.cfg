SPECIFICATION Spec
CONSTANTS
    CounterIds <- ValidIds
    Intervals <- HourIntervals
    ResetHours <- AnyResetHour
    Defaults <- DefaultConfig
    HOURS = 4
    CLOCK_MAX = 6
    ClockSteps = {0, 1}
    COUNT_MAX = 3
INVARIANTS
    TopicMatchesId
    FirstPublishResets
PROPERTIES
    NoSecondReset
CHECK_DEADLOCK FALSE
