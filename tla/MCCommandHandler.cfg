SPECIFICATION FairSpec
CONSTANTS
    UINT32_MAX = 2
    INT_MAX = 0
    LAST_HOUR = 23
    Messages <- MixedMessages
    Defaults <- DefaultConfig
    QUEUE_LEN = 2
    REBOOT_MAX = 2
INVARIANTS
    TypeOK
    OneRestartPerCommand
    NoCommandUnheard
    CommandAppliedWhole
PROPERTIES
    RebootObeyed
CHECK_DEADLOCK FALSE
