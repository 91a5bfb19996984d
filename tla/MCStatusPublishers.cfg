SPECIFICATION Spec
CONSTANTS
    Values <- SmallValues
    Defaults <- DefaultSettings
    CommandCalls <- SmallCommands
    NoLevel = ""
    Size <- CodeSizes
    HEARTBEAT_JSON_BUF_SIZE = 256
    JSON_FRAME = 103
    DEVICE_ID_LEN = 58
INVARIANTS
    MessageFits
    TopicMatchesLevel
    MessageIsFresh
PROPERTIES
    SettingsTakeEffect
