-------------------------- MODULE MCStatusPublishers ---------------------------
(* A small instance of StatusPublishers with the sizes of the code.  The    *)
(* frame of a heartbeat is 79 characters, plus 20 for the time and 4 for    *)
(* the RSSI; the strings are below, at and above the size of their array.   *)
EXTENDS StatusPublishers

CodeSizes == [attribute_name |-> 64, device_status |-> 32]

SmallValues ==
    [heartbeat_interval_ms |-> {1, 2}, log_interval_ms |-> {1, 2},
     log_level |-> {"", "info", "error"},
     attribute_name |-> {0, 63, 200}, device_status |-> {6, 31, 200}]

DefaultSettings ==
    [heartbeat_interval_ms |-> 1, log_interval_ms |-> 1, log_level |-> "info",
     attribute_name |-> 0, device_status |-> 6]

\* A command sets one setting, or a pair in the order of its handler.
SmallCommands ==
    LET Calls(f) == {<<f, v>> : v \in Values[f]}
        Pairs(f, g) == {<<c, d>> : c \in Calls(f), d \in Calls(g)}
    IN  UNION {{<<c>> : c \in Calls(f)} : f \in Settings}
        \cup Pairs("attribute_name", "device_status")
        \cup Pairs("log_interval_ms", "log_level")
==============================================================================
