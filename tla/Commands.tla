------------------------------ MODULE Commands -------------------------------
(***************************************************************************)
(* The configuration commands of components/cmd_handler/cmd_handler.c as   *)
(* data: which settings handle_heartbeat_cmd, handle_counter_cmd,          *)
(* handle_log_cmd and handle_device_cmd pass on, in which order, and what  *)
(* they make of a JSON value.                                              *)
(*                                                                         *)
(* A JSON number carries twice its value, so 1 is 0.5; a string carries    *)
(* its text; type "other" is anything else.  The items of a payload are a  *)
(* function from the keys that are present.                                *)
(***************************************************************************)
EXTENDS Integers, Sequences, SequencesExt

CONSTANTS
    UINT32_MAX,     \* largest interval
    INT_MAX,        \* largest counter id
    LAST_HOUR       \* 23

ASSUME WidthAssumption ==
    UINT32_MAX \in Nat /\ INT_MAX \in Nat /\ LAST_HOUR \in 0..254

IntRange == -INT_MAX - 1..INT_MAX

\* 255 in the code; it stands for every hour above the last one, which never comes.
RESET_DISABLED == LAST_HOUR + 1

\* The members of runtime_config_t.
Settings ==
    {"heartbeat_interval_ms", "attribute_name", "device_status",
     "counter_interval_ms", "counter_id", "counter_reset_hour",
     "log_interval_ms", "log_level"}

\* The values a number among them has room for.
IntervalSettings ==
    {"heartbeat_interval_ms", "counter_interval_ms", "log_interval_ms"}
NumberType ==
    [f \in IntervalSettings \cup {"counter_id", "counter_reset_hour"} |->
         CASE f \in IntervalSettings -> 0..UINT32_MAX
           [] f = "counter_id"       -> IntRange
           [] OTHER                  -> 0..RESET_DISABLED]

\* Per command: the key and the setting, in the order of the code.
CommandTable ==
    [heartbeat |-> << <<"interval_ms", "heartbeat_interval_ms">> >>,
     counter   |-> << <<"interval_ms", "counter_interval_ms">>,
                      <<"counter_id", "counter_id">>,
                      <<"reset_hour", "counter_reset_hour">> >>,
     log       |-> << <<"interval_ms", "log_interval_ms">>,
                      <<"level", "log_level">> >>,
     device    |-> << <<"attribute_name", "attribute_name">>,
                      <<"device_status", "device_status">> >>,
     ota       |-> <<>>]    \* see OtaUpdate

IsNumber(json) == json.type = "number"

\* The conversion to an integer drops the fraction, towards zero.
Truncated(twice) == IF twice >= 0 THEN twice \div 2 ELSE -((-twice) \div 2)

\* A double beyond the range of the integer converts to an unspecified value.
Interval(json) ==
    IF ~IsNumber(json) \/ json.twice <= 0 THEN {}
    ELSE IF Truncated(json.twice) <= UINT32_MAX THEN {Truncated(json.twice)}
    ELSE 0..UINT32_MAX

CounterId(json) ==
    IF ~IsNumber(json) THEN {}
    ELSE IF Truncated(json.twice) \in IntRange THEN {Truncated(json.twice)}
    ELSE IntRange

\* A variant with a plausible mistake, used to test the properties: the range is
\* not checked.
ResetHourUnchecked(json) == IF IsNumber(json) THEN {Truncated(json.twice)} ELSE {}

ResetHour(json) ==
    IF ~IsNumber(json) THEN {}
    ELSE IF json.twice >= 0 /\ json.twice <= 2 * LAST_HOUR
         THEN {Truncated(json.twice)} ELSE {RESET_DISABLED}

Text(json) == IF json.type = "string" THEN {json.text} ELSE {}

Accepted(key, json) ==
    CASE key = "interval_ms" -> Interval(json)
      [] key = "counter_id"  -> CounterId(json)
      [] key = "reset_hour"  -> ResetHour(json)
      [] OTHER               -> Text(json)

\* What the setter of one item may be called with, nothing if it is not called.
AcceptedItem(key, items) ==
    IF key \in DOMAIN items THEN Accepted(key, items[key]) ELSE {}

==============================================================================
