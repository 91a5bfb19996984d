--------------------------- MODULE StatusPublishers ----------------------------
(***************************************************************************)
(* The two publishers without memory of what they published:               *)
(* components/publishers/heartbeat_publisher.c and log_publisher.c.  Their *)
(* tasks are the same loop: read the settings one by one, compose a        *)
(* message, publish it and sleep, while commands (cmd_handler.c) change    *)
(* the same settings one by one in the MQTT task.  They have no setting in *)
(* common, so the module follows one task at a time.  Each getter and      *)
(* setter is one atomic step, as RuntimeConfig shows it may be.            *)
(*                                                                         *)
(* A string of the heartbeat is its length; the log task keeps its topic   *)
(* and the level the topic was built for.                                  *)
(***************************************************************************)
EXTENDS Integers, Sequences, SequencesExt

CONSTANTS
    Values,         \* the values each setting may have
    Defaults,
    CommandCalls,   \* setter calls of a command: sequences of <<setting, value>>
    NoLevel,        \* the empty string, "no topic yet"
    Size,           \* of the arrays attribute_name and device_status
    HEARTBEAT_JSON_BUF_SIZE,
    JSON_FRAME,     \* longest heartbeat without the three strings in it
    DEVICE_ID_LEN   \* length of APP_DEVICE_ID, a build setting

\* The settings of each task, in the order of its getters.
HeartbeatSettings == <<"heartbeat_interval_ms", "attribute_name", "device_status">>
LogSettings == <<"log_interval_ms", "log_level">>

ReadOrder == [heartbeat |-> HeartbeatSettings, log |-> LogSettings]
Settings == ToSet(HeartbeatSettings) \cup ToSet(LogSettings)

Strings == {"attribute_name", "device_status"}

ASSUME ValuesAssumption ==
    /\ DOMAIN Values = Settings /\ DOMAIN Defaults = Settings
    /\ \A f \in Settings : Defaults[f] \in Values[f]
ASSUME SizesAssumption ==
    /\ Size \in [Strings -> Nat \ {0}]
    /\ \A f \in Strings : Values[f] \subseteq Nat /\ Defaults[f] < Size[f]
    /\ {HEARTBEAT_JSON_BUF_SIZE, JSON_FRAME, DEVICE_ID_LEN} \subseteq Nat

\* With the sizes of the code an ID of up to 58 characters fits.
ASSUME DeviceIdAssumption ==
    JSON_FRAME + DEVICE_ID_LEN + Size["attribute_name"] + Size["device_status"]
        < HEARTBEAT_JSON_BUF_SIZE + 2

VARIABLES
    task,       \* the task that is followed: "heartbeat" or "log"
    s_cfg,      \* the settings
    todo,       \* setter calls the command in progress has still to make
    tpc,        \* the publisher task
    nread,      \* how many settings it has read in this cycle
    local,      \* its local copies
    topic, last_log_level,      \* log_task: the topic, <<>> before it is built
    seen        \* values each setting has had since the cycle began

topicVars == <<topic, last_log_level>>
vars == <<task, s_cfg, todo, tpc, nread, local, topicVars, seen>>

Init ==
    /\ task \in {"heartbeat", "log"}
    /\ s_cfg = Defaults /\ todo = <<>>
    /\ tpc = "off" /\ nread = 0 /\ local = Defaults
    /\ topic = <<>> /\ last_log_level = NoLevel
    /\ seen = [f \in Settings |-> {Defaults[f]}]

------------------------------------------------------------------------------
(* Variants with a plausible mistake, used to test the properties *)

\* The setters keep the whole string.
Whole(f, v) == v

\* The settings are read before the loop.
BeginCycleUnread ==
    /\ tpc \in {"off", "delay"} /\ nread' = 0
    /\ tpc' = IF tpc = "off" THEN "read" ELSE "compose"
    /\ seen' = [f \in Settings |-> {s_cfg[f]}]
    /\ UNCHANGED <<task, s_cfg, todo, local, topicVars>>

\* The topic is built once.
ComposeLogOnce ==
    /\ task = "log" /\ tpc = "compose" /\ tpc' = "publish"
    /\ topic' = IF last_log_level = NoLevel THEN <<local["log_level"]>> ELSE topic
    /\ last_log_level' = local["log_level"]
    /\ UNCHANGED <<task, s_cfg, todo, nread, local, seen>>

------------------------------------------------------------------------------
(* Commands, in the MQTT task *)

\* strlcpy into the array of the setting.  An interval is a number, and a level
\* is named by what is kept of it.
Kept(f, v) == IF f \in Strings /\ v >= Size[f] THEN Size[f] - 1 ELSE v

ReceiveCommand(c) ==
    /\ \A i \in 1..Len(c) : c[i][1] \in ToSet(ReadOrder[task])
    /\ todo = <<>> /\ todo' = c
    /\ UNCHANGED <<task, s_cfg, tpc, nread, local, topicVars, seen>>

\* The next setter of the command.
CallSetter ==
    /\ todo # <<>> /\ todo' = Tail(todo)
    /\ LET f == Head(todo)[1]
           v == Kept(f, Head(todo)[2])
       IN  s_cfg' = [s_cfg EXCEPT ![f] = v] /\ seen' = [seen EXCEPT ![f] = @ \cup {v}]
    /\ UNCHANGED <<task, tpc, nread, local, topicVars>>

CommandStep == CallSetter \/ \E c \in CommandCalls : ReceiveCommand(c)

------------------------------------------------------------------------------
(* heartbeat_task and log_task *)

\* A cycle begins: when the task starts, and after every delay.
BeginCycle ==
    /\ tpc \in {"off", "delay"} /\ tpc' = "read" /\ nread' = 0
    /\ seen' = [f \in Settings |-> {s_cfg[f]}]
    /\ UNCHANGED <<task, s_cfg, todo, local, topicVars>>

\* One getter.
ReadSetting ==
    /\ tpc = "read" /\ nread < Len(ReadOrder[task])
    /\ LET f == ReadOrder[task][nread + 1]
       IN  local' = [local EXCEPT ![f] = s_cfg[f]]
    /\ nread' = nread + 1
    /\ tpc' = IF nread' = Len(ReadOrder[task]) THEN "compose" ELSE tpc
    /\ UNCHANGED <<task, s_cfg, todo, topicVars, seen>>

MessageLength ==
    JSON_FRAME + DEVICE_ID_LEN + local["attribute_name"] + local["device_status"]

Fits == MessageLength < HEARTBEAT_JSON_BUF_SIZE

\* A heartbeat that does not fit is dropped.
ComposeHeartbeat ==
    /\ task = "heartbeat" /\ tpc = "compose"
    /\ tpc' = IF Fits THEN "publish" ELSE "delay"
    /\ UNCHANGED <<task, s_cfg, todo, nread, local, topicVars, seen>>

\* The topic is rebuilt only when the level changes.  Five numbers and the time
\* always fit.
ComposeLog ==
    /\ task = "log" /\ tpc = "compose" /\ tpc' = "publish"
    /\ topic' = IF local["log_level"] # last_log_level
                THEN <<local["log_level"]>> ELSE topic
    /\ last_log_level' = local["log_level"]
    /\ UNCHANGED <<task, s_cfg, todo, nread, local, seen>>

\* mqtt_client_manager_publish, whose result the task ignores.
PublishMessage ==
    /\ tpc = "publish" /\ tpc' = "delay"
    /\ UNCHANGED <<task, s_cfg, todo, nread, local, topicVars, seen>>

TaskStep ==
    BeginCycle \/ ReadSetting \/ ComposeHeartbeat \/ ComposeLog \/ PublishMessage

Next == TaskStep \/ CommandStep

\* The task runs, and its delays end.
Spec == Init /\ [][Next]_vars /\ WF_vars(TaskStep)

------------------------------------------------------------------------------
(* Properties *)

\* The type invariant; in particular a stored string is shorter than its array.
TypeOK ==
    /\ task \in {"heartbeat", "log"}
    /\ DOMAIN s_cfg = Settings /\ DOMAIN local = Settings /\ DOMAIN seen = Settings
    /\ \A f \in Settings : /\ s_cfg[f] \in Values[f] /\ local[f] \in Values[f]
                           /\ seen[f] \subseteq Values[f]
    /\ \A f \in Strings : s_cfg[f] < Size[f] /\ local[f] < Size[f]
    /\ tpc \in {"off", "read", "compose", "publish", "delay"}
    /\ nread \in 0..Len(ReadOrder[task])
    /\ topic \in {<<>>} \cup {<<l>> : l \in Values["log_level"]}
    /\ last_log_level \in Values["log_level"] \cup {NoLevel}

\* No heartbeat is dropped, whatever strings a command has set.
MessageFits == task = "heartbeat" /\ tpc = "compose" => Fits

\* "New log level; changes the uplink topic to devices/<device_id>/log/<level>":
\* each message goes to the topic of the level read in its cycle.  The exception
\* is the empty level, the code's mark for "no topic yet": if a command sets it
\* before the first cycle, the topic is published to although it was never built.
TopicMatchesLevel ==
    task = "log" /\ tpc = "publish" =>
        \/ topic = <<local["log_level"]>>
        \/ topic = <<>> /\ local["log_level"] = NoLevel

\* "Read runtime-configurable values on every iteration": each value a message
\* is made of was the setting at some moment of its cycle, so a command that was
\* done before the cycle began is in it.
MessageIsFresh ==
    tpc \in {"compose", "publish"} =>
        \A f \in ToSet(ReadOrder[task]) : local[f] \in seen[f]

\* Once no command changes a setting any more, messages go on and all show the
\* settings.
SettingsTakeEffect ==
    \/ []<><<s_cfg' # s_cfg>>_vars
    \/ []<>(tpc = "publish") /\ <>[](tpc = "publish" => local = s_cfg)

==============================================================================
