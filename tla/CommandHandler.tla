--------------------------- MODULE CommandHandler ----------------------------
(***************************************************************************)
(* components/cmd_handler/cmd_handler.c without the firmware update, which *)
(* OtaUpdate has: the main task in cmd_handler_init, the MQTT task in      *)
(* on_mqtt_message, and the restart a reboot command causes in the midst   *)
(* of both.  A command is delivered at QoS 1: the broker keeps it until    *)
(* the MQTT task, back from the handler, acknowledges it, or the session   *)
(* ends.                                                                   *)
(***************************************************************************)
EXTENDS Commands

CONSTANTS
    Messages,       \* commands clients may publish
    Defaults,       \* settings after a start
    QUEUE_LEN,      \* bound on the commands the broker holds
    REBOOT_MAX      \* bound on the reboot commands clients publish

ASSUME BoundsAssumption == QUEUE_LEN \in Nat \ {0} /\ REBOOT_MAX \in Nat

\* The build's numbers fit their members.  Kconfig.projbuild takes a reset hour of
\* 0..255; every one above 23 means disabled to the counter.
ASSUME DefaultsAssumption ==
    /\ DOMAIN Defaults = Settings
    /\ \A f \in DOMAIN NumberType : Defaults[f] \in NumberType[f]

ASSUME NumbersAssumption ==
    \A m \in Messages : \A key \in DOMAIN m.items :
        IsNumber(m.items[key]) => m.items[key].twice \in Int

TopicOrder == <<"heartbeat", "counter", "log", "device", "reboot", "ota">>
Topics == ToSet(TopicOrder)

VARIABLES
    linked,             \* device and broker share a connection
    session,            \* topics the broker's session is subscribed to
    queue,              \* commands the broker holds for the session
    mpc,                \* the main task, from the first connection on
    stored,             \* topics in the manager's subscription table
    s_message_handler,  \* is the handler registered?
    hpc, done,          \* on_mqtt_message: items of the command that are done
    s_cfg,              \* the runtime configuration
    current, before,    \* the command that is handled, s_cfg before it
    rebootsSent, restarts

brokerVars == <<linked, session, queue>>
mainVars == <<mpc, stored, s_message_handler>>
handlerVars == <<hpc, done>>
historyVars == <<current, before>>
counters == <<rebootsSent, restarts>>
vars == <<brokerVars, mainVars, handlerVars, s_cfg, historyVars, counters>>

NoMessage == [topic |-> "none"]

PoweredOn ==
    /\ mpc = "wait" /\ stored = {} /\ s_message_handler = FALSE
    /\ hpc = "idle" /\ done = 0 /\ s_cfg = Defaults
    /\ current = NoMessage /\ before = Defaults

Init ==
    /\ PoweredOn
    /\ linked = FALSE /\ session = {} /\ queue = <<>>
    /\ rebootsSent = 0 /\ restarts = 0

\* MQTT_EVENT_DATA comes to the handler only whole and once it is registered.
Handled(m) == s_message_handler /\ ~m.chunked

\* The items the handler of the current command looks for, one after the other,
\* and what the next one has the setter called with.
Items == CommandTable[current.topic]
NextValues == AcceptedItem(Items[done + 1][1], current.items)

------------------------------------------------------------------------------
(* Variants with a plausible mistake, used to test the properties *)

\* Keeps the session.
Persistent == FALSE

\* Looks at the payload before the topic.
DispatchParsed(m) ==
    IF ~Handled(m) \/ m.payload # "json" THEN {"ack"}
    ELSE IF m.topic = "reboot" THEN {"reboot"} ELSE {"set", "ack"}

\* Subscribes first and leaves the callback for later.
RegisterLater ==
    /\ mpc = "wait" /\ linked
    /\ mpc' = "subscribe" /\ UNCHANGED s_message_handler
    /\ UNCHANGED <<brokerVars, stored, handlerVars, s_cfg, historyVars, counters>>

\* An item that is skipped ends the command.
HandleItemOrStop ==
    /\ hpc = "set" /\ done < Len(Items)
    /\ IF NextValues = {}
       THEN done' = Len(Items) /\ UNCHANGED s_cfg
       ELSE /\ \E v \in NextValues : s_cfg' = [s_cfg EXCEPT ![Items[done + 1][2]] = v]
            /\ done' = done + 1
    /\ UNCHANGED <<brokerVars, mainVars, hpc, historyVars, counters>>

------------------------------------------------------------------------------
(* Broker and network *)

\* .session.disable_clean_session = false: the broker forgets the session with
\* the connection.
CleanSession == TRUE

EndConnection ==
    /\ linked' = FALSE
    /\ IF CleanSession THEN session' = {} /\ queue' = <<>>
                       ELSE UNCHANGED <<session, queue>>

PublishCommand(m) ==
    /\ m.topic \in session /\ Len(queue) < QUEUE_LEN
    /\ queue' = Append(queue, m)
    /\ IF m.topic = "reboot"
       THEN rebootsSent < REBOOT_MAX /\ rebootsSent' = rebootsSent + 1
       ELSE UNCHANGED rebootsSent
    /\ UNCHANGED <<linked, session, mainVars, handlerVars, s_cfg, historyVars,
                   restarts>>

ConnectionLost ==
    /\ linked /\ EndConnection
    /\ UNCHANGED <<mainVars, handlerVars, s_cfg, historyVars, counters>>

\* The MQTT task connects and subscribes again to what is stored.
Connect ==
    /\ ~linked /\ hpc = "idle"
    /\ linked' = TRUE /\ session' = session \cup stored
    /\ UNCHANGED <<queue, mainVars, handlerVars, s_cfg, historyVars, counters>>

------------------------------------------------------------------------------
(* The main task: cmd_handler_init, once there has been a connection *)

RegisterHandler ==
    /\ mpc = "wait" /\ linked
    /\ mpc' = "subscribe" /\ s_message_handler' = TRUE
    /\ UNCHANGED <<brokerVars, stored, handlerVars, s_cfg, historyVars, counters>>

Subscribe ==
    /\ mpc = "subscribe"
    /\ LET t == TopicOrder[Cardinality(stored) + 1]
       IN  /\ stored' = stored \cup {t}
           /\ session' = IF linked THEN session \cup {t} ELSE session
    /\ mpc' = IF stored' = Topics THEN "running" ELSE mpc
    /\ UNCHANGED <<linked, queue, s_message_handler, handlerVars, s_cfg,
                   historyVars, counters>>

------------------------------------------------------------------------------
(* The MQTT task *)

\* What a command may make the handler do next: restart, look at the items, nothing.
\* The payload matters only after the test for the reboot topic.  Without memory for
\* its copy or its parse tree it is ignored like an invalid one.
Dispatch(m) ==
    IF ~Handled(m) THEN {"ack"}
    ELSE IF m.topic = "reboot" THEN {"reboot"}
    ELSE IF m.payload = "json" THEN {"set", "ack"} ELSE {"ack"}

Deliver ==
    /\ linked /\ hpc = "idle" /\ queue # <<>>
    /\ hpc' \in Dispatch(Head(queue)) /\ done' = 0
    /\ current' = Head(queue) /\ before' = s_cfg
    /\ UNCHANGED <<brokerVars, mainVars, s_cfg, counters>>

\* One item: its setter in app_runtime_config, if the value is accepted.
HandleItem ==
    /\ hpc = "set" /\ done < Len(Items)
    /\ IF NextValues = {}
       THEN UNCHANGED s_cfg
       ELSE \E v \in NextValues : s_cfg' = [s_cfg EXCEPT ![Items[done + 1][2]] = v]
    /\ done' = done + 1
    /\ UNCHANGED <<brokerVars, mainVars, hpc, historyVars, counters>>

HandlerIdle ==
    hpc' = "idle" /\ done' = 0 /\ current' = NoMessage /\ before' = Defaults

\* Back in esp-mqtt, which acknowledges the command if it still can.
Acknowledge ==
    /\ hpc = "ack" \/ (hpc = "set" /\ done = Len(Items))
    /\ HandlerIdle
    /\ queue' = IF linked THEN Tail(queue) ELSE queue
    /\ UNCHANGED <<linked, session, mainVars, s_cfg, counters>>

\* handle_reboot_cmd: everything in RAM is lost, the command not acknowledged.
Restart ==
    /\ hpc = "reboot" /\ EndConnection
    /\ mpc' = "wait" /\ stored' = {} /\ s_message_handler' = FALSE
    /\ HandlerIdle /\ s_cfg' = Defaults
    /\ restarts' = restarts + 1 /\ UNCHANGED rebootsSent

MqttStep == Deliver \/ HandleItem \/ Acknowledge \/ Restart

Next ==
    \/ \E m \in Messages : PublishCommand(m)
    \/ ConnectionLost \/ Connect
    \/ RegisterHandler \/ Subscribe
    \/ MqttStep

Spec == Init /\ [][Next]_vars

\* The MQTT task runs.  Nothing is assumed of the network.
FairSpec == Spec /\ WF_vars(MqttStep)

------------------------------------------------------------------------------
(* Properties *)

\* The type invariant.
TypeOK ==
    /\ linked \in BOOLEAN /\ session \subseteq Topics /\ stored \subseteq Topics
    /\ queue \in Seq(Messages) /\ Len(queue) <= QUEUE_LEN
    /\ mpc \in {"wait", "subscribe", "running"} /\ s_message_handler \in BOOLEAN
    /\ hpc \in {"idle", "set", "ack", "reboot"} /\ done \in 0..3
    /\ DOMAIN s_cfg = Settings /\ current \in Messages \cup {NoMessage}
    /\ \A f \in DOMAIN NumberType : s_cfg[f] \in NumberType[f]
    /\ rebootsSent \in 0..REBOOT_MAX /\ restarts \in Nat

\* The device restarts once for a reboot command, although it restarts before
\* the command is acknowledged: no command sends it into a boot loop.
OneRestartPerCommand == restarts <= rebootsSent

\* "Register the message callback before subscribing": no command reaches the
\* device at a moment when nobody would handle it, also after a restart.
NoCommandUnheard == queue # <<>> => s_message_handler

\* docs/mqtt-topics.md: command, key and type of each setting.  It does not mention
\* the reset hour; that row is from the log line at cmd_handler.c:294.
Documented ==
    [heartbeat_interval_ms |-> <<"heartbeat", "interval_ms", "number">>,
     counter_interval_ms   |-> <<"counter", "interval_ms", "number">>,
     counter_id            |-> <<"counter", "counter_id", "number">>,
     counter_reset_hour    |-> <<"counter", "reset_hour", "number">>,
     log_interval_ms       |-> <<"log", "interval_ms", "number">>,
     log_level             |-> <<"log", "level", "string">>,
     attribute_name        |-> <<"device", "attribute_name", "string">>,
     device_status         |-> <<"device", "device_status", "string">>]

LogLevels == {"verbose", "debug", "info", "warning", "error", "fatal", "none"}

\* The setting a field asks for if the documentation calls its value valid: an
\* interval above 0, one of the log levels, an hour or 255, anything that fits.
Meant(f, json) ==
    IF json.type # Documented[f][3] THEN {}
    ELSE CASE f \in IntervalSettings -> {n \in 1..UINT32_MAX : 2 * n = json.twice}
           [] f = "counter_id" -> {n \in IntRange : 2 * n = json.twice}
           [] f = "counter_reset_hour" ->
                  {h \in 0..RESET_DISABLED :
                       json.twice = 2 * (IF h = RESET_DISABLED THEN 255 ELSE h)}
           [] f = "log_level" -> {json.text} \cap LogLevels
           [] OTHER -> {json.text}

\* A value the documentation rules out: of another type, or "must be > 0".
RuledOut(f, json) ==
    json.type # Documented[f][3] \/ (f \in IntervalSettings /\ json.twice <= 0)

\* "Either field may be omitted": when a command is done, each field it carried
\* with a valid value is in effect, whatever became of the others; a setting that
\* it did not carry, or with a value that is ruled out, has not changed.  What
\* other values do (a fraction, a number that does not fit, a level that is not
\* listed, which the code stores) is left to the code: see README.md.
CommandAppliedWhole ==
    hpc = "set" /\ done = Len(Items) =>
        \A f \in DOMAIN Documented :
            LET key == Documented[f][2]
            IN  IF current.topic = Documented[f][1] /\ key \in DOMAIN current.items
                THEN LET json == current.items[key]
                     IN  /\ Meant(f, json) # {} => s_cfg[f] \in Meant(f, json)
                         /\ RuledOut(f, json) => s_cfg[f] = before[f]
                ELSE s_cfg[f] = before[f]

\* The next command for the device is a whole reboot command.
RebootDue ==
    linked /\ queue # <<>> /\ Head(queue).topic = "reboot" /\ ~Head(queue).chunked

\* "The payload is ignored": a reboot command that is received whole restarts
\* the device, unless the connection breaks first.
RebootObeyed == RebootDue ~> ~linked

==============================================================================
